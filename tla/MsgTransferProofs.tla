------------------------- MODULE MsgTransferProofs -------------------------
(***************************************************************************)
(* Proofs about the msgtransfer service, for any number of messages,       *)
(* conversations and processes, batches of any size, and any number of     *)
(* failures, crashes and claims of batches that are still being worked on. *)
(***************************************************************************)
EXTENDS MsgTransfer, FiniteSetTheorems, SequenceTheorems, TLAPS

(***************************************************************************)
(* Positions in order.                                                     *)
(***************************************************************************)
Rank(at, n) == Cardinality({k \in at : k <= n})

LEMMA RankFacts ==
  ASSUME NEW at \in SUBSET Nat, IsFiniteSet(at), NEW n \in Nat
  PROVE  /\ Cardinality(at) \in Nat
         /\ Rank(at, n) \in 0..Cardinality(at)
         /\ n \in at => Rank(at, n) > 0
         /\ \A m \in at : n < m => Rank(at, n) < Rank(at, m)
<1> DEFINE upTo(x) == {k \in at : k <= x}
<1>1. ASSUME NEW x \in Nat
      PROVE  /\ upTo(x) \in SUBSET at
             /\ IsFiniteSet(upTo(x)) /\ Cardinality(upTo(x)) \in Nat
             /\ Cardinality(upTo(x)) <= Cardinality(at)
  <2>1. upTo(x) \in SUBSET at
    OBVIOUS
  <2> HIDE DEF upTo
  <2> QED
    BY <2>1, FS_Subset, FS_CardinalityType
<1>2. Cardinality(at) \in Nat
  BY FS_CardinalityType
<1>3. Rank(at, n) \in 0..Cardinality(at)
  BY <1>1, <1>2 DEF Rank
<1>4. ASSUME n \in at PROVE Rank(at, n) > 0
  <2>1. n \in upTo(n)
    BY <1>4
  <2>2. Cardinality(upTo(n)) # 0
    <3> HIDE DEF upTo
    <3> QED
      BY <2>1, <1>1, FS_EmptySet
  <2> QED
    BY <2>2, <1>1 DEF Rank
<1>5. ASSUME NEW m \in at, n < m PROVE Rank(at, n) < Rank(at, m)
  <2>1. upTo(n) \in SUBSET upTo(m)
    <3>1. ASSUME NEW x \in at, x <= n PROVE x <= m
      BY <1>5, <3>1
    <3> QED
      BY <3>1
  <2>2. m \in upTo(m) /\ m \notin upTo(n)
    BY <1>5
  <2>3. m \in Nat
    OBVIOUS
  <2>4. Cardinality(upTo(n)) <= Cardinality(upTo(m)) /\ Cardinality(upTo(n)) # Cardinality(upTo(m))
    <3> HIDE DEF upTo
    <3> QED
      BY <2>1, <2>2, <2>3, <1>1, FS_Subset
  <2> QED
    BY <2>4, <2>3, <1>1 DEF Rank
<1> QED
  BY <1>2, <1>3, <1>4, <1>5

\* As many ranks as positions, so every rank is taken, by one position only.
LEMMA NthPosition ==
  ASSUME NEW at \in SUBSET Nat, IsFiniteSet(at), NEW i \in 1..Cardinality(at)
  PROVE  Nth(at, i) \in at /\ Rank(at, Nth(at, i)) = i
<1> DEFINE rank == [n \in at |-> Rank(at, n)]
           N == Cardinality(at)
<1>1. N \in Nat
  BY FS_CardinalityType
<1>2. rank \in [at -> 1..N]
  <2>1. ASSUME NEW n \in at PROVE Rank(at, n) \in 1..N
    BY RankFacts
  <2> QED
    BY <2>1
<1>3. ASSUME NEW n \in at, NEW m \in at, rank[n] = rank[m] PROVE n = m
  <2>1. ~ (n < m) /\ ~ (m < n)
    BY <1>3, RankFacts
  <2> QED
    BY <2>1
<1>4. rank \in Injection(at, 1..N)
  <2> HIDE DEF rank
  <2> QED
    BY <1>2, <1>3 DEF Injection, IsInjective
<1>5. IsFiniteSet(1..N) /\ Cardinality(1..N) = N
  BY <1>1, FS_Interval
<1>6. rank \in Surjection(at, 1..N)
  <2> HIDE DEF rank
  <2> QED
    BY <1>4, <1>5, FS_Injection
<1>7. \E n \in at : rank[n] = i
  <2> HIDE DEF rank
  <2> QED
    BY <1>6 DEF Surjection
<1>8. \E n \in at : Rank(at, n) = i
  BY <1>7
<1> QED
  BY <1>8 DEF Nth, Rank

LEMMA NthOnto ==
  ASSUME NEW at \in SUBSET Nat, IsFiniteSet(at), NEW n \in at
  PROVE  Rank(at, n) \in 1..Cardinality(at) /\ Nth(at, Rank(at, n)) = n
<1>1. Rank(at, n) \in 1..Cardinality(at)
  BY RankFacts
<1>2. Nth(at, Rank(at, n)) \in at /\ Rank(at, Nth(at, Rank(at, n))) = Rank(at, n)
  BY <1>1, NthPosition
<1>3. PICK m \in at : m = Nth(at, Rank(at, n)) /\ Rank(at, m) = Rank(at, n)
  BY <1>2
<1>4. ~ (n < m) /\ ~ (m < n)
  BY <1>3, RankFacts
<1> QED
  BY <1>1, <1>3, <1>4

LEMMA NthIncreases ==
  ASSUME NEW at \in SUBSET Nat, IsFiniteSet(at),
         NEW i \in 1..Cardinality(at), NEW j \in 1..Cardinality(at), i < j
  PROVE  Nth(at, i) < Nth(at, j)
<1>1. PICK m \in at : m = Nth(at, i) /\ Rank(at, m) = i
  BY NthPosition
<1>2. PICK n \in at : n = Nth(at, j) /\ Rank(at, n) = j
  BY NthPosition
<1>3. i \in Nat /\ j \in Nat /\ m \in Nat /\ n \in Nat
  BY FS_CardinalityType
<1>4. ~ (n < m)
  <2>1. ASSUME n < m PROVE Rank(at, n) < Rank(at, m)
    BY <1>3, <2>1, RankFacts
  <2> QED
    BY <1>1, <1>2, <1>3, <2>1
<1>5. n # m
  BY <1>1, <1>2, <1>3
<1> QED
  BY <1>1, <1>2, <1>3, <1>4, <1>5

(* The greatest member is the one of the last rank. *)
LEMMA MaxFacts ==
  ASSUME NEW S \in SUBSET Nat, IsFiniteSet(S)
  PROVE  /\ MaxOf(S) \in Nat
         /\ \A n \in S : n <= MaxOf(S)
         /\ MaxOf(S) # 0 => MaxOf(S) \in S
<1>1. CASE S = {}
  BY <1>1 DEF MaxOf
<1>2. CASE S # {}
  <2>1. Cardinality(S) \in Nat /\ Cardinality(S) # 0
    BY <1>2, FS_CardinalityType, FS_EmptySet
  <2>2. Cardinality(S) \in 1..Cardinality(S)
    BY <2>1
  <2>3. PICK m \in S : Rank(S, m) = Cardinality(S)
    BY <2>2, NthPosition
  <2>4. ASSUME NEW n \in S PROVE m >= n
    <3>1. ~ (Rank(S, m) < Rank(S, n))
      BY <2>3, <2>1, RankFacts
    <3>2. ~ (m < n)
      BY <3>1, RankFacts
    <3> QED
      BY <3>2
  <2>5. \E x \in S : \A y \in S : x >= y
    BY <2>4
  <2>6. Max(S) \in S /\ \A y \in S : Max(S) >= y
    BY <2>5 DEF Max
  <2> QED
    BY <2>6, <1>2 DEF MaxOf
<1> QED
  BY <1>1, <1>2
-----------------------------------------------------------------------------
(***************************************************************************)
(* What a batch does.                                                      *)
(***************************************************************************)
JobSet == [conv : Conv, msgs : Seq(Msg) \ {<<>>}, store : BOOLEAN]

LEMMA Positions ==
  ASSUME NEW ms \in Seq(Msg), NEW at \in SUBSET DOMAIN ms
  PROVE  at \in SUBSET Nat /\ IsFiniteSet(at) /\ Cardinality(at) \in Nat
<1>1. DOMAIN ms = 1..Len(ms) /\ Len(ms) \in Nat
  OBVIOUS
<1>2. IsFiniteSet(1..Len(ms))
  BY <1>1, FS_Interval
<1>3. IsFiniteSet(at)
  BY <1>1, <1>2, FS_Subset
<1> QED
  BY <1>1, <1>3, FS_CardinalityType

LEMMA SubFacts ==
  ASSUME NEW ms \in Seq(Msg), NEW at \in SUBSET DOMAIN ms
  PROVE  /\ Sub(ms, at) \in Seq(Msg) /\ Len(Sub(ms, at)) = Cardinality(at)
         /\ DOMAIN Sub(ms, at) = 1..Cardinality(at)
         /\ \A i \in 1..Cardinality(at) : Nth(at, i) \in at /\ Sub(ms, at)[i] = ms[Nth(at, i)]
         /\ \A n \in at : \E i \in DOMAIN Sub(ms, at) : Sub(ms, at)[i] = ms[n]
         /\ at # {} => Sub(ms, at) # <<>>
<1>1. at \in SUBSET Nat /\ IsFiniteSet(at) /\ Cardinality(at) \in Nat
  BY Positions
<1>2. ASSUME NEW i \in 1..Cardinality(at)
      PROVE  Nth(at, i) \in at /\ ms[Nth(at, i)] \in Msg
  <2>1. Nth(at, i) \in at
    BY <1>1, NthPosition
  <2> QED
    BY <2>1
<1>3. Sub(ms, at) = [i \in 1..Cardinality(at) |-> ms[Nth(at, i)]]
  BY DEF Sub
<1>4. Sub(ms, at) \in [1..Cardinality(at) -> Msg]
  BY <1>2, <1>3
<1>5. Sub(ms, at) \in Seq(Msg) /\ Len(Sub(ms, at)) = Cardinality(at)
  BY <1>1, <1>4
<1>6. ASSUME NEW n \in at PROVE \E i \in DOMAIN Sub(ms, at) : Sub(ms, at)[i] = ms[n]
  BY <1>1, <1>3, NthOnto
<1>7. ASSUME at # {} PROVE Sub(ms, at) # <<>>
  BY <1>5, <1>6, <1>7
<1> QED
  BY <1>2, <1>3, <1>4, <1>5, <1>6, <1>7

\* s takes messages of ms in their order.
InOrder(s, ms) == \A i, l \in DOMAIN s : i < l => \E x, y \in DOMAIN ms : x < y /\ s[i] = ms[x] /\ s[l] = ms[y]

LEMMA SubInOrder ==
  ASSUME NEW ms \in Seq(Msg), NEW at \in SUBSET DOMAIN ms
  PROVE  InOrder(Sub(ms, at), ms)
<1>1. at \in SUBSET Nat /\ IsFiniteSet(at)
  BY Positions
<1>2. /\ DOMAIN Sub(ms, at) = 1..Cardinality(at)
      /\ \A i \in 1..Cardinality(at) : Nth(at, i) \in at /\ Sub(ms, at)[i] = ms[Nth(at, i)]
  BY SubFacts
<1> SUFFICES ASSUME NEW i \in DOMAIN Sub(ms, at), NEW l \in DOMAIN Sub(ms, at), i < l
             PROVE  \E x, y \in DOMAIN ms : x < y /\ Sub(ms, at)[i] = ms[x] /\ Sub(ms, at)[l] = ms[y]
  BY DEF InOrder
<1>3. Nth(at, i) < Nth(at, l)
  BY <1>1, <1>2, NthIncreases
<1> QED
  BY <1>2, <1>3

\* The two values of store, by name.
Storing == TRUE
Passing == FALSE

\* jobs is the part of a batch that does st with the messages at the positions.
Part(jobs, ms, at, conv, st) ==
  /\ jobs \in Seq(JobSet)
  /\ \A r \in DOMAIN jobs :
       /\ jobs[r].store = st /\ InOrder(jobs[r].msgs, ms)
       /\ \A i \in DOMAIN jobs[r].msgs :
            \E n \in at : jobs[r].msgs[i] = ms[n] /\ jobs[r].conv = conv[ms[n]]
  /\ \A n \in at : \E r \in DOMAIN jobs :
       /\ jobs[r].conv = conv[ms[n]]
       /\ \E i \in DOMAIN jobs[r].msgs : jobs[r].msgs[i] = ms[n]

LEMMA PushOnlyPart ==
  ASSUME NEW ms \in Seq(Msg), NEW at \in SUBSET DOMAIN ms, NEW conv \in [Msg -> Conv]
  PROVE  Part(PushOnly(ms, at, conv), ms, at, conv, Passing)
<1> DEFINE P == PushOnly(ms, at, conv)
           N == Cardinality(at)
<1>1. at \in SUBSET Nat /\ IsFiniteSet(at) /\ N \in Nat
  BY Positions
<1>2. \A i \in 1..N : Nth(at, i) \in at /\ ms[Nth(at, i)] \in Msg
  BY <1>1, NthPosition
<1>3. DOMAIN P = 1..N /\ \A i \in 1..N :
        P[i] = [conv |-> conv[ms[Nth(at, i)]], msgs |-> <<ms[Nth(at, i)]>>, store |-> FALSE]
  BY DEF PushOnly
<1>4. ASSUME NEW i \in 1..N
      PROVE  /\ P[i] \in JobSet /\ P[i].store = FALSE
             /\ P[i].conv = conv[ms[Nth(at, i)]]
             /\ DOMAIN P[i].msgs = {1} /\ P[i].msgs[1] = ms[Nth(at, i)]
  <2>1. PICK m \in Msg : m = ms[Nth(at, i)]
    BY <1>2
  <2>2. P[i] = [conv |-> conv[m], msgs |-> <<m>>, store |-> FALSE]
    BY <1>3, <2>1
  <2>3. <<m>> \in Seq(Msg) \ {<<>>} /\ DOMAIN <<m>> = {1} /\ <<m>>[1] = m
    OBVIOUS
  <2> HIDE DEF P
  <2> QED
    BY <2>1, <2>2, <2>3 DEF JobSet
<1>5. P \in Seq(JobSet)
  <2>1. P = [i \in 1..N |-> P[i]]
    BY DEF PushOnly
  <2>2. P \in [1..N -> JobSet]
    <3> HIDE DEF P, N
    <3> QED
      BY <2>1, <1>4
  <2> HIDE DEF P, N
  <2> QED
    BY <2>2, <1>1
<1>6. ASSUME NEW n \in at
      PROVE  \E r \in DOMAIN P : P[r].conv = conv[ms[n]] /\ \E i \in DOMAIN P[r].msgs : P[r].msgs[i] = ms[n]
  <2>1. PICK r \in 1..N : Nth(at, r) = n
    BY <1>1, NthOnto
  <2> HIDE DEF P, N
  <2> QED
    BY <2>1, <1>3, <1>4
<1> HIDE DEF P, N
<1>7. ASSUME NEW r \in DOMAIN P, NEW i \in DOMAIN P[r].msgs
      PROVE  \E n \in at : P[r].msgs[i] = ms[n] /\ P[r].conv = conv[ms[n]]
  BY <1>2, <1>3, <1>4
<1>8. \A r \in DOMAIN P : P[r].store = FALSE
  BY <1>3, <1>4
<1> QED
  <2>1. \A r \in DOMAIN P : InOrder(P[r].msgs, ms)
    BY <1>3, <1>4 DEF InOrder
  <2> QED
    BY <1>5, <1>6, <1>7, <1>8, <2>1 DEF Part, P, Passing

\* Every conversation of the batch has a first message.
LEMMA StoredPart ==
  ASSUME NEW ms \in Seq(Msg), NEW at \in SUBSET DOMAIN ms, NEW conv \in [Msg -> Conv]
  PROVE  Part(Stored(ms, at, conv), ms, at, conv, Storing)
<1> DEFINE firsts == {n \in at : \A k \in at : k < n => conv[ms[k]] # conv[ms[n]]}
           of(c) == {n \in at : conv[ms[n]] = c}
           P == Stored(ms, at, conv)
           N == Cardinality(firsts)
<1>1. at \in SUBSET Nat /\ IsFiniteSet(at)
  BY Positions
<1>2. firsts \in SUBSET DOMAIN ms /\ firsts \in SUBSET Nat /\ IsFiniteSet(firsts) /\ N \in Nat
  <2>1. firsts \in SUBSET DOMAIN ms
    OBVIOUS
  <2> HIDE DEF firsts
  <2> QED
    BY <2>1, Positions
<1>3. \A i \in 1..N : Nth(firsts, i) \in firsts
  <2> HIDE DEF firsts
  <2> QED
    BY <1>2, NthPosition
<1>4. DOMAIN P = 1..N /\ \A i \in 1..N :
        P[i] = [conv  |-> conv[ms[Nth(firsts, i)]],
                msgs  |-> Sub(ms, of(conv[ms[Nth(firsts, i)]])),
                store |-> TRUE]
  BY DEF Stored
<1>5. ASSUME NEW i \in 1..N
      PROVE  \E c \in Conv : /\ P[i] = [conv |-> c, msgs |-> Sub(ms, of(c)), store |-> TRUE]
                            /\ c = conv[ms[Nth(firsts, i)]] /\ of(c) # {}
  <2>1. PICK n \in at : n = Nth(firsts, i)
    BY <1>3
  <2>2. ms[n] \in Msg
    OBVIOUS
  <2>3. n \in of(conv[ms[n]])
    OBVIOUS
  <2>4. P[i] = [conv |-> conv[ms[n]], msgs |-> Sub(ms, of(conv[ms[n]])), store |-> TRUE]
    BY <1>4, <2>1
  <2>5. PICK c \in Conv : c = conv[ms[n]]
    BY <2>2
  <2>6. of(c) # {}
    BY <2>3, <2>5
  <2> HIDE DEF P, firsts, of
  <2> QED
    BY <2>1, <2>4, <2>5, <2>6
<1>6. ASSUME NEW c
      PROVE  /\ of(c) \in SUBSET DOMAIN ms
             /\ \A n \in of(c) : n \in at /\ conv[ms[n]] = c
             /\ \A n \in at : conv[ms[n]] = c => n \in of(c)
  OBVIOUS
<1>7. ASSUME NEW c
      PROVE  /\ Sub(ms, of(c)) \in Seq(Msg)
             /\ of(c) # {} => Sub(ms, of(c)) # <<>>
             /\ \A i \in DOMAIN Sub(ms, of(c)) : \E n \in of(c) : Sub(ms, of(c))[i] = ms[n]
             /\ \A n \in of(c) : \E i \in DOMAIN Sub(ms, of(c)) : Sub(ms, of(c))[i] = ms[n]
             /\ InOrder(Sub(ms, of(c)), ms)
  <2>1. PICK S \in SUBSET DOMAIN ms : S = of(c)
    BY <1>6
  <2>2. /\ Sub(ms, S) \in Seq(Msg)
        /\ S # {} => Sub(ms, S) # <<>>
        /\ \A i \in DOMAIN Sub(ms, S) : \E n \in S : Sub(ms, S)[i] = ms[n]
        /\ \A n \in S : \E i \in DOMAIN Sub(ms, S) : Sub(ms, S)[i] = ms[n]
    BY SubFacts
  <2>3. InOrder(Sub(ms, S), ms)
    <3>1. S \in SUBSET DOMAIN ms
      OBVIOUS
    <3> QED
      BY <3>1, SubInOrder
  <2> HIDE DEF of
  <2> QED
    BY <2>1, <2>2, <2>3
<1>8. P \in Seq(JobSet)
  <2>1. P = [i \in 1..N |-> P[i]]
    BY DEF Stored
  <2>2. ASSUME NEW i \in 1..N PROVE P[i] \in JobSet
    <3>1. PICK c \in Conv : /\ P[i] = [conv |-> c, msgs |-> Sub(ms, of(c)), store |-> TRUE]
                            /\ of(c) # {}
      BY <1>5
    <3>2. Sub(ms, of(c)) \in Seq(Msg) \ {<<>>}
      <4> HIDE DEF of
      <4> QED
        BY <3>1, <1>7
    <3> HIDE DEF P, of
    <3> QED
      BY <3>1, <3>2 DEF JobSet
  <2>3. P \in [1..N -> JobSet]
    <3> HIDE DEF P, N
    <3> QED
      BY <2>1, <2>2
  <2> HIDE DEF P, N
  <2> QED
    BY <2>3, <1>2
<1>9. ASSUME NEW r \in DOMAIN P
      PROVE  /\ P[r].store = TRUE
             /\ \A i \in DOMAIN P[r].msgs : \E n \in at : P[r].msgs[i] = ms[n] /\ P[r].conv = conv[ms[n]]
  <2>1. PICK c \in Conv : P[r] = [conv |-> c, msgs |-> Sub(ms, of(c)), store |-> TRUE]
    BY <1>4, <1>5
  <2> HIDE DEF P, of
  <2> QED
    BY <2>1, <1>6, <1>7
<1>10. ASSUME NEW n \in at
       PROVE  \E r \in DOMAIN P : P[r].conv = conv[ms[n]] /\ \E i \in DOMAIN P[r].msgs : P[r].msgs[i] = ms[n]
  <2>1. PICK c \in Conv : c = conv[ms[n]]
    OBVIOUS
  <2>2. n \in of(c) /\ of(c) \in SUBSET Nat /\ IsFiniteSet(of(c))
    <3>1. n \in of(c) /\ of(c) \in SUBSET DOMAIN ms
      BY <2>1
    <3> HIDE DEF of
    <3> QED
      BY <3>1, Positions
  <2>3. Cardinality(of(c)) \in Nat /\ 1 \in 1..Cardinality(of(c))
    <3> HIDE DEF of
    <3> QED
      BY <2>2, FS_CardinalityType, FS_EmptySet
  <2>4. PICK f \in of(c) : Rank(of(c), f) = 1
    <3> HIDE DEF of
    <3> QED
      BY <2>2, <2>3, NthPosition
  <2>5. \A k \in of(c) : ~ (k < f)
    <3> HIDE DEF of
    <3> QED
      BY <2>2, <2>4, RankFacts
  <2>6. f \in firsts /\ conv[ms[f]] = c
    BY <2>5
  <2>7. PICK r \in 1..N : Nth(firsts, r) = f
    <3> HIDE DEF firsts
    <3> QED
      BY <2>6, <1>2, NthOnto
  <2>8. r \in DOMAIN P /\ P[r].conv = c /\ P[r].msgs = Sub(ms, of(c))
    <3> HIDE DEF P, of, firsts
    <3> QED
      BY <2>6, <2>7, <1>4
  <2> HIDE DEF P, of
  <2> QED
    BY <2>1, <2>2, <2>8, <1>7
<1>11. ASSUME NEW r \in DOMAIN P PROVE InOrder(P[r].msgs, ms)
  <2>1. PICK c \in Conv : P[r] = [conv |-> c, msgs |-> Sub(ms, of(c)), store |-> TRUE]
    BY <1>4, <1>5
  <2>2. InOrder(Sub(ms, of(c)), ms)
    BY <1>7
  <2> HIDE DEF P, of
  <2> QED
    BY <2>1, <2>2
<1> HIDE DEF P, N, of, firsts
<1> QED
  BY <1>8, <1>9, <1>10, <1>11 DEF Part, P, Storing

LEMMA ConcatMembers ==
  ASSUME NEW S, NEW s \in Seq(S), NEW t \in Seq(S)
  PROVE  s \o t \in Seq(S) /\ ToSet(s \o t) = ToSet(s) \cup ToSet(t)
<1>1. /\ s \o t \in Seq(S) /\ Len(s \o t) = Len(s) + Len(t)
      /\ DOMAIN s = 1..Len(s) /\ DOMAIN t = 1..Len(t) /\ Len(s) \in Nat /\ Len(t) \in Nat
      /\ DOMAIN (s \o t) = 1..Len(s) + Len(t)
      /\ \A i \in 1..Len(s) + Len(t) : (s \o t)[i] = IF i <= Len(s) THEN s[i] ELSE t[i - Len(s)]
  OBVIOUS
<1> DEFINE u == s \o t
<1>2. ASSUME NEW x \in ToSet(u) PROVE x \in ToSet(s) \cup ToSet(t)
  <2>1. PICK i \in 1..Len(s) + Len(t) : x = u[i]
    BY <1>1, <1>2 DEF ToSet
  <2>2. CASE i <= Len(s)
    BY <2>1, <2>2, <1>1 DEF ToSet
  <2>3. CASE ~ (i <= Len(s))
    <3>1. i - Len(s) \in 1..Len(t) /\ x = t[i - Len(s)]
      BY <2>1, <2>3, <1>1
    <3> QED
      BY <3>1, <1>1 DEF ToSet
  <2> QED
    BY <2>2, <2>3
<1>3. ASSUME NEW i \in DOMAIN s PROVE s[i] \in ToSet(u)
  <2>1. i \in DOMAIN u /\ u[i] = s[i]
    BY <1>1
  <2> QED
    BY <2>1 DEF ToSet
<1>4. ASSUME NEW i \in DOMAIN t PROVE t[i] \in ToSet(u)
  <2>1. Len(s) + i \in DOMAIN u /\ u[Len(s) + i] = t[i]
    BY <1>1
  <2> QED
    BY <2>1 DEF ToSet
<1>5. ToSet(s) \cup ToSet(t) \subseteq ToSet(u)
  BY <1>3, <1>4 DEF ToSet
<1> QED
  BY <1>1, <1>2, <1>5

LEMMA PartServes ==
  ASSUME NEW jobs, NEW ms, NEW at, NEW conv, NEW st, Part(jobs, ms, at, conv, st), NEW n \in at
  PROVE  \E j \in ToSet(jobs) :
           j.conv = conv[ms[n]] /\ j.store = st /\ \E i \in DOMAIN j.msgs : j.msgs[i] = ms[n]
<1>1. PICK r \in DOMAIN jobs : /\ jobs[r].conv = conv[ms[n]]
                             /\ \E i \in DOMAIN jobs[r].msgs : jobs[r].msgs[i] = ms[n]
  BY DEF Part
<1>2. jobs[r].store = st /\ jobs[r] \in ToSet(jobs)
  BY DEF Part, ToSet
<1> QED
  BY <1>1, <1>2

LEMMA PartWants ==
  ASSUME NEW jobs, NEW ms, NEW at, NEW conv, NEW st, Part(jobs, ms, at, conv, st),
         NEW j \in ToSet(jobs), NEW i \in DOMAIN j.msgs
  PROVE  \E n \in at : j.msgs[i] = ms[n] /\ j.conv = conv[ms[n]] /\ j.store = st
<1>1. PICK r \in DOMAIN jobs : j = jobs[r]
  BY DEF ToSet
<1> QED
  BY <1>1 DEF Part

\* What becomes of a message in a conversation: st says whether it is stored.
Wants(m, c, st) ==
  \/ ~ Shape[m].notice /\ ~ Shape[m].history /\ c = Chat[m] /\ st = Passing
  \/ (IF Shape[m].notice THEN Shape[m].sendMsg ELSE Shape[m].history) /\ c = Chat[m] /\ st = Storing
  \/ Shape[m].notice /\ ~ Shape[m].history /\ c = Notice[m] /\ st = Passing
  \/ Shape[m].notice /\ Shape[m].history /\ c = Notice[m] /\ st = Storing

LEMMA PartInOrder ==
  ASSUME NEW jobs, NEW ms, NEW at, NEW conv, NEW st, Part(jobs, ms, at, conv, st), NEW j \in ToSet(jobs)
  PROVE  InOrder(j.msgs, ms)
BY DEF Part, ToSet

LEMMA ConversationTypes == Chat \in [Msg -> Conv] /\ Notice \in [Msg -> Conv]
BY ShapeAssumption DEF MsgShape, Chat, Notice

(* A batch does for its messages what each of them wants, and nothing else. *)
LEMMA JobsFacts ==
  ASSUME NEW ms \in Seq(Msg)
  PROVE  /\ Jobs(ms) \in Seq(JobSet)
         /\ \A j \in ToSet(Jobs(ms)) : \A i \in DOMAIN j.msgs :
              \E n \in DOMAIN ms : j.msgs[i] = ms[n] /\ Wants(ms[n], j.conv, j.store)
         /\ \A j \in ToSet(Jobs(ms)) : InOrder(j.msgs, ms)
         /\ \A n \in DOMAIN ms : \A c, st : Wants(ms[n], c, st) =>
              \E j \in ToSet(Jobs(ms)) : j.conv = c /\ j.store = st /\ \E i \in DOMAIN j.msgs : j.msgs[i] = ms[n]
<1> DEFINE chats == {n \in DOMAIN ms : IF Shape[ms[n]].notice THEN Shape[ms[n]].sendMsg ELSE Shape[ms[n]].history}
           transient == {n \in DOMAIN ms : ~Shape[ms[n]].notice /\ ~Shape[ms[n]].history}
           notices == {n \in DOMAIN ms : Shape[ms[n]].notice /\ Shape[ms[n]].history}
           alerts == {n \in DOMAIN ms : Shape[ms[n]].notice /\ ~Shape[ms[n]].history}
<1>1. PICK A : A = PushOnly(ms, transient, Chat) /\ Part(A, ms, transient, Chat, Passing)
  <2>1. transient \in SUBSET DOMAIN ms
    OBVIOUS
  <2> HIDE DEF transient
  <2> QED
    BY <2>1, PushOnlyPart, ConversationTypes
<1>2. PICK B : B = Stored(ms, chats, Chat) /\ Part(B, ms, chats, Chat, Storing)
  <2>1. chats \in SUBSET DOMAIN ms
    OBVIOUS
  <2> HIDE DEF chats
  <2> QED
    BY <2>1, StoredPart, ConversationTypes
<1>3. PICK C : C = PushOnly(ms, alerts, Notice) /\ Part(C, ms, alerts, Notice, Passing)
  <2>1. alerts \in SUBSET DOMAIN ms
    OBVIOUS
  <2> HIDE DEF alerts
  <2> QED
    BY <2>1, PushOnlyPart, ConversationTypes
<1>4. PICK D : D = Stored(ms, notices, Notice) /\ Part(D, ms, notices, Notice, Storing)
  <2>1. notices \in SUBSET DOMAIN ms
    OBVIOUS
  <2> HIDE DEF notices
  <2> QED
    BY <2>1, StoredPart, ConversationTypes
<1>5. Jobs(ms) = A \o B \o C \o D
  BY <1>1, <1>2, <1>3, <1>4 DEF Jobs
<1>6. /\ A \in Seq(JobSet) /\ B \in Seq(JobSet)
      /\ C \in Seq(JobSet) /\ D \in Seq(JobSet)
  BY <1>1, <1>2, <1>3, <1>4 DEF Part
<1>7. PICK AB \in Seq(JobSet) : AB = A \o B /\ ToSet(AB) = ToSet(A) \cup ToSet(B)
  <2>1. A \o B \in Seq(JobSet) /\ ToSet(A \o B) = ToSet(A) \cup ToSet(B)
    BY <1>6, ConcatMembers
  <2> QED
    BY <2>1
<1>8. PICK ABC \in Seq(JobSet) : ABC = AB \o C /\ ToSet(ABC) = ToSet(AB) \cup ToSet(C)
  <2>1. AB \o C \in Seq(JobSet) /\ ToSet(AB \o C) = ToSet(AB) \cup ToSet(C)
    BY <1>6, ConcatMembers
  <2> QED
    BY <2>1
<1>9. ABC \o D \in Seq(JobSet) /\ ToSet(ABC \o D) = ToSet(ABC) \cup ToSet(D)
  BY <1>6, ConcatMembers
<1>10. PICK J : J = Jobs(ms) /\ J \in Seq(JobSet) /\ ToSet(J) = ToSet(A) \cup ToSet(B) \cup ToSet(C) \cup ToSet(D)
  BY <1>5, <1>7, <1>8, <1>9
<1> HIDE DEF transient, chats, alerts, notices
<1>11. ASSUME NEW j \in ToSet(J), NEW i \in DOMAIN j.msgs
       PROVE  \E n \in DOMAIN ms : j.msgs[i] = ms[n] /\ Wants(ms[n], j.conv, j.store)
  <2>1. CASE j \in ToSet(A)
    <3>1. PICK n \in transient : j.msgs[i] = ms[n] /\ j.conv = Chat[ms[n]] /\ j.store = Passing
      BY <2>1, <1>1, PartWants
    <3> QED
      BY <3>1 DEF Wants, transient
  <2>2. CASE j \in ToSet(B)
    <3>1. PICK n \in chats : j.msgs[i] = ms[n] /\ j.conv = Chat[ms[n]] /\ j.store = Storing
      BY <2>2, <1>2, PartWants
    <3> QED
      BY <3>1 DEF Wants, chats
  <2>3. CASE j \in ToSet(C)
    <3>1. PICK n \in alerts : j.msgs[i] = ms[n] /\ j.conv = Notice[ms[n]] /\ j.store = Passing
      BY <2>3, <1>3, PartWants
    <3> QED
      BY <3>1 DEF Wants, alerts
  <2>4. CASE j \in ToSet(D)
    <3>1. PICK n \in notices : j.msgs[i] = ms[n] /\ j.conv = Notice[ms[n]] /\ j.store = Storing
      BY <2>4, <1>4, PartWants
    <3> QED
      BY <3>1 DEF Wants, notices
  <2> QED
    BY <2>1, <2>2, <2>3, <2>4, <1>10
<1>12. ASSUME NEW n \in DOMAIN ms, NEW c, NEW st, Wants(ms[n], c, st)
       PROVE  \E j \in ToSet(J) : j.conv = c /\ j.store = st /\ \E i \in DOMAIN j.msgs : j.msgs[i] = ms[n]
  <2>1. CASE n \in transient /\ c = Chat[ms[n]] /\ st = Passing
    <3>1. PICK j \in ToSet(A) : j.conv = c /\ j.store = st /\ \E i \in DOMAIN j.msgs : j.msgs[i] = ms[n]
      BY <2>1, <1>1, PartServes
    <3> QED
      BY <3>1, <1>10
  <2>2. CASE n \in chats /\ c = Chat[ms[n]] /\ st = Storing
    <3>1. PICK j \in ToSet(B) : j.conv = c /\ j.store = st /\ \E i \in DOMAIN j.msgs : j.msgs[i] = ms[n]
      BY <2>2, <1>2, PartServes
    <3> QED
      BY <3>1, <1>10
  <2>3. CASE n \in alerts /\ c = Notice[ms[n]] /\ st = Passing
    <3>1. PICK j \in ToSet(C) : j.conv = c /\ j.store = st /\ \E i \in DOMAIN j.msgs : j.msgs[i] = ms[n]
      BY <2>3, <1>3, PartServes
    <3> QED
      BY <3>1, <1>10
  <2>4. CASE n \in notices /\ c = Notice[ms[n]] /\ st = Storing
    <3>1. PICK j \in ToSet(D) : j.conv = c /\ j.store = st /\ \E i \in DOMAIN j.msgs : j.msgs[i] = ms[n]
      BY <2>4, <1>4, PartServes
    <3> QED
      BY <3>1, <1>10
  <2> QED
    BY <2>1, <2>2, <2>3, <2>4, <1>12 DEF Wants, transient, chats, alerts, notices
<1>13. ASSUME NEW j \in ToSet(J) PROVE InOrder(j.msgs, ms)
  <2>1. CASE j \in ToSet(A)
    BY <2>1, <1>1, PartInOrder
  <2>2. CASE j \in ToSet(B)
    BY <2>2, <1>2, PartInOrder
  <2>3. CASE j \in ToSet(C)
    BY <2>3, <1>3, PartInOrder
  <2>4. CASE j \in ToSet(D)
    BY <2>4, <1>4, PartInOrder
  <2> QED
    BY <2>1, <2>2, <2>3, <2>4, <1>10
<1> QED
  BY <1>10, <1>11, <1>12, <1>13

LEMMA JobServes ==
  ASSUME NEW ms \in Seq(Msg), NEW n \in DOMAIN ms, NEW c, NEW st, Wants(ms[n], c, st)
  PROVE  \E j \in ToSet(Jobs(ms)) : j.conv = c /\ j.store = st /\ \E i \in DOMAIN j.msgs : j.msgs[i] = ms[n]
<1>1. \A k \in DOMAIN ms : \A d, s : Wants(ms[k], d, s) =>
        \E j \in ToSet(Jobs(ms)) : j.conv = d /\ j.store = s /\ \E i \in DOMAIN j.msgs : j.msgs[i] = ms[k]
  BY JobsFacts
<1> QED
  BY <1>1

(* What a message is owed when it is alone, every batch with it does.       *)
LEMMA OwedJob ==
  ASSUME NEW ms \in Seq(Msg), NEW n \in DOMAIN ms, NEW j \in Owed[ms[n]]
  PROVE  \E r \in DOMAIN Jobs(ms) :
           /\ Jobs(ms)[r].conv = j.conv /\ Jobs(ms)[r].store = j.store
           /\ \E i \in DOMAIN Jobs(ms)[r].msgs : Jobs(ms)[r].msgs[i] = ms[n]
<1>1. PICK m \in Msg : m = ms[n]
  OBVIOUS
<1>2. PICK one \in Seq(Msg) : one = <<m>> /\ DOMAIN one = {1} /\ one[1] = m
  <2>1. <<m>> \in Seq(Msg) /\ DOMAIN <<m>> = {1} /\ <<m>>[1] = m
    OBVIOUS
  <2> QED
    BY <2>1
<1>3. j \in ToSet(Jobs(one)) /\ j \in JobSet
  <2>1. j \in ToSet(Jobs(one))
    BY <1>1, <1>2 DEF Owed
  <2>2. Jobs(one) \in Seq(JobSet)
    BY JobsFacts
  <2> QED
    BY <2>1, <2>2 DEF ToSet
<1>4. 1 \in DOMAIN j.msgs
  <2>1. j.msgs \in Seq(Msg) /\ j.msgs # <<>>
    BY <1>3 DEF JobSet
  <2> QED
    BY <2>1
<1>5. Wants(m, j.conv, j.store)
  <2>1. PICK k \in DOMAIN one : j.msgs[1] = one[k] /\ Wants(one[k], j.conv, j.store)
    BY <1>3, <1>4, JobsFacts
  <2> QED
    BY <2>1, <1>2
<1>6. PICK x \in ToSet(Jobs(ms)) : x.conv = j.conv /\ x.store = j.store /\ \E i \in DOMAIN x.msgs : x.msgs[i] = ms[n]
  <2>1. Wants(ms[n], j.conv, j.store)
    BY <1>1, <1>5
  <2> QED
    BY <2>1, JobServes
<1> QED
  BY <1>6 DEF ToSet
-----------------------------------------------------------------------------
(***************************************************************************)
(* Types.  A batch in progress is one of four kinds of record; what TypeOK *)
(* needs of it is that the lookups left no message without a number or a   *)
(* place among the fresh ones.                                             *)
(***************************************************************************)
JobPcs == {"lookup", "malloc", "remember", "cache", "save", "ensure", "mysql", "push"}
Collected == [pc : {"receipts"}, batch : Seq(Nat)]
Acking == [pc : {"ack"}, batch : Seq(Nat), at : Nat]
Working == [pc : JobPcs, batch : Seq(Nat), jobs : Seq(JobSet), at : Nat,
            seqs : Seq(Nat), fresh : Seq(Nat), last : Nat]
Works == {Idle} \cup Collected \cup Acking \cup Working

Numbered(w) == \A i \in DOMAIN w.seqs : w.seqs[i] > 0
Accounted(w, n) == \A i \in DOMAIN w.seqs :
  i < n /\ w.seqs[i] = 0 => \E f \in DOMAIN w.fresh : w.fresh[f] = i

JobOK(w) ==
  /\ w.jobs # <<>>
  /\ Len(w.seqs) = Len(Head(w.jobs).msgs)
  /\ \A f \in DOMAIN w.fresh : w.fresh[f] \in DOMAIN w.seqs
  /\ w.pc # "push" => Head(w.jobs).store
  /\ w.pc = "lookup" => w.at \in DOMAIN w.seqs /\ Accounted(w, w.at)
  /\ w.pc = "malloc" => w.at = 1 /\ w.fresh # <<>> /\ Accounted(w, Len(w.seqs) + 1)
  /\ w.pc = "remember" => w.at \in DOMAIN w.fresh /\ Numbered(w)
  /\ w.pc \in {"cache", "save", "ensure", "mysql"} => w.at = 1 /\ Numbered(w)
  /\ w.pc = "push" => /\ w.at \in DOMAIN w.seqs
                      /\ Head(w.jobs).store => Numbered(w)
                      /\ ~ Head(w.jobs).store => \A i \in DOMAIN w.seqs : w.seqs[i] = 0

WorkOK(w, read) ==
  /\ w.pc # "idle" => w.batch # <<>> /\ \A b \in DOMAIN w.batch : w.batch[b] \in 1..read
  /\ w.pc = "ack" => w.at \in DOMAIN w.batch
  /\ w.pc \in JobPcs => JobOK(w)

Batches == [conv : Conv, msgs : Seq(Msg), seqs : Seq(Nat)]
BatchOK(b) == Len(b.seqs) = Len(b.msgs) /\ \A i \in DOMAIN b.seqs : b.seqs[i] > 0

QueueOK(q, S) ==
  /\ q \in [log : Seq(S), read : Nat, pending : SUBSET Nat]
  /\ q.read <= Len(q.log)
  /\ \A e \in q.pending : e \in 1..q.read

ReadSeqs == [conv : Conv, seqs : [Users -> Nat]]
Pushes == [conv : Conv, msg : Msg, seq : Nat]

StoresOK ==
  /\ DOMAIN clientSeq = Conv
  /\ \A c \in Conv : \A m \in DOMAIN clientSeq[c] : m \in Msg /\ clientSeq[c][m] \in Nat \ {0}
  /\ DOMAIN rows = Conv
  /\ \A c \in Conv : \A n \in DOMAIN rows[c] : n \in Nat \ {0} /\ rows[c][n] \in Msg
  /\ counter \in [Conv -> Nat] /\ savedMax \in [Conv -> Nat]
  /\ readDB \in [Conv -> [Users -> Nat]] /\ readCache \in [Conv -> [Users -> Nat]]

ProcessesOK ==
  /\ buffer \in [Process -> [Key -> Seq(Nat)]]
  /\ \A p \in Process, k \in Key : \A i \in DOMAIN buffer[p][k] : buffer[p][k][i] \in 1..toRedis.read
  /\ work \in [Process -> [Key -> Works]]
  /\ \A p \in Process, k \in Key : WorkOK(work[p][k], toRedis.read)
  /\ readCh \in [Process -> Seq(ReadSeqs)]

TopicsOK ==
  /\ QueueOK(toRedis, Msg)
  /\ QueueOK(toMySQL, Batches)
  /\ \A e \in DOMAIN toMySQL.log : BatchOK(toMySQL.log[e])
  /\ toPush \in Seq(Pushes)

TInv == StoresOK /\ ProcessesOK /\ TopicsOK /\ faults \in 0..MaxFaults

\* The work of (p, k), spelled out.
LEMMA WorkFacts ==
  ASSUME ProcessesOK, NEW p \in Process, NEW k \in Key
  PROVE  /\ W(p, k) \in Works /\ WorkOK(W(p, k), toRedis.read)
         /\ W(p, k) = Idle <=> W(p, k).pc = "idle"
         /\ At(p, k, "receipts") => W(p, k) \in Collected
         /\ At(p, k, "ack") => W(p, k) \in Acking
         /\ W(p, k).pc \in JobPcs => W(p, k) \in Working
         /\ W(p, k) # Idle => W(p, k).batch \in Seq(Nat)
<1>1. W(p, k) \in Works /\ WorkOK(W(p, k), toRedis.read)
  BY DEF ProcessesOK, W
<1>2. PICK w : w = W(p, k)
  OBVIOUS
<1>3. w \in Works
  BY <1>1, <1>2
<1>4. /\ w = Idle <=> w.pc = "idle"
      /\ w.pc = "receipts" => w \in Collected
      /\ w.pc = "ack" => w \in Acking
      /\ w.pc \in JobPcs => w \in Working
      /\ w # Idle => w.batch \in Seq(Nat)
  BY <1>3 DEF Works, Idle, Collected, Acking, Working, JobPcs
<1> QED
  BY <1>1, <1>2, <1>4 DEF At

LEMMA JobFacts ==
  ASSUME NEW w \in Working, JobOK(w)
  PROVE  /\ Head(w.jobs) \in JobSet
         /\ Head(w.jobs).conv \in Conv /\ Head(w.jobs).msgs \in Seq(Msg)
         /\ DOMAIN w.seqs = 1..Len(w.seqs) /\ DOMAIN Head(w.jobs).msgs = DOMAIN w.seqs
         /\ Len(w.seqs) \in Nat /\ 1 \in DOMAIN w.seqs
         /\ \A i \in DOMAIN w.seqs : w.seqs[i] \in Nat /\ Head(w.jobs).msgs[i] \in Msg
         /\ DOMAIN w.fresh = 1..Len(w.fresh) /\ Len(w.fresh) \in Nat
         /\ \A f \in DOMAIN w.fresh : w.fresh[f] \in Nat
<1>1. w.jobs \in Seq(JobSet) /\ w.jobs # <<>> /\ w.seqs \in Seq(Nat) /\ w.fresh \in Seq(Nat)
  BY DEF Working, JobOK
<1>2. Head(w.jobs) \in JobSet
  BY <1>1
<1>3. Head(w.jobs).conv \in Conv /\ Head(w.jobs).msgs \in Seq(Msg) /\ Head(w.jobs).msgs # <<>>
  BY <1>2 DEF JobSet
<1>4. Len(w.seqs) = Len(Head(w.jobs).msgs)
  BY DEF JobOK
<1>5. PICK ms \in Seq(Msg) : ms = Head(w.jobs).msgs /\ ms # <<>>
  BY <1>3
<1>6. /\ DOMAIN w.seqs = 1..Len(w.seqs) /\ Len(w.seqs) \in Nat
      /\ DOMAIN ms = 1..Len(ms) /\ Len(ms) # 0
      /\ \A i \in DOMAIN ms : ms[i] \in Msg
  BY <1>1, <1>5
<1>7. /\ \A i \in DOMAIN w.seqs : w.seqs[i] \in Nat
      /\ DOMAIN w.fresh = 1..Len(w.fresh) /\ Len(w.fresh) \in Nat
      /\ \A f \in DOMAIN w.fresh : w.fresh[f] \in Nat
  BY <1>1
<1> QED
  BY <1>2, <1>3, <1>4, <1>5, <1>6, <1>7

\* The next job, or the acknowledgements.
LEMMA BeginFacts ==
  ASSUME NEW batch \in Seq(Nat), NEW jobs \in Seq(JobSet)
  PROVE  /\ Begin(batch, jobs) \in Works
         /\ Begin(batch, jobs).batch = batch
         /\ jobs = <<>> => Begin(batch, jobs).pc = "ack" /\ Begin(batch, jobs).at = 1
         /\ jobs # <<>> =>
              /\ Begin(batch, jobs) \in Working /\ Begin(batch, jobs).jobs = jobs
              /\ Begin(batch, jobs).pc \in {"lookup", "push"}
              /\ JobOK(Begin(batch, jobs)) /\ Begin(batch, jobs).at = 1 /\ Begin(batch, jobs).fresh = <<>>
              /\ \A i \in DOMAIN Begin(batch, jobs).seqs : Begin(batch, jobs).seqs[i] = 0
         /\ \A read : (batch # <<>> /\ \A b \in DOMAIN batch : batch[b] \in 1..read)
              => WorkOK(Begin(batch, jobs), read)
<1>1. CASE jobs = <<>>
  <2>1. PICK w : w = Begin(batch, jobs) /\ w = [pc |-> "ack", batch |-> batch, at |-> 1]
    BY <1>1 DEF Begin
  <2>2. w \in Acking
    BY <2>1 DEF Acking
  <2>3. w.pc = "ack" /\ w.at = 1 /\ w.batch = batch /\ w.pc \notin JobPcs
    BY <2>1 DEF JobPcs
  <2>4. batch # <<>> => 1 \in DOMAIN batch
    OBVIOUS
  <2> QED
    BY <1>1, <2>1, <2>2, <2>3, <2>4 DEF WorkOK, Works
<1>2. CASE jobs # <<>>
  <2>1. PICK j \in JobSet : j = Head(jobs)
    BY <1>2
  <2>2. j.msgs \in Seq(Msg) /\ j.msgs # <<>> /\ j.store \in BOOLEAN
    BY <2>1 DEF JobSet
  <2>3. PICK zeros \in Seq(Nat) : /\ zeros = [i \in DOMAIN j.msgs |-> 0] /\ Len(zeros) = Len(j.msgs)
                                  /\ DOMAIN zeros = DOMAIN j.msgs /\ \A i \in DOMAIN zeros : zeros[i] = 0
    <3>1. DOMAIN j.msgs = 1..Len(j.msgs) /\ Len(j.msgs) \in Nat
      BY <2>2
    <3>2. [i \in DOMAIN j.msgs |-> 0] \in [1..Len(j.msgs) -> Nat]
      BY <3>1
    <3>3. [i \in DOMAIN j.msgs |-> 0] \in Seq(Nat) /\ Len([i \in DOMAIN j.msgs |-> 0]) = Len(j.msgs)
      BY <3>1, <3>2
    <3> QED
      BY <3>1, <3>3
  <2>4. 1 \in DOMAIN zeros
    BY <2>2, <2>3
  <2>5. PICK pc : pc = IF j.store THEN "lookup" ELSE "push"
    OBVIOUS
  <2>6. PICK w : w = Begin(batch, jobs) /\
          w = [pc |-> pc, batch |-> batch, jobs |-> jobs, at |-> 1, seqs |-> zeros, fresh |-> <<>>, last |-> 0]
    BY <1>2, <2>1, <2>3, <2>5 DEF Begin
  <2>7. /\ w.pc = pc /\ w.batch = batch /\ w.jobs = jobs /\ w.at = 1 /\ w.seqs = zeros
        /\ w.fresh = <<>> /\ w.last = 0
    BY <2>6
  <2>8. w.pc \in {"lookup", "push"} /\ (w.pc = "lookup" <=> j.store)
    BY <2>5, <2>7
  <2>9. w \in Working
    <3>1. <<>> \in Seq(Nat) /\ pc \in JobPcs
      BY <2>5 DEF JobPcs
    <3> QED
      BY <2>6, <3>1 DEF Working
  <2>10. JobOK(w)
    BY <1>2, <2>1, <2>2, <2>3, <2>4, <2>7, <2>8 DEF JobOK, Accounted
  <2> QED
    BY <1>2, <2>3, <2>6, <2>7, <2>8, <2>9, <2>10 DEF WorkOK, Works, JobPcs
<1> QED
  BY <1>1, <1>2

LEMMA GoFacts ==
  ASSUME work \in [Process -> [Key -> Works]], NEW p \in Process, NEW k \in Key,
         NEW v \in Works, Go(p, k, v)
  PROVE  /\ work' \in [Process -> [Key -> Works]]
         /\ W(p, k)' = v
         /\ \A q \in Process, l \in Key : q # p \/ l # k => W(q, l)' = W(q, l)
BY DEF Go, W

\* Entries of the queue are known to be delivered for good.
LEMMA WorkOKKept ==
  ASSUME NEW w, NEW read \in Nat, NEW more \in Nat, read <= more, WorkOK(w, read)
  PROVE  WorkOK(w, more)
<1>1. \A e : e \in 1..read => e \in 1..more
  OBVIOUS
<1> QED
  BY <1>1 DEF WorkOK

LEMMA MovedOK ==
  ASSUME ProcessesOK, NEW p \in Process, NEW k \in Key, toRedis'.read = toRedis.read,
         NEW v \in Works, Go(p, k, v), WorkOK(v, toRedis.read)
  PROVE  /\ work' \in [Process -> [Key -> Works]]
         /\ \A q \in Process, l \in Key : WorkOK(work'[q][l], toRedis'.read)
<1>1. work \in [Process -> [Key -> Works]] /\ \A q \in Process, l \in Key : WorkOK(work[q][l], toRedis.read)
  BY DEF ProcessesOK
<1>2. /\ work' \in [Process -> [Key -> Works]]
      /\ W(p, k)' = v
      /\ \A q \in Process, l \in Key : q # p \/ l # k => W(q, l)' = W(q, l)
  BY <1>1, GoFacts
<1> QED
  BY <1>1, <1>2 DEF W
-----------------------------------------------------------------------------
(***************************************************************************)
(* What each step of a batch makes of the record of the batch.             *)
(***************************************************************************)
SameJob(v, w) == v.jobs = w.jobs /\ v.batch = w.batch
\* The record after a step, in the worker's hands.
Leaves(p, k, w, v) ==
  /\ Go(p, k, v) /\ v \in Works /\ WorkOK(v, toRedis.read)
  /\ w \in Working /\ JobOK(w) /\ WorkOK(w, toRedis.read) /\ w = W(p, k)

LEMMA JobLeft ==
  ASSUME NEW w \in Working, NEW v \in Working, SameJob(v, w), NEW read, WorkOK(w, read), JobOK(v)
  PROVE  v \in Works /\ WorkOK(v, read)
BY DEF Works, WorkOK, SameJob, Working, JobPcs

\* One GET: seen are the numbers remembered in the job's conversation.
Looked(w, v, seen) ==
  /\ w.at \in DOMAIN w.seqs /\ \A i \in DOMAIN w.seqs : i # w.at => v.seqs[i] = w.seqs[i]
  /\ v.pc = "lookup" => v.at = w.at + 1
  /\ v.pc # "lookup" => w.at = Len(w.seqs)
  /\ v.pc = "cache" => v.fresh = <<>>
  /\ Head(w.jobs).msgs[w.at] \in DOMAIN seen => v.seqs[w.at] = seen[Head(w.jobs).msgs[w.at]] /\ v.fresh = w.fresh
  /\ Head(w.jobs).msgs[w.at] \notin DOMAIN seen => v.fresh = Append(w.fresh, w.at)

LEMMA LookupEffect ==
  ASSUME ProcessesOK, StoresOK, NEW p \in Process, NEW k \in Key, LookupClient(p, k),
         NEW w, w = W(p, k), NEW j, j = Job(p, k)
  PROVE  \E v : /\ Leaves(p, k, w, v) /\ v \in Working /\ SameJob(v, w)
                /\ w.pc = "lookup" /\ v.pc \in {"lookup", "malloc", "cache"} /\ j = Head(w.jobs)
                /\ DOMAIN v.seqs = DOMAIN w.seqs /\ Looked(w, v, clientSeq[j.conv])
                /\ \A i \in DOMAIN v.seqs :
                     \/ v.seqs[i] = w.seqs[i] \/ v.seqs[i] = 0
                     \/ j.msgs[i] \in DOMAIN clientSeq[j.conv] /\ v.seqs[i] = clientSeq[j.conv][j.msgs[i]]
<1>1. w.pc = "lookup" /\ w \in Working /\ WorkOK(w, toRedis.read) /\ JobOK(w)
  BY WorkFacts DEF LookupClient, At, JobPcs, WorkOK
<1>2. j = Head(w.jobs)
  BY DEF Job
<1>3. /\ j \in JobSet /\ j.conv \in Conv /\ j.msgs \in Seq(Msg)
      /\ DOMAIN w.seqs = 1..Len(w.seqs) /\ DOMAIN j.msgs = DOMAIN w.seqs
      /\ Len(w.seqs) \in Nat /\ 1 \in DOMAIN w.seqs
      /\ DOMAIN w.fresh = 1..Len(w.fresh) /\ Len(w.fresh) \in Nat
      /\ Len(j.msgs) = Len(w.seqs)
  BY <1>1, <1>2, JobFacts DEF JobOK
<1>4. w.at \in DOMAIN w.seqs /\ Accounted(w, w.at) /\ j.store
  BY <1>1, <1>2 DEF JobOK
<1>5. w.seqs \in Seq(Nat) /\ w.fresh \in Seq(Nat) /\ w.at \in Nat
  BY <1>1 DEF Working
<1>6. PICK known : known = (j.msgs[w.at] \in DOMAIN clientSeq[j.conv])
  OBVIOUS
<1>7. PICK n \in Nat : n = IF known THEN clientSeq[j.conv][j.msgs[w.at]] ELSE 0
  BY <1>3, <1>6 DEF StoresOK
<1>8. known => n > 0
  <2> SUFFICES ASSUME known PROVE n > 0
    OBVIOUS
  <2>1. j.msgs[w.at] \in DOMAIN clientSeq[j.conv] /\ n = clientSeq[j.conv][j.msgs[w.at]]
    BY <1>6, <1>7
  <2>2. n \in Nat \ {0}
    BY <2>1, <1>3 DEF StoresOK
  <2> QED
    BY <2>2
<1>9. PICK fresh : fresh = IF known THEN w.fresh ELSE Append(w.fresh, w.at)
  OBVIOUS
<1>10. /\ fresh \in Seq(Nat)
       /\ \A f \in DOMAIN w.fresh : f \in DOMAIN fresh /\ fresh[f] = w.fresh[f]
       /\ \A f \in DOMAIN fresh : (f \in DOMAIN w.fresh /\ fresh[f] = w.fresh[f]) \/ fresh[f] = w.at
       /\ ~ known => \E f \in DOMAIN fresh : fresh[f] = w.at
  <2>1. CASE known
    BY <2>1, <1>5, <1>9
  <2>2. CASE ~ known
    <3>1. fresh = Append(w.fresh, w.at)
      BY <2>2, <1>9
    <3>2. fresh \in Seq(Nat) /\ DOMAIN fresh = 1..Len(w.fresh) + 1
      BY <3>1, <1>5
    <3>3. \A f \in 1..Len(w.fresh) : fresh[f] = w.fresh[f]
      BY <3>1, <1>5
    <3>4. fresh[Len(w.fresh) + 1] = w.at /\ Len(w.fresh) + 1 \in DOMAIN fresh
      BY <3>1, <3>2, <1>3, <1>5
    <3> QED
      BY <3>2, <3>3, <3>4, <1>3
  <2> QED
    BY <2>1, <2>2
<1>11. PICK last : last = (w.at = Len(j.msgs))
  OBVIOUS
<1>12. PICK pc : pc = IF ~last THEN "lookup" ELSE IF fresh = <<>> THEN "cache" ELSE "malloc"
  OBVIOUS
<1>13. PICK at : at = IF last THEN 1 ELSE w.at + 1
  OBVIOUS
<1>14. PICK v : v = [w EXCEPT !.seqs[w.at] = n, !.fresh = fresh, !.at = at, !.pc = pc]
  OBVIOUS
<1>15. Go(p, k, v)
  BY <1>2, <1>6, <1>7, <1>9, <1>11, <1>12, <1>13, <1>14 DEF LookupClient, Job
<1>16. /\ v.pc = pc /\ v.at = at /\ v.fresh = fresh /\ v.jobs = w.jobs /\ v.batch = w.batch
       /\ v.seqs = [w.seqs EXCEPT ![w.at] = n] /\ v.last = w.last
  BY <1>1, <1>14 DEF Working
<1>17. /\ v.seqs \in Seq(Nat) /\ Len(v.seqs) = Len(w.seqs) /\ DOMAIN v.seqs = DOMAIN w.seqs
       /\ v.seqs[w.at] = n
       /\ \A i \in DOMAIN w.seqs : i # w.at => v.seqs[i] = w.seqs[i]
  BY <1>4, <1>5, <1>7, <1>16
<1>18. at \in Nat /\ pc \in {"lookup", "malloc", "cache"}
  BY <1>5, <1>12, <1>13
<1>19. v \in Working
  <2>1. v = [pc |-> pc, batch |-> w.batch, jobs |-> w.jobs, at |-> at, seqs |-> v.seqs, fresh |-> fresh, last |-> w.last]
    BY <1>1, <1>14, <1>16 DEF Working
  <2> QED
    BY <2>1, <1>1, <1>10, <1>17, <1>18 DEF Working, JobPcs
<1>20. Accounted(v, w.at + 1)
  <2> SUFFICES ASSUME NEW i \in DOMAIN v.seqs, i < w.at + 1, v.seqs[i] = 0
               PROVE  \E f \in DOMAIN v.fresh : v.fresh[f] = i
    BY DEF Accounted
  <2>1. CASE i = w.at
    BY <2>1, <1>8, <1>10, <1>16, <1>17
  <2>2. CASE i # w.at
    <3>1. i \in DOMAIN w.seqs /\ v.seqs[i] = w.seqs[i]
      BY <2>2, <1>17
    <3>2. i \in Nat /\ i < w.at
      BY <2>2, <3>1, <1>3, <1>5
    <3> QED
      BY <3>1, <3>2, <1>4, <1>10, <1>16 DEF Accounted
  <2> QED
    BY <2>1, <2>2
<1>21. \A f \in DOMAIN v.fresh : v.fresh[f] \in DOMAIN v.seqs
  BY <1>1, <1>4, <1>10, <1>16, <1>17 DEF JobOK
<1>22. Looked(w, v, clientSeq[j.conv])
  <2>1. v.pc = "lookup" => v.at = w.at + 1
    BY <1>12, <1>13, <1>16
  <2>2. v.pc # "lookup" => w.at = Len(w.seqs)
    BY <1>3, <1>11, <1>12, <1>16
  <2>3. v.pc = "cache" => v.fresh = <<>>
    BY <1>12, <1>16
  <2>4. j.msgs[w.at] \in DOMAIN clientSeq[j.conv] => v.seqs[w.at] = clientSeq[j.conv][j.msgs[w.at]] /\ v.fresh = w.fresh
    BY <1>6, <1>7, <1>9, <1>16, <1>17
  <2>5. j.msgs[w.at] \notin DOMAIN clientSeq[j.conv] => v.fresh = Append(w.fresh, w.at)
    BY <1>6, <1>9, <1>16
  <2> QED
    BY <1>2, <1>4, <1>17, <2>1, <2>2, <2>3, <2>4, <2>5 DEF Looked
<1>23. ASSUME ~ last PROVE JobOK(v)
  <2>1. v.pc = "lookup" /\ v.at = w.at + 1 /\ v.at \in DOMAIN v.seqs
    <3>1. v.pc = "lookup" /\ v.at = w.at + 1
      BY <1>23, <1>12, <1>13, <1>16
    <3>2. w.at # Len(w.seqs)
      BY <1>23, <1>3, <1>11
    <3>3. w.at + 1 \in 1..Len(w.seqs)
      BY <3>2, <1>3, <1>4
    <3> QED
      BY <3>1, <3>3, <1>3, <1>17
  <2> QED
    BY <2>1, <1>1, <1>2, <1>3, <1>4, <1>16, <1>17, <1>20, <1>21 DEF JobOK
<1>24. ASSUME last PROVE JobOK(v)
  <2>1. v.pc = (IF fresh = <<>> THEN "cache" ELSE "malloc") /\ v.at = 1 /\ w.at = Len(v.seqs)
    BY <1>24, <1>3, <1>11, <1>12, <1>13, <1>16, <1>17
  <2>2. Accounted(v, Len(v.seqs) + 1)
    BY <2>1, <1>20
  <2>3. ASSUME fresh = <<>> PROVE Numbered(v)
    <3> SUFFICES ASSUME NEW i \in DOMAIN v.seqs, ~ (v.seqs[i] > 0) PROVE FALSE
      BY DEF Numbered
    <3>1. v.seqs[i] = 0 /\ i < Len(v.seqs) + 1
      BY <1>3, <1>17
    <3>2. \E f \in DOMAIN v.fresh : v.fresh[f] = i
      BY <2>2, <3>1 DEF Accounted
    <3> QED
      BY <2>3, <3>2, <1>16
  <2> QED
    BY <2>1, <2>2, <2>3, <1>1, <1>2, <1>3, <1>4, <1>16, <1>17, <1>21 DEF JobOK
<1>25. SameJob(v, w) /\ JobOK(v)
  BY <1>16, <1>23, <1>24 DEF SameJob
<1>26. Leaves(p, k, w, v)
  BY <1>1, <1>15, <1>19, <1>25, JobLeft DEF Leaves
<1>27. ASSUME NEW i \in DOMAIN v.seqs
       PROVE  \/ v.seqs[i] = w.seqs[i] \/ v.seqs[i] = 0
              \/ j.msgs[i] \in DOMAIN clientSeq[j.conv] /\ v.seqs[i] = clientSeq[j.conv][j.msgs[i]]
  BY <1>6, <1>7, <1>17
<1>28. v.pc \in {"lookup", "malloc", "cache"}
  BY <1>16, <1>18
<1> QED
  BY <1>1, <1>2, <1>17, <1>19, <1>22, <1>25, <1>26, <1>27, <1>28

(***************************************************************************)
(* Greatest numbers: the sets they are taken of are finite.                *)
(***************************************************************************)
LEMMA SeqRange ==
  ASSUME NEW S, NEW s \in Seq(S)
  PROVE  IsFiniteSet(ToSet(s)) /\ ToSet(s) \in SUBSET S
<1>1. s \in [1..Len(s) -> S] /\ Len(s) \in Nat /\ DOMAIN s = 1..Len(s)
  OBVIOUS
<1>2. ToSet(s) \in SUBSET S
  BY <1>1 DEF ToSet
<1>3. IsFiniteSet(1..Len(s))
  BY <1>1, FS_Interval
<1>4. s \in Surjection(1..Len(s), ToSet(s))
  BY <1>1 DEF Surjection, ToSet
<1> QED
  BY <1>2, <1>3, <1>4, FS_Surjection

\* Of a sequence.
LEMMA SeqMax ==
  ASSUME NEW s \in Seq(Nat)
  PROVE  /\ MaxOf(ToSet(s)) \in Nat
         /\ \A i \in DOMAIN s : s[i] <= MaxOf(ToSet(s))
         /\ MaxOf(ToSet(s)) = 0 \/ \E i \in DOMAIN s : s[i] = MaxOf(ToSet(s))
<1>1. IsFiniteSet(ToSet(s)) /\ ToSet(s) \in SUBSET Nat
  BY SeqRange
<1>2. /\ MaxOf(ToSet(s)) \in Nat /\ \A n \in ToSet(s) : n <= MaxOf(ToSet(s))
      /\ MaxOf(ToSet(s)) # 0 => MaxOf(ToSet(s)) \in ToSet(s)
  BY <1>1, MaxFacts
<1> QED
  BY <1>2 DEF ToSet

\* Of what a finite set of sequences holds.
UnionOf(T, f) == UNION {ToSet(f[x]) : x \in T}
LEMMA UnionMax ==
  ASSUME NEW T, IsFiniteSet(T), NEW f \in [T -> Seq(Nat)]
  PROVE  /\ MaxOf(UnionOf(T, f)) \in Nat
         /\ MaxOf(UnionOf(T, f)) = 0 \/ \E x \in T : \E i \in DOMAIN f[x] : f[x][i] = MaxOf(UnionOf(T, f))
<1> DEFINE greatest == [x \in T |-> MaxOf(ToSet(f[x]))]
           maxima == {greatest[x] : x \in T}
           all == UnionOf(T, f)
<1>1. \A x \in T : greatest[x] \in Nat /\ \A i \in DOMAIN f[x] : f[x][i] <= greatest[x]
  BY SeqMax
<1>2. IsFiniteSet(maxima) /\ maxima \in SUBSET Nat
  <2>1. greatest \in Surjection(T, maxima)
    BY DEF Surjection
  <2>2. maxima \in SUBSET Nat
    BY <1>1
  <2> HIDE DEF greatest, maxima
  <2> QED
    BY <2>1, <2>2, FS_Surjection
<1>3. PICK top \in Nat : \A n \in maxima : n <= top
  <2> HIDE DEF maxima
  <2> QED
    BY <1>2, MaxFacts
<1>4. ASSUME NEW n \in all PROVE n \in Nat /\ n <= top /\ \E x \in T : \E i \in DOMAIN f[x] : f[x][i] = n
  <2>1. PICK x \in T : n \in ToSet(f[x])
    BY DEF UnionOf
  <2>2. PICK i \in DOMAIN f[x] : f[x][i] = n
    BY <2>1 DEF ToSet
  <2>3. PICK s \in Seq(Nat) : s = f[x]
    OBVIOUS
  <2>4. n \in Nat
    BY <2>2, <2>3
  <2>5. n <= greatest[x] /\ greatest[x] <= top /\ greatest[x] \in Nat
    BY <1>1, <1>3, <2>2
  <2>6. n <= top
    <3> HIDE DEF greatest
    <3> QED
      BY <2>4, <2>5
  <2> QED
    BY <2>2, <2>4, <2>6
<1>5. all \in SUBSET Nat /\ IsFiniteSet(all)
  <2> HIDE DEF all
  <2> QED
    BY <1>4, FS_BoundedSetOfNaturals
<1>6. MaxOf(all) \in Nat /\ (MaxOf(all) # 0 => MaxOf(all) \in all)
  <2> HIDE DEF all
  <2> QED
    BY <1>5, MaxFacts
<1> QED
  BY <1>4, <1>6

LEMMA RaiseFacts ==
  ASSUME NEW cursor \in [Users -> Nat], NEW to \in [Users -> Nat]
  PROVE  /\ Raise(cursor, to) \in [Users -> Nat]
         /\ \A u \in Users : Raise(cursor, to)[u] \in {cursor[u], to[u]}
BY DEF Raise

\* What the senders of a batch have read: no more than its greatest number.
LEMMA SenderSeqFacts ==
  ASSUME NEW p, NEW k, W(p, k) \in Working
  PROVE  /\ SenderSeq(p, k) \in [Users -> Nat]
         /\ \A u \in Users : SenderSeq(p, k)[u] = 0 \/ \E i \in DOMAIN W(p, k).seqs : SenderSeq(p, k)[u] = W(p, k).seqs[i]
<1>1. PICK s \in Seq(Nat) : s = W(p, k).seqs
  BY DEF Working
<1>2. ToSet(s) \in SUBSET Nat /\ IsFiniteSet(ToSet(s))
  BY SeqRange
<1> DEFINE of(u) == {s[i] : i \in {j \in DOMAIN s : Shape[Job(p, k).msgs[j]].sender = u}}
<1>3. SenderSeq(p, k) = [u \in Users |-> MaxOf(of(u))]
  BY <1>1 DEF SenderSeq
<1>4. ASSUME NEW u PROVE MaxOf(of(u)) \in Nat /\ (MaxOf(of(u)) = 0 \/ \E i \in DOMAIN s : MaxOf(of(u)) = s[i])
  <2>1. of(u) \in SUBSET ToSet(s) /\ \A n \in of(u) : \E i \in DOMAIN s : n = s[i]
    BY DEF ToSet
  <2>2. of(u) \in SUBSET Nat /\ IsFiniteSet(of(u))
    <3> HIDE DEF of
    <3> QED
      BY <1>2, <2>1, FS_Subset
  <2>3. MaxOf(of(u)) \in Nat /\ (MaxOf(of(u)) # 0 => MaxOf(of(u)) \in of(u))
    <3> HIDE DEF of
    <3> QED
      BY <2>2, MaxFacts
  <2> HIDE DEF of
  <2> QED
    BY <2>1, <2>3
<1> HIDE DEF of
<1> QED
  BY <1>1, <1>3, <1>4

-----------------------------------------------------------------------------
(***************************************************************************)
(* The other steps of a job.                                               *)
(***************************************************************************)
After(pc) ==
  CASE pc = "cache" -> "save" [] pc = "save" -> "ensure" [] pc = "ensure" -> "mysql" [] pc = "mysql" -> "push"

LEMMA CallEffect ==
  ASSUME ProcessesOK, NEW p \in Process, NEW k \in Key, NEW w, w = W(p, k),
         w.pc \in {"cache", "save", "ensure", "mysql"}, NEW pc, pc = After(w.pc), Go(p, k, [w EXCEPT !.pc = pc])
  PROVE  \E v : /\ Leaves(p, k, w, v) /\ v \in Working /\ SameJob(v, w)
                /\ v.pc = pc /\ v.at = w.at /\ v.seqs = w.seqs /\ v.fresh = w.fresh
                /\ Numbered(w) /\ Head(w.jobs).store
<1>1. w \in Working /\ WorkOK(w, toRedis.read) /\ JobOK(w)
  BY WorkFacts DEF At, JobPcs, WorkOK
<1>2. PICK v : v = [w EXCEPT !.pc = pc]
  OBVIOUS
<1>3. /\ v.pc = pc /\ v.at = w.at /\ v.fresh = w.fresh /\ v.jobs = w.jobs /\ v.batch = w.batch
      /\ v.seqs = w.seqs /\ v.last = w.last
  BY <1>1, <1>2 DEF Working
<1>4. pc \in {"save", "ensure", "mysql", "push"} /\ (pc = "push" <=> w.pc = "mysql")
  BY DEF After
<1>5. v \in Working
  <2>1. v = [pc |-> pc, batch |-> w.batch, jobs |-> w.jobs, at |-> w.at, seqs |-> w.seqs, fresh |-> w.fresh, last |-> w.last]
    BY <1>1, <1>2 DEF Working
  <2> QED
    BY <2>1, <1>1, <1>4 DEF Working, JobPcs
<1>6. w.at = 1 /\ Numbered(w) /\ Head(w.jobs).store /\ 1 \in DOMAIN w.seqs
  BY <1>1, JobFacts DEF JobOK
<1>7. JobOK(v)
  BY <1>1, <1>3, <1>4, <1>6 DEF JobOK, Numbered
<1> QED
  BY <1>1, <1>2, <1>3, <1>5, <1>6, <1>7, JobLeft DEF Leaves, SameJob

Place(f, i) == CHOOSE x \in DOMAIN f : f[x] = i
Places(w, v, n) == \A i \in DOMAIN v.seqs : i \in ToSet(w.fresh) => v.seqs[i] = n + Place(w.fresh, i)

\* The numbers reserved go to the messages without one, each to one of them.
LEMMA ReserveEffect ==
  ASSUME ProcessesOK, StoresOK, NEW p \in Process, NEW k \in Key, Reserve(p, k),
         NEW w, w = W(p, k), NEW c, c = Job(p, k).conv
  PROVE  \E v : /\ Leaves(p, k, w, v) /\ v \in Working /\ SameJob(v, w) /\ w.pc = "malloc" /\ v.pc = "remember"
                /\ v.fresh = w.fresh /\ DOMAIN v.seqs = DOMAIN w.seqs /\ v.at = w.at
                /\ c = Head(w.jobs).conv /\ c \in Conv
                /\ counter' \in [Conv -> Nat] /\ counter[c] <= counter'[c]
                /\ \A d \in Conv : d # c => counter'[d] = counter[d]
                /\ \A i \in DOMAIN v.seqs :
                     IF i \in ToSet(w.fresh) THEN v.seqs[i] > counter[c] /\ v.seqs[i] <= counter'[c]
                     ELSE v.seqs[i] = w.seqs[i]
                /\ \A i, l \in DOMAIN v.seqs :
                     i \in ToSet(w.fresh) /\ l \in ToSet(w.fresh) /\ v.seqs[i] = v.seqs[l] => i = l
                /\ Places(w, v, counter[c])
<1>1. w.pc = "malloc" /\ w \in Working /\ WorkOK(w, toRedis.read) /\ JobOK(w)
  BY WorkFacts DEF Reserve, At, JobPcs, WorkOK
<1>2. c = Head(w.jobs).conv /\ c \in Conv
  BY <1>1, JobFacts DEF Job
<1>3. PICK s \in Seq(Nat), f \in Seq(Nat) : s = w.seqs /\ f = w.fresh
  BY <1>1 DEF Working
<1>4. PICK before \in Nat : before = counter[c]
  BY <1>2 DEF StoresOK
<1>5. DOMAIN f = 1..Len(f) /\ Len(f) \in Nat /\ f # <<>> /\ 1 \in DOMAIN f /\ Head(w.jobs).store
  BY <1>1, <1>3 DEF JobOK
<1>6. \A i \in ToSet(f) : Place(f, i) \in DOMAIN f /\ f[Place(f, i)] = i
  BY DEF ToSet, Place
<1>7. PICK t : t = [i \in DOMAIN s |-> IF i \in ToSet(f) THEN before + Place(f, i) ELSE s[i]]
  OBVIOUS
<1>8. /\ DOMAIN t = DOMAIN s /\ DOMAIN s = 1..Len(s) /\ Len(s) \in Nat
      /\ \A i \in DOMAIN s : IF i \in ToSet(f) THEN t[i] = before + Place(f, i) ELSE t[i] = s[i]
  BY <1>7
<1>9. ASSUME NEW i \in DOMAIN s
      PROVE  /\ t[i] \in Nat
             /\ i \in ToSet(f) => Place(f, i) \in 1..Len(f) /\ t[i] = before + Place(f, i) /\ t[i] > before /\ t[i] <= before + Len(f)
             /\ i \notin ToSet(f) => t[i] = s[i]
  BY <1>5, <1>6, <1>8
<1>10. t \in Seq(Nat) /\ Len(t) = Len(s)
  <2>1. t \in [1..Len(s) -> Nat]
    BY <1>7, <1>8, <1>9
  <2>2. PICK n \in Nat : n = Len(s)
    BY <1>8
  <2>3. t \in [1..n -> Nat]
    BY <2>1, <2>2
  <2>4. t \in Seq(Nat) /\ Len(t) = n
    BY <2>3
  <2> QED
    BY <2>2, <2>4
<1>11. PICK v : v = [w EXCEPT !.pc = "remember", !.last = before, !.seqs = t]
  OBVIOUS
<1>12. Go(p, k, v)
  BY <1>3, <1>4, <1>7, <1>11 DEF Reserve, Place
<1>13. counter' = [counter EXCEPT ![c] = before + Len(f)]
  BY <1>3, <1>4 DEF Reserve
<1>14. /\ v.pc = "remember" /\ v.at = w.at /\ v.fresh = f /\ v.jobs = w.jobs /\ v.batch = w.batch
       /\ v.seqs = t /\ v.last = before
  BY <1>1, <1>3, <1>11 DEF Working
<1>15. v \in Working
  <2>1. v = [pc |-> "remember", batch |-> w.batch, jobs |-> w.jobs, at |-> w.at, seqs |-> t, fresh |-> f, last |-> before]
    BY <1>1, <1>3, <1>11 DEF Working
  <2> QED
    BY <2>1, <1>1, <1>10 DEF Working, JobPcs
<1>16. Numbered(v)
  <2> SUFFICES ASSUME NEW i \in DOMAIN s, ~ (t[i] > 0) PROVE FALSE
    BY <1>8, <1>14 DEF Numbered
  <2>1. i \notin ToSet(f) /\ s[i] = 0
    BY <1>9
  <2>2. i < Len(s) + 1
    BY <1>8
  <2> QED
    BY <2>1, <2>2, <1>1, <1>3 DEF JobOK, Accounted, ToSet
<1>17. JobOK(v)
  <2>1. w.jobs # <<>> /\ Len(s) = Len(Head(w.jobs).msgs) /\ Head(w.jobs).store /\ w.at = 1
    BY <1>1, <1>3 DEF JobOK
  <2>2. \A x \in DOMAIN f : f[x] \in DOMAIN s
    BY <1>1, <1>3 DEF JobOK
  <2>3. Len(t) = Len(s) /\ DOMAIN t = DOMAIN s /\ w.at \in DOMAIN f
    BY <2>1, <1>5, <1>8, <1>10
  <2> QED
    BY <2>1, <2>2, <2>3, <1>14, <1>16 DEF JobOK
<1>18. counter' \in [Conv -> Nat] /\ counter'[c] = before + Len(f) /\ \A d \in Conv : d # c => counter'[d] = counter[d]
  BY <1>2, <1>4, <1>5, <1>13 DEF StoresOK
<1>19. counter[c] <= counter'[c]
  BY <1>4, <1>5, <1>18
<1>20. ASSUME NEW i \in DOMAIN s, NEW l \in DOMAIN s, i \in ToSet(f), l \in ToSet(f), t[i] = t[l] PROVE i = l
  <2>1. Place(f, i) = Place(f, l)
    <3>1. t[i] = before + Place(f, i) /\ t[l] = before + Place(f, l)
      BY <1>9, <1>20
    <3>2. Place(f, i) \in Nat /\ Place(f, l) \in Nat
      BY <1>5, <1>6, <1>20
    <3> QED
      BY <3>1, <3>2, <1>20
  <2> QED
    BY <2>1, <1>6, <1>20
<1>21. ASSUME NEW i \in DOMAIN v.seqs
       PROVE  IF i \in ToSet(w.fresh) THEN v.seqs[i] > counter[c] /\ v.seqs[i] <= counter'[c] ELSE v.seqs[i] = w.seqs[i]
  BY <1>3, <1>4, <1>8, <1>9, <1>14, <1>18
<1>22. ASSUME NEW i \in DOMAIN v.seqs, NEW l \in DOMAIN v.seqs,
              i \in ToSet(w.fresh), l \in ToSet(w.fresh), v.seqs[i] = v.seqs[l] PROVE i = l
  BY <1>3, <1>8, <1>14, <1>20, <1>22
<1>23. Leaves(p, k, w, v) /\ SameJob(v, w)
  BY <1>1, <1>12, <1>14, <1>15, <1>17, JobLeft DEF Leaves, SameJob
<1>24. Places(w, v, counter[c])
  BY <1>3, <1>4, <1>8, <1>9, <1>14 DEF Places
<1> QED
  <2>1. w.pc = "malloc" /\ v.pc = "remember" /\ v.fresh = w.fresh /\ DOMAIN v.seqs = DOMAIN w.seqs /\ v.at = w.at
    BY <1>1, <1>3, <1>8, <1>14
  <2> QED
    BY <2>1, <1>2, <1>15, <1>18, <1>19, <1>21, <1>22, <1>23, <1>24

Remembered(c, m, n) ==
  /\ DOMAIN clientSeq' = Conv /\ DOMAIN clientSeq'[c] = DOMAIN clientSeq[c] \cup {m}
  /\ clientSeq'[c][m] = n
  /\ \A x \in DOMAIN clientSeq[c] : x # m => clientSeq'[c][x] = clientSeq[c][x]
  /\ \A d \in Conv : d # c => clientSeq'[d] = clientSeq[d]

LEMMA RememberEffect ==
  ASSUME ProcessesOK, StoresOK, NEW p \in Process, NEW k \in Key, Remember(p, k),
         NEW w, w = W(p, k), NEW c, c = Job(p, k).conv
  PROVE  \E v : \E i \in DOMAIN w.seqs : \E m \in Msg :
                /\ Leaves(p, k, w, v) /\ v \in Working /\ SameJob(v, w) /\ w.pc = "remember" /\ v.pc \in {"remember", "cache"}
                /\ v.seqs = w.seqs /\ v.fresh = w.fresh /\ Numbered(w)
                /\ c = Head(w.jobs).conv /\ c \in Conv /\ m = Head(w.jobs).msgs[i]
                /\ w.seqs[i] \in Nat \ {0} /\ Remembered(c, m, w.seqs[i])
                /\ w.at \in DOMAIN w.fresh /\ i = w.fresh[w.at]
                /\ v.pc = "remember" => v.at = w.at + 1
                /\ v.pc = "cache" => w.at = Len(w.fresh)
<1>1. w.pc = "remember" /\ w \in Working /\ WorkOK(w, toRedis.read) /\ JobOK(w)
  BY WorkFacts DEF Remember, At, JobPcs, WorkOK
<1>2. c = Head(w.jobs).conv /\ c \in Conv /\ DOMAIN w.fresh = 1..Len(w.fresh) /\ Len(w.fresh) \in Nat
  BY <1>1, JobFacts DEF Job
<1>3. w.at \in DOMAIN w.fresh /\ Numbered(w) /\ Head(w.jobs).store
  BY <1>1 DEF JobOK
<1>4. PICK i \in DOMAIN w.seqs : i = w.fresh[w.at]
  BY <1>1, <1>3 DEF JobOK
<1>5. PICK m \in Msg : m = Head(w.jobs).msgs[i]
  BY <1>1, JobFacts
<1>6. PICK n \in Nat \ {0} : n = w.seqs[i]
  <2>1. w.seqs[i] > 0 /\ w.seqs[i] \in Nat
    BY <1>1, <1>3, JobFacts DEF Numbered
  <2> QED
    BY <2>1
<1>7. PICK pc : pc = IF w.at = Len(w.fresh) THEN "cache" ELSE "remember"
  OBVIOUS
<1>8. PICK at : at = IF w.at = Len(w.fresh) THEN 1 ELSE w.at + 1
  OBVIOUS
<1>9. PICK v : v = [w EXCEPT !.at = at, !.pc = pc]
  OBVIOUS
<1>10. Go(p, k, v)
  <2>1. Go(p, k, [w EXCEPT !.at = IF @ = Len(w.fresh) THEN 1 ELSE @ + 1,
                           !.pc = IF w.at = Len(w.fresh) THEN "cache" ELSE "remember"])
    BY DEF Remember
  <2> QED
    BY <2>1, <1>7, <1>8, <1>9
<1>11. /\ v.pc = pc /\ v.at = at /\ v.fresh = w.fresh /\ v.jobs = w.jobs /\ v.batch = w.batch
       /\ v.seqs = w.seqs /\ v.last = w.last
  BY <1>1, <1>9 DEF Working
<1>12. /\ pc \in {"remember", "cache"} /\ at \in Nat
       /\ pc = "remember" => at \in DOMAIN w.fresh
       /\ pc = "cache" => at = 1
  <2>1. CASE w.at = Len(w.fresh)
    BY <2>1, <1>7, <1>8
  <2>2. CASE w.at # Len(w.fresh)
    <3>1. pc = "remember" /\ at = w.at + 1
      BY <2>2, <1>7, <1>8
    <3>2. at \in 1..Len(w.fresh)
      BY <3>1, <1>2, <1>3, <2>2
    <3> QED
      BY <3>1, <3>2, <1>2
  <2> QED
    BY <2>1, <2>2
<1>13. v \in Working
  <2>1. v = [pc |-> pc, batch |-> w.batch, jobs |-> w.jobs, at |-> at, seqs |-> w.seqs, fresh |-> w.fresh, last |-> w.last]
    BY <1>1, <1>9 DEF Working
  <2> QED
    BY <2>1, <1>1, <1>12 DEF Working, JobPcs
<1>14. JobOK(v)
  BY <1>1, <1>3, <1>11, <1>12 DEF JobOK, Numbered
<1>15. Leaves(p, k, w, v) /\ SameJob(v, w)
  BY <1>1, <1>10, <1>11, <1>13, <1>14, JobLeft DEF Leaves, SameJob
<1>16. PICK new : new = [x \in DOMAIN clientSeq[c] \cup {m} |-> IF x = m THEN n ELSE clientSeq[c][x]]
  OBVIOUS
<1>17. clientSeq' = [clientSeq EXCEPT ![c] = new]
  <2>1. Job(p, k) = Head(w.jobs)
    BY DEF Job
  <2>2. clientSeq' = [clientSeq EXCEPT ![c] = [x \in DOMAIN @ \cup {m} |-> IF x = m THEN n ELSE @[x]]]
    BY <2>1, <1>4, <1>5, <1>6 DEF Remember
  <2> QED
    BY <2>2, <1>16
<1>18. /\ DOMAIN clientSeq' = Conv /\ clientSeq'[c] = new
       /\ \A d \in Conv : d # c => clientSeq'[d] = clientSeq[d]
  BY <1>2, <1>17 DEF StoresOK
<1>19. /\ DOMAIN new = DOMAIN clientSeq[c] \cup {m} /\ new[m] = n
       /\ \A x \in DOMAIN clientSeq[c] : x # m => new[x] = clientSeq[c][x]
  BY <1>16
<1>20. w.pc = "remember" /\ v.pc \in {"remember", "cache"} /\ v.seqs = w.seqs /\ v.fresh = w.fresh
  BY <1>1, <1>11, <1>12
<1>21. Remembered(c, m, w.seqs[i])
  BY <1>6, <1>18, <1>19 DEF Remembered
<1> QED
  <2>1. (v.pc = "remember" => v.at = w.at + 1) /\ (v.pc = "cache" => w.at = Len(w.fresh))
    BY <1>7, <1>8, <1>11
  <2> QED
    BY <1>2, <1>3, <1>4, <1>5, <1>6, <1>13, <1>15, <1>20, <1>21, <2>1

(* After the last message of a job comes the next job. *)
LEMMA PushEffect ==
  ASSUME ProcessesOK, NEW p \in Process, NEW k \in Key, PublishPush(p, k), NEW w, w = W(p, k)
  PROVE  /\ w.pc = "push" /\ w \in Working /\ WorkOK(w, toRedis.read) /\ JobOK(w)
         /\ w.at \in DOMAIN w.seqs /\ w.batch \in Seq(Nat)
         /\ \E x \in Pushes : /\ toPush' = Append(toPush, x)
                              /\ x.conv = Head(w.jobs).conv /\ x.msg = Head(w.jobs).msgs[w.at] /\ x.seq = w.seqs[w.at]
         /\ \E v : /\ Go(p, k, v) /\ v \in Works /\ WorkOK(v, toRedis.read)
                   /\ \/ /\ w.at = Len(w.seqs) /\ v = Begin(w.batch, Tail(w.jobs)) /\ Tail(w.jobs) \in Seq(JobSet)
                      \/ /\ w.at # Len(w.seqs) /\ v \in Working /\ SameJob(v, w) /\ v.pc = "push"
                         /\ v.at = w.at + 1 /\ v.seqs = w.seqs /\ v.fresh = w.fresh
<1>1. w.pc = "push" /\ w \in Working /\ WorkOK(w, toRedis.read) /\ JobOK(w)
  BY WorkFacts DEF PublishPush, At, JobPcs, WorkOK
<1>2. /\ DOMAIN w.seqs = 1..Len(w.seqs) /\ Len(w.seqs) \in Nat /\ Len(w.seqs) = Len(Head(w.jobs).msgs)
      /\ w.at \in DOMAIN w.seqs
  BY <1>1, JobFacts DEF JobOK
<1>3. /\ toPush' = Append(toPush, [conv |-> Head(w.jobs).conv, msg |-> Head(w.jobs).msgs[w.at], seq |-> w.seqs[w.at]])
      /\ Go(p, k, IF w.at = Len(w.seqs) THEN Begin(w.batch, Tail(w.jobs)) ELSE [w EXCEPT !.at = w.at + 1])
  BY <1>2 DEF PublishPush, Job
<1>4. \E x \in Pushes : /\ toPush' = Append(toPush, x)
                       /\ x.conv = Head(w.jobs).conv /\ x.msg = Head(w.jobs).msgs[w.at] /\ x.seq = w.seqs[w.at]
  <2>1. PICK x : x = [conv |-> Head(w.jobs).conv, msg |-> Head(w.jobs).msgs[w.at], seq |-> w.seqs[w.at]]
    OBVIOUS
  <2>2. x \in Pushes
    BY <1>1, <1>2, <2>1, JobFacts DEF Pushes
  <2>3. x.conv = Head(w.jobs).conv /\ x.msg = Head(w.jobs).msgs[w.at] /\ x.seq = w.seqs[w.at]
    BY <2>1
  <2> QED
    BY <1>3, <2>1, <2>2, <2>3
<1>5. CASE w.at = Len(w.seqs)
  <2>1. w.jobs \in Seq(JobSet) /\ w.jobs # <<>> /\ w.batch \in Seq(Nat)
    BY <1>1 DEF Working, JobOK
  <2>2. Tail(w.jobs) \in Seq(JobSet)
    BY <2>1
  <2>3. PICK v : v = Begin(w.batch, Tail(w.jobs))
    OBVIOUS
  <2>4. w.batch # <<>> /\ \A b \in DOMAIN w.batch : w.batch[b] \in 1..toRedis.read
    BY <1>1 DEF WorkOK
  <2>5. v \in Works /\ WorkOK(v, toRedis.read)
    BY <2>1, <2>2, <2>3, <2>4, BeginFacts
  <2> QED
    BY <1>1, <1>2, <1>3, <1>4, <1>5, <2>1, <2>2, <2>3, <2>5
<1>6. CASE w.at # Len(w.seqs)
  <2>1. PICK at \in Nat : at = w.at + 1 /\ at \in DOMAIN w.seqs
    <3>1. w.at + 1 \in 1..Len(w.seqs)
      BY <1>2, <1>6
    <3> QED
      BY <3>1, <1>2
  <2>2. PICK v : v = [w EXCEPT !.at = at]
    OBVIOUS
  <2>3. Go(p, k, v)
    BY <1>3, <1>6, <2>1, <2>2
  <2>4. /\ v.pc = "push" /\ v.at = at /\ v.fresh = w.fresh /\ v.jobs = w.jobs /\ v.batch = w.batch
        /\ v.seqs = w.seqs /\ v.last = w.last
    BY <1>1, <2>2 DEF Working
  <2>5. v \in Working
    <3>1. v = [pc |-> "push", batch |-> w.batch, jobs |-> w.jobs, at |-> at, seqs |-> w.seqs, fresh |-> w.fresh, last |-> w.last]
      BY <1>1, <2>2 DEF Working
    <3> QED
      BY <3>1, <1>1 DEF Working, JobPcs
  <2>6. JobOK(v)
    BY <1>1, <2>1, <2>4 DEF JobOK, Numbered
  <2>7. v \in Works /\ WorkOK(v, toRedis.read) /\ SameJob(v, w)
    BY <1>1, <2>4, <2>5, <2>6, JobLeft DEF SameJob
  <2>8. w.batch \in Seq(Nat)
    BY <1>1 DEF Working
  <2> QED
    BY <1>1, <1>2, <1>3, <1>4, <1>6, <2>1, <2>3, <2>4, <2>5, <2>7, <2>8
<1> QED
  BY <1>5, <1>6

LEMMA ShapeTypes ==
  ASSUME NEW m \in Msg
  PROVE  /\ Shape[m].reads \in Seq(Nat) /\ Shape[m].about \in Conv
         /\ Shape[m].key \in Key /\ Shape[m].sender \in Users
BY ShapeAssumption DEF MsgShape, Key, Users

\* The greatest number the receipts of a user carry: one of those receipts carries it.
ReceiptsOf(ms, c, u) == {x \in ToSet(ms) : Shape[x].about = c /\ Shape[x].sender = u}
Top(ms, c, u) == MaxOf(UNION {ToSet(Shape[m].reads) : m \in {x \in ToSet(ms) : Shape[x].about = c /\ Shape[x].sender = u}})
LEMMA ReadTop ==
  ASSUME NEW ms \in Seq(Msg), NEW c, NEW u
  PROVE  /\ Top(ms, c, u) \in Nat
         /\ Top(ms, c, u) = 0 \/ \E m \in ToSet(ms) : /\ Shape[m].about = c /\ Shape[m].sender = u
                                                      /\ \E i \in DOMAIN Shape[m].reads : Shape[m].reads[i] = Top(ms, c, u)
<1>1. ReceiptsOf(ms, c, u) \in SUBSET ToSet(ms)
  BY DEF ReceiptsOf
<1>2. ToSet(ms) \in SUBSET Msg /\ IsFiniteSet(ToSet(ms))
  BY SeqRange
<1>3. PICK T \in SUBSET Msg : T = ReceiptsOf(ms, c, u) /\ IsFiniteSet(T)
  BY <1>1, <1>2, FS_Subset
<1>4. PICK f \in [T -> Seq(Nat)] : \A m \in T : f[m] = Shape[m].reads
  <2>1. [m \in T |-> Shape[m].reads] \in [T -> Seq(Nat)]
    BY ShapeTypes
  <2> QED
    BY <2>1
<1>5. PICK all : all = UnionOf(T, f)
  OBVIOUS
<1>6. MaxOf(all) \in Nat /\ (MaxOf(all) = 0 \/ \E x \in T : \E i \in DOMAIN f[x] : f[x][i] = MaxOf(all))
  BY <1>3, <1>5, UnionMax
<1>7. all = UNION {ToSet(Shape[m].reads) : m \in T}
  BY <1>4, <1>5 DEF UnionOf
<1>8. Top(ms, c, u) = MaxOf(all)
  BY <1>3, <1>7 DEF Top, ReceiptsOf
<1> QED
  BY <1>3, <1>4, <1>6, <1>8 DEF ReceiptsOf

LEMMA ReceiptsEffect ==
  ASSUME ProcessesOK, TopicsOK, NEW p \in Process, NEW k \in Key, ApplyReadReceipts(p, k), NEW w, w = W(p, k)
  PROVE  /\ w \in Collected /\ WorkOK(w, toRedis.read) /\ w.pc = "receipts"
         /\ \E ms \in Seq(Msg) : \E v :
              /\ ms = [i \in DOMAIN w.batch |-> MsgAt(w.batch[i])]
              /\ v = Begin(w.batch, Jobs(ms)) /\ Go(p, k, v) /\ v \in Works /\ WorkOK(v, toRedis.read)
              /\ readDB' = [c \in Conv |-> Raise(readDB[c], [u \in Users |-> Top(ms, c, u)])]
<1>1. w \in Collected /\ WorkOK(w, toRedis.read) /\ w.pc = "receipts"
  BY WorkFacts DEF ApplyReadReceipts, At
<1>2. w.batch \in Seq(Nat) /\ w.batch # <<>> /\ \A b \in DOMAIN w.batch : w.batch[b] \in 1..toRedis.read
  BY <1>1 DEF Collected, WorkOK
<1>3. PICK log \in Seq(Msg) : log = toRedis.log /\ toRedis.read \in Nat /\ toRedis.read <= Len(log)
  BY DEF TopicsOK, QueueOK
<1>4. PICK ms : ms = [i \in DOMAIN w.batch |-> MsgAt(w.batch[i])]
  OBVIOUS
<1>5. ms \in Seq(Msg)
  <2>1. PICK n \in Nat : n = Len(w.batch) /\ DOMAIN w.batch = 1..n
    BY <1>2
  <2>2. ASSUME NEW i \in 1..n PROVE MsgAt(w.batch[i]) \in Msg
    <3>1. w.batch[i] \in 1..toRedis.read
      BY <1>2, <2>1
    <3>2. w.batch[i] \in 1..Len(log)
      BY <1>3, <3>1
    <3> QED
      BY <3>2, <1>3 DEF MsgAt
  <2>3. ms \in [1..n -> Msg]
    BY <1>4, <2>1, <2>2
  <2> QED
    BY <2>1, <2>3
<1>6. PICK v : v = Begin(w.batch, Jobs(ms))
  OBVIOUS
<1>7. Go(p, k, v)
  BY <1>4, <1>6 DEF ApplyReadReceipts
<1>8. v \in Works /\ WorkOK(v, toRedis.read)
  <2>1. Jobs(ms) \in Seq(JobSet)
    BY <1>5, JobsFacts
  <2> QED
    BY <2>1, <1>2, <1>6, BeginFacts
<1>9. readDB' = [c \in Conv |-> Raise(readDB[c], [u \in Users |-> Top(ms, c, u)])]
  BY <1>4 DEF ApplyReadReceipts, Top
<1> QED
  BY <1>1, <1>4, <1>5, <1>6, <1>7, <1>8, <1>9

LEMMA AckEffect ==
  ASSUME ProcessesOK, NEW p \in Process, NEW k \in Key, AckEntry(p, k), NEW w, w = W(p, k)
  PROVE  /\ w \in Acking /\ WorkOK(w, toRedis.read) /\ w.pc = "ack"
         /\ toRedis' = Ack(toRedis, w.batch[w.at])
         /\ \E v : /\ Go(p, k, v) /\ v \in Works /\ WorkOK(v, toRedis.read)
                   /\ \/ v = Idle /\ w.at = Len(w.batch)
                      \/ v \in Acking /\ v.batch = w.batch /\ v.at = w.at + 1
<1>1. w \in Acking /\ WorkOK(w, toRedis.read) /\ w.pc = "ack"
  BY WorkFacts DEF AckEntry, At
<1>2. w.batch \in Seq(Nat) /\ w.at \in DOMAIN w.batch /\ DOMAIN w.batch = 1..Len(w.batch) /\ Len(w.batch) \in Nat
  BY <1>1 DEF Acking, WorkOK
<1>3. Go(p, k, IF w.at = Len(w.batch) THEN Idle ELSE [w EXCEPT !.at = w.at + 1]) /\ toRedis' = Ack(toRedis, w.batch[w.at])
  BY DEF AckEntry
<1>4. CASE w.at = Len(w.batch)
  BY <1>1, <1>3, <1>4 DEF Idle, Works, WorkOK, JobPcs
<1>5. CASE w.at # Len(w.batch)
  <2>1. PICK at \in Nat : at = w.at + 1 /\ at \in DOMAIN w.batch
    <3>1. w.at + 1 \in 1..Len(w.batch)
      BY <1>2, <1>5
    <3> QED
      BY <3>1, <1>2
  <2>2. PICK v : v = [w EXCEPT !.at = at]
    OBVIOUS
  <2>3. v = [pc |-> "ack", batch |-> w.batch, at |-> at]
    BY <1>1, <2>2 DEF Acking
  <2>4. v.pc = "ack" /\ v.batch = w.batch /\ v.at = at
    BY <2>3
  <2>5. v \in Acking
    BY <2>3, <1>2 DEF Acking
  <2>6. WorkOK(v, toRedis.read)
    BY <1>1, <2>1, <2>4 DEF WorkOK, JobPcs
  <2> QED
    BY <1>1, <1>3, <1>5, <2>1, <2>2, <2>4, <2>5, <2>6 DEF Works
<1> QED
  BY <1>4, <1>5

-----------------------------------------------------------------------------
(***************************************************************************)
(* Queues.                                                                 *)
(***************************************************************************)
Grown(q, r) ==
  /\ \A e \in DOMAIN q.log : e \in DOMAIN r.log /\ r.log[e] = q.log[e]
  /\ q.read <= r.read

LEMMA QueueFacts ==
  ASSUME NEW S, NEW q, QueueOK(q, S)
  PROVE  /\ q.log \in Seq(S) /\ q.read \in Nat /\ DOMAIN q.log = 1..Len(q.log) /\ Len(q.log) \in Nat
         /\ \A e \in DOMAIN q.log : q.log[e] \in S
         /\ q.pending \in SUBSET Nat
         /\ \A e \in Acked(q) : e \in DOMAIN q.log
         /\ \A e \in q.pending : e \in DOMAIN q.log
<1>1. q.log \in Seq(S) /\ q.read \in Nat /\ q.pending \in SUBSET Nat
  BY DEF QueueOK
<1>2. DOMAIN q.log = 1..Len(q.log) /\ Len(q.log) \in Nat /\ \A e \in DOMAIN q.log : q.log[e] \in S
  BY <1>1
<1>3. ASSUME NEW e \in 1..q.read PROVE e \in DOMAIN q.log
  BY <1>1, <1>2 DEF QueueOK
<1> QED
  BY <1>1, <1>2, <1>3 DEF Acked, QueueOK

LEMMA SendFacts ==
  ASSUME NEW S, NEW q, QueueOK(q, S), NEW x \in S
  PROVE  /\ QueueOK(Send(q, x), S) /\ Grown(q, Send(q, x))
         /\ Send(q, x).read = q.read /\ Send(q, x).pending = q.pending /\ Acked(Send(q, x)) = Acked(q)
         /\ DOMAIN Send(q, x).log = DOMAIN q.log \cup {Len(q.log) + 1}
         /\ Send(q, x).log[Len(q.log) + 1] = x
         /\ Len(q.log) + 1 \notin DOMAIN q.log /\ Len(q.log) + 1 > q.read
<1>1. PICK log \in Seq(S) : log = q.log /\ q.read \in Nat /\ q.read <= Len(log)
  BY DEF QueueOK
<1>2. PICK more \in Seq(S) : more = Append(log, x) /\ Len(more) = Len(log) + 1 /\ more[Len(log) + 1] = x
                             /\ \A e \in DOMAIN log : more[e] = log[e]
  <2>1. \A e \in 1..Len(log) : Append(log, x)[e] = log[e]
    BY AppendProperties
  <2>2. Append(log, x) \in Seq(S) /\ Len(Append(log, x)) = Len(log) + 1 /\ Append(log, x)[Len(log) + 1] = x
    BY AppendProperties
  <2>3. DOMAIN log = 1..Len(log)
    OBVIOUS
  <2> QED
    BY <2>1, <2>2, <2>3
<1>3. DOMAIN log = 1..Len(log) /\ DOMAIN more = 1..Len(log) + 1 /\ Len(log) \in Nat
  BY <1>2
<1>4. Send(q, x) = [q EXCEPT !.log = more]
  BY <1>1, <1>2 DEF Send
<1>5. Send(q, x).log = more /\ Send(q, x).read = q.read /\ Send(q, x).pending = q.pending
  BY <1>4 DEF QueueOK
<1>6. QueueOK(Send(q, x), S)
  <2>1. Send(q, x) \in [log : Seq(S), read : Nat, pending : SUBSET Nat]
    BY <1>4 DEF QueueOK
  <2>2. q.read <= Len(more)
    BY <1>1, <1>2, <1>3
  <2> QED
    BY <2>1, <2>2, <1>5 DEF QueueOK
<1>7. q.read <= q.read /\ Len(log) + 1 > q.read
  BY <1>1, <1>3
<1> QED
  BY <1>1, <1>2, <1>3, <1>5, <1>6, <1>7 DEF Grown, Acked

LEMMA ReadFacts ==
  ASSUME NEW S, NEW q, QueueOK(q, S), CanRead(q)
  PROVE  /\ QueueOK(Read(q), S) /\ Grown(q, Read(q)) /\ Read(q).log = q.log
         /\ Read(q).read = NextEntry(q) /\ NextEntry(q) \in DOMAIN q.log /\ NextEntry(q) \in 1..Read(q).read
         /\ Acked(Read(q)) = Acked(q)
<1>1. PICK log \in Seq(S), n \in Nat : log = q.log /\ n = q.read /\ n < Len(log) /\ DOMAIN log = 1..Len(log) /\ Len(log) \in Nat
  <2>1. PICK log \in Seq(S) : log = q.log
    BY DEF QueueOK
  <2>2. PICK n \in Nat : n = q.read
    BY DEF QueueOK
  <2>3. n < Len(log) /\ DOMAIN log = 1..Len(log) /\ Len(log) \in Nat
    BY <2>1, <2>2 DEF CanRead
  <2> QED
    BY <2>1, <2>2, <2>3
<1>2. /\ Read(q).log = q.log /\ Read(q).read = n + 1 /\ Read(q).pending = q.pending \cup {n + 1}
      /\ Read(q) \in [log : Seq(S), read : Nat, pending : SUBSET Nat]
  <2>1. q \in [log : Seq(S), read : Nat, pending : SUBSET Nat]
    BY DEF QueueOK
  <2>2. PICK more \in SUBSET Nat : more = q.pending \cup {n + 1}
    <3>1. q.pending \in SUBSET Nat /\ n + 1 \in Nat
      BY <2>1
    <3>2. q.pending \cup {n + 1} \in SUBSET Nat
      BY <3>1
    <3> QED
      BY <3>2
  <2>3. Read(q) = [q EXCEPT !.read = n + 1, !.pending = more]
    BY <1>1, <2>2 DEF Read
  <2> QED
    BY <2>1, <2>2, <2>3
<1>3. NextEntry(q) = n + 1 /\ n + 1 \in 1..n + 1 /\ n + 1 \in DOMAIN log /\ n <= n + 1
  BY <1>1 DEF NextEntry
<1>4. \A e \in Read(q).pending : e \in 1..n + 1
  BY <1>1, <1>2 DEF QueueOK
<1>5. Acked(Read(q)) = Acked(q)
  <2>1. 1..n + 1 = (1..n) \cup {n + 1} /\ n + 1 \notin 1..n
    BY <1>1
  <2> QED
    BY <1>1, <1>2, <2>1 DEF Acked
<1>6. n + 1 <= Len(q.log)
  BY <1>1
<1> QED
  BY <1>1, <1>2, <1>3, <1>4, <1>5, <1>6 DEF QueueOK, Grown

LEMMA AckFacts ==
  ASSUME NEW S, NEW q, QueueOK(q, S), NEW e \in 1..q.read
  PROVE  /\ QueueOK(Ack(q, e), S) /\ Grown(q, Ack(q, e)) /\ Ack(q, e).log = q.log /\ Ack(q, e).read = q.read
         /\ Acked(Ack(q, e)) = Acked(q) \cup {e}
<1>1. /\ Ack(q, e).log = q.log /\ Ack(q, e).read = q.read /\ Ack(q, e).pending = q.pending \ {e}
      /\ Ack(q, e) \in [log : Seq(S), read : Nat, pending : SUBSET Nat]
      /\ q.read \in Nat
  <2>1. PICK rest \in SUBSET Nat : rest = q.pending \ {e}
    BY DEF QueueOK
  <2>2. Ack(q, e) = [q EXCEPT !.pending = rest]
    BY <2>1 DEF Ack
  <2> QED
    BY <2>1, <2>2 DEF QueueOK
<1>2. q.read <= q.read
  BY <1>1
<1> QED
  BY <1>1, <1>2 DEF QueueOK, Grown, Acked

\* A batch written to MySQL: rows that are there stay.
LEMMA InsertFacts ==
  ASSUME StoresOK, NEW b \in Batches, BatchOK(b), rows' = [rows EXCEPT ![b.conv] = InsertMessages(b)]
  PROVE  /\ DOMAIN rows' = Conv /\ b.conv \in Conv
         /\ \A c \in Conv : c # b.conv => rows'[c] = rows[c]
         /\ \A n \in DOMAIN rows[b.conv] : n \in DOMAIN rows'[b.conv] /\ rows'[b.conv][n] = rows[b.conv][n]
         /\ \A i \in DOMAIN b.seqs : b.seqs[i] \in DOMAIN rows'[b.conv]
         /\ \A n \in DOMAIN rows'[b.conv] :
              n \in DOMAIN rows[b.conv] \/ \E i \in DOMAIN b.seqs : n = b.seqs[i] /\ rows'[b.conv][n] = b.msgs[i]
<1>1. b.conv \in Conv /\ DOMAIN rows = Conv
  BY DEF Batches, StoresOK
<1>2. PICK new : new = InsertMessages(b)
  OBVIOUS
<1>3. DOMAIN new = DOMAIN rows[b.conv] \cup ToSet(b.seqs)
  BY <1>2 DEF InsertMessages
<1>4. \A n \in DOMAIN rows[b.conv] : new[n] = rows[b.conv][n]
  BY <1>2 DEF InsertMessages
<1>5. ASSUME NEW n \in ToSet(b.seqs), n \notin DOMAIN rows[b.conv]
      PROVE  \E i \in DOMAIN b.seqs : n = b.seqs[i] /\ new[n] = b.msgs[i]
  <2>1. new[n] = b.msgs[Place(b.seqs, n)]
    BY <1>2, <1>5 DEF InsertMessages, Place
  <2>2. Place(b.seqs, n) \in DOMAIN b.seqs /\ b.seqs[Place(b.seqs, n)] = n
    BY DEF ToSet, Place
  <2> QED
    BY <2>1, <2>2
<1>6. rows'[b.conv] = new /\ DOMAIN rows' = Conv /\ \A c \in Conv : c # b.conv => rows'[c] = rows[c]
  BY <1>1, <1>2
<1>7. \A i \in DOMAIN b.seqs : b.seqs[i] \in ToSet(b.seqs)
  BY DEF ToSet
<1> QED
  BY <1>1, <1>3, <1>4, <1>5, <1>6, <1>7

LEMMA StoreEffect ==
  ASSUME StoresOK, TopicsOK, NEW e \in DOMAIN toMySQL.log, StoreBatch(e)
  PROVE  /\ QueueOK(toMySQL', Batches) /\ toMySQL'.log = toMySQL.log
         /\ toMySQL.log[e] \in Batches /\ BatchOK(toMySQL.log[e])
         /\ \/ rows' = rows /\ Acked(toMySQL') = Acked(toMySQL)
            \/ /\ rows' = [rows EXCEPT ![toMySQL.log[e].conv] = InsertMessages(toMySQL.log[e])]
               /\ Acked(toMySQL') = Acked(toMySQL) \/ Acked(toMySQL') = Acked(toMySQL) \cup {e}
         /\ faults' = faults \/ (faults < MaxFaults /\ faults' = faults + 1)
<1>1. QueueOK(toMySQL, Batches)
  BY DEF TopicsOK
<1>2. toMySQL.log[e] \in Batches /\ BatchOK(toMySQL.log[e])
  BY <1>1, QueueFacts DEF TopicsOK
<1>3. PICK q : q = IF e \in toMySQL.pending THEN toMySQL ELSE Read(toMySQL)
  OBVIOUS
<1>4. QueueOK(q, Batches) /\ q.log = toMySQL.log /\ Acked(q) = Acked(toMySQL) /\ e \in 1..q.read
  <2>1. CASE e \in toMySQL.pending
    BY <2>1, <1>1, <1>3 DEF QueueOK
  <2>2. CASE e \notin toMySQL.pending
    <3>1. CanRead(toMySQL) /\ e = NextEntry(toMySQL) /\ q = Read(toMySQL)
      BY <2>2, <1>3 DEF StoreBatch
    <3> QED
      BY <3>1, <1>1, ReadFacts
  <2> QED
    BY <2>1, <2>2
<1>5. /\ QueueOK(Ack(q, e), Batches) /\ Ack(q, e).log = q.log /\ Acked(Ack(q, e)) = Acked(q) \cup {e}
  BY <1>4, AckFacts
<1>6. PICK b : b = toMySQL.log[e]
  OBVIOUS
<1>7. \/ rows' = [rows EXCEPT ![b.conv] = InsertMessages(b)] /\ toMySQL' = Ack(q, e) /\ faults' = faults
      \/ /\ faults < MaxFaults /\ faults' = faults + 1 /\ toMySQL' = q
         /\ rows' = rows \/ rows' = [rows EXCEPT ![b.conv] = InsertMessages(b)]
  BY <1>3, <1>6 DEF StoreBatch
<1> QED
  BY <1>2, <1>4, <1>5, <1>6, <1>7

-----------------------------------------------------------------------------
(***************************************************************************)
(* Every step keeps the types.                                             *)
(***************************************************************************)
LEMMA TypesAtStart == Init => TInv
<1> SUFFICES ASSUME Init PROVE TInv
  OBVIOUS
<1>1. StoresOK
  <2>1. \A c \in Conv : readDB[c] \in [Users -> Nat] /\ readCache[c] \in [Users -> Nat]
    BY DEF Init
  <2> QED
    BY <2>1 DEF Init, StoresOK
<1>2. ProcessesOK
  BY DEF Init, ProcessesOK, WorkOK, Works, Idle, JobPcs
<1>3. TopicsOK
  BY DEF Init, TopicsOK, QueueOK, EmptyQueue
<1>4. faults \in 0..MaxFaults
  BY BoundAssumption DEF Init
<1> QED
  BY <1>1, <1>2, <1>3, <1>4 DEF TInv

\* Deliveries only add to what the processes may know of.
LEMMA ProcessesStay ==
  ASSUME ProcessesOK, toRedis.read \in Nat, toRedis'.read \in Nat, toRedis.read <= toRedis'.read,
         work' = work, buffer' = buffer, readCh' = readCh
  PROVE  ProcessesOK'
<1>1. \A e : e \in 1..toRedis.read => e \in 1..toRedis'.read
  OBVIOUS
<1>2. \A p \in Process, k \in Key : WorkOK(work'[p][k], toRedis'.read)
  <2> SUFFICES ASSUME NEW p \in Process, NEW k \in Key PROVE WorkOK(work[p][k], toRedis'.read)
    OBVIOUS
  <2>1. WorkOK(work[p][k], toRedis.read)
    BY DEF ProcessesOK
  <2> QED
    BY <2>1, WorkOKKept
<1> QED
  BY <1>1, <1>2 DEF ProcessesOK

LEMMA ProcessesMove ==
  ASSUME ProcessesOK, NEW p \in Process, NEW k \in Key, toRedis'.read = toRedis.read,
         NEW v \in Works, Go(p, k, v), WorkOK(v, toRedis.read), buffer' = buffer, readCh' \in [Process -> Seq(ReadSeqs)]
  PROVE  ProcessesOK'
BY MovedOK DEF ProcessesOK

LEMMA BufferFacts ==
  ASSUME NEW p \in Process, NEW e, NEW n \in Nat, e \in 1..n, Buffer(p, e), MsgAt(e) \in Msg,
         buffer \in [Process -> [Key -> Seq(Nat)]],
         \A q \in Process, k \in Key : \A i \in DOMAIN buffer[q][k] : buffer[q][k][i] \in 1..n
  PROVE  /\ buffer' \in [Process -> [Key -> Seq(Nat)]]
         /\ \A q \in Process, k \in Key : \A i \in DOMAIN buffer'[q][k] : buffer'[q][k][i] \in 1..n
<1>1. PICK key \in Key : key = Shape[MsgAt(e)].key
  BY ShapeTypes
<1>2. PICK old \in Seq(Nat) : old = buffer[p][key]
  OBVIOUS
<1>3. PICK new \in Seq(Nat) : new = Append(old, e) /\ \A i \in DOMAIN new : new[i] \in 1..n
  <2>1. \A i \in DOMAIN old : old[i] \in 1..n
    BY <1>2
  <2>2. Append(old, e) \in Seq(Nat)
    OBVIOUS
  <2>3. ASSUME NEW i \in DOMAIN Append(old, e) PROVE Append(old, e)[i] \in 1..n
    <3>1. i \in 1..Len(old) + 1 /\ DOMAIN old = 1..Len(old) /\ Len(old) \in Nat
      OBVIOUS
    <3>2. CASE i = Len(old) + 1
      BY <3>2, <2>1
    <3>3. CASE i # Len(old) + 1
      <4>1. i \in DOMAIN old
        BY <3>1, <3>3
      <4>2. Append(old, e)[i] = old[i]
        BY <4>1
      <4> QED
        BY <4>1, <4>2, <2>1
    <3> QED
      BY <3>2, <3>3
  <2> QED
    BY <2>2, <2>3
<1>4. buffer' = [buffer EXCEPT ![p][key] = new]
  BY <1>1, <1>2, <1>3 DEF Buffer
<1>5. buffer'[p][key] = new /\ \A q \in Process, k \in Key : q # p \/ k # key => buffer'[q][k] = buffer[q][k]
  BY <1>4
<1> QED
  BY <1>3, <1>4, <1>5

LEMMA SendsKeepTypes ==
  ASSUME TInv, NEW m \in Msg, toRedis' = Send(toRedis, m),
         UNCHANGED <<buffer, work, redis, savedMax, rows, readCh, topics, faults>>,
         readDB' \in [Conv -> [Users -> Nat]]
  PROVE  TInv'
<1>1. QueueOK(toRedis', Msg) /\ toRedis'.read = toRedis.read /\ toRedis.read \in Nat
  BY SendFacts, QueueFacts DEF TInv, TopicsOK
<1>2. ProcessesOK'
  <2>1. toRedis.read <= toRedis'.read
    BY <1>1
  <2> QED
    BY <1>1, <2>1, ProcessesStay DEF TInv
<1>3. StoresOK' /\ TopicsOK' /\ faults' \in 0..MaxFaults
  BY <1>1 DEF TInv, StoresOK, TopicsOK, redis, topics
<1> QED
  BY <1>2, <1>3 DEF TInv

LEMMA ClientSendKeepsTypes ==
  ASSUME TInv, NEW m \in Msg, ClientSend(m)
  PROVE  TInv'
BY SendsKeepTypes DEF ClientSend, TInv, StoresOK, mysql

LEMMA ReceiptEffect ==
  ASSUME StoresOK, NEW m \in Msg, SendReceipt(m)
  PROVE  LET c == Shape[m].about IN LET cursor == Last(Shape[m].reads) IN
         /\ c \in Conv /\ cursor \in Nat /\ cursor <= savedMax[c]
         /\ readDB' \in [Conv -> [Users -> Nat]]
         /\ \A d \in Conv : \A u \in Users : readDB'[d][u] = readDB[d][u] \/ (d = c /\ readDB'[d][u] = cursor)
                                             \/ readDB'[d][u] = 0
<1>1. PICK reads \in Seq(Nat) : reads = Shape[m].reads /\ reads # <<>>
  BY ShapeTypes DEF SendReceipt
<1>2. PICK cursor \in Nat : cursor = Last(Shape[m].reads)
  BY <1>1 DEF Last
<1>3. PICK c \in Conv : c = Shape[m].about
  BY ShapeTypes
<1>4. PICK by \in [Users -> Nat] : by = ByUser(cursor, Shape[m].sender) /\ \A u \in Users : by[u] \in {cursor, 0}
  <2>1. ByUser(cursor, Shape[m].sender) \in [Users -> Nat]
    BY DEF ByUser
  <2>2. \A u \in Users : ByUser(cursor, Shape[m].sender)[u] \in {cursor, 0}
    BY DEF ByUser
  <2> QED
    BY <2>1, <2>2
<1>5. PICK old \in [Users -> Nat] : old = readDB[c]
  BY DEF StoresOK
<1>6. Raise(old, by) \in [Users -> Nat] /\ \A u \in Users : Raise(old, by)[u] \in {old[u], by[u]}
  BY RaiseFacts
<1>7. readDB' = [readDB EXCEPT ![c] = Raise(old, by)] /\ cursor <= savedMax[c]
  BY <1>2, <1>3, <1>4, <1>5 DEF SendReceipt
<1>8. readDB' \in [Conv -> [Users -> Nat]] /\ readDB'[c] = Raise(old, by) /\ \A d \in Conv : d # c => readDB'[d] = readDB[d]
  BY <1>6, <1>7 DEF StoresOK
<1>9. ASSUME NEW d \in Conv, NEW u \in Users
      PROVE  readDB'[d][u] = readDB[d][u] \/ (d = c /\ readDB'[d][u] = cursor) \/ readDB'[d][u] = 0
  <2>1. CASE d = c
    <3>1. readDB'[d][u] = old[u] \/ readDB'[d][u] = by[u]
      BY <2>1, <1>6, <1>8
    <3> QED
      BY <2>1, <3>1, <1>4, <1>5
  <2>2. CASE d # c
    BY <2>2, <1>8
  <2> QED
    BY <2>1, <2>2
<1> QED
  BY <1>2, <1>3, <1>7, <1>8, <1>9

LEMMA SendReceiptKeepsTypes ==
  ASSUME TInv, NEW m \in Msg, SendReceipt(m)
  PROVE  TInv'
<1>1. readDB' \in [Conv -> [Users -> Nat]]
  BY ReceiptEffect DEF TInv
<1> QED
  BY <1>1, SendsKeepTypes DEF SendReceipt

LEMMA DeliverKeepsTypes ==
  ASSUME TInv, NEW p \in Process, Deliver(p)
  PROVE  TInv'
<1>1. QueueOK(toRedis, Msg) /\ CanRead(toRedis) /\ toRedis' = Read(toRedis)
  BY DEF TInv, TopicsOK, Deliver
<1>2. /\ QueueOK(toRedis', Msg) /\ toRedis'.read = NextEntry(toRedis)
      /\ NextEntry(toRedis) \in DOMAIN toRedis.log /\ NextEntry(toRedis) \in 1..toRedis'.read
      /\ toRedis.read <= toRedis'.read
  BY <1>1, ReadFacts DEF Grown
<1>3. MsgAt(NextEntry(toRedis)) \in Msg /\ toRedis.read \in Nat /\ toRedis'.read \in Nat
  BY <1>1, <1>2, QueueFacts DEF MsgAt
<1>4. PICK n \in Nat : n = toRedis'.read /\ toRedis.read <= n
  BY <1>2, <1>3
<1>5. \A x : x \in 1..toRedis.read => x \in 1..n
  BY <1>3, <1>4
<1>6. /\ buffer' \in [Process -> [Key -> Seq(Nat)]]
      /\ \A q \in Process, k \in Key : \A i \in DOMAIN buffer'[q][k] : buffer'[q][k][i] \in 1..n
  <2>1. Buffer(p, NextEntry(toRedis)) /\ NextEntry(toRedis) \in 1..n
    BY <1>2, <1>4 DEF Deliver
  <2>2. /\ buffer \in [Process -> [Key -> Seq(Nat)]]
        /\ \A q \in Process, k \in Key : \A i \in DOMAIN buffer[q][k] : buffer[q][k][i] \in 1..n
    BY <1>5 DEF TInv, ProcessesOK
  <2> QED
    BY <2>1, <2>2, <1>3, BufferFacts
<1>7. work' = work /\ readCh' = readCh
  BY DEF Deliver
<1>8. \A q \in Process, k \in Key : WorkOK(work'[q][k], toRedis'.read)
  <2> SUFFICES ASSUME NEW q \in Process, NEW k \in Key PROVE WorkOK(work[q][k], toRedis'.read)
    BY <1>7
  <2>1. WorkOK(work[q][k], toRedis.read)
    BY DEF TInv, ProcessesOK
  <2> QED
    BY <2>1, <1>3, <1>4, WorkOKKept
<1>9. ProcessesOK'
  BY <1>4, <1>6, <1>7, <1>8 DEF TInv, ProcessesOK
<1>10. StoresOK' /\ TopicsOK' /\ faults' \in 0..MaxFaults
  BY <1>2 DEF Deliver, TInv, StoresOK, TopicsOK, redis, mysql, topics
<1> QED
  BY <1>9, <1>10 DEF TInv

LEMMA ClaimKeepsTypes ==
  ASSUME TInv, NEW p \in Process, NEW e \in toRedis.pending, Claim(p, e)
  PROVE  TInv'
<1>1. QueueOK(toRedis, Msg) /\ toRedis' = toRedis
  BY DEF TInv, TopicsOK, Claim
<1>2. e \in 1..toRedis.read /\ MsgAt(e) \in Msg /\ toRedis.read \in Nat
  BY <1>1, QueueFacts DEF MsgAt, QueueOK
<1>3. /\ buffer' \in [Process -> [Key -> Seq(Nat)]]
      /\ \A q \in Process, k \in Key : \A i \in DOMAIN buffer'[q][k] : buffer'[q][k][i] \in 1..toRedis.read
  <2>1. Buffer(p, e)
    BY DEF Claim
  <2>2. /\ buffer \in [Process -> [Key -> Seq(Nat)]]
        /\ \A q \in Process, k \in Key : \A i \in DOMAIN buffer[q][k] : buffer[q][k][i] \in 1..toRedis.read
    BY DEF TInv, ProcessesOK
  <2> QED
    BY <2>1, <2>2, <1>2, BufferFacts
<1>4. ProcessesOK'
  BY <1>1, <1>3 DEF TInv, ProcessesOK, Claim
<1>5. StoresOK' /\ TopicsOK'
  BY DEF Claim, TInv, StoresOK, TopicsOK, redis, mysql, topics
<1>6. faults' \in 0..MaxFaults
  <2>1. faults \in 0..MaxFaults /\ MaxFaults \in Nat
    BY BoundAssumption DEF TInv
  <2>2. faults' = faults \/ (faults < MaxFaults /\ faults' = faults + 1)
    BY DEF Claim
  <2> QED
    BY <2>1, <2>2
<1> QED
  BY <1>4, <1>5, <1>6 DEF TInv

LEMMA SliceFacts ==
  ASSUME NEW s \in Seq(Nat), NEW n \in 1..Len(s)
  PROVE  /\ SubSeq(s, 1, n) \in Seq(Nat) /\ SubSeq(s, 1, n) # <<>> /\ SubSeq(s, n + 1, Len(s)) \in Seq(Nat)
         /\ \A i \in DOMAIN SubSeq(s, 1, n) : i \in DOMAIN s /\ SubSeq(s, 1, n)[i] = s[i]
         /\ \A i \in DOMAIN SubSeq(s, n + 1, Len(s)) : i + n \in DOMAIN s /\ SubSeq(s, n + 1, Len(s))[i] = s[i + n]
<1>1. DOMAIN s = 1..Len(s) /\ Len(s) \in Nat /\ n \in Nat /\ \A i \in 1..Len(s) : s[i] \in Nat
  OBVIOUS
<1>2. PICK head : head = SubSeq(s, 1, n)
  OBVIOUS
<1>3. head \in Seq(Nat) /\ Len(head) = n /\ \A i \in 1..n : head[i] = s[i]
  <2>1. \A i \in 1..n : s[i] \in Nat
    BY <1>1
  <2>2. /\ SubSeq(s, 1, n) \in Seq(Nat) /\ Len(SubSeq(s, 1, n)) = IF 1 <= n THEN n - 1 + 1 ELSE 0
        /\ \A i \in 1..n - 1 + 1 : SubSeq(s, 1, n)[i] = s[1 + i - 1]
    BY <1>1, <2>1, SubSeqProperties
  <2> QED
    BY <1>1, <1>2, <2>2
<1>4. PICK m \in Nat : m = Len(s) /\ DOMAIN s = 1..m /\ n <= m /\ \A i \in 1..m : s[i] \in Nat
  <2>1. n <= Len(s)
    OBVIOUS
  <2>2. \E m \in Nat : m = Len(s)
    BY <1>1
  <2> QED
    BY <2>1, <2>2, <1>1
<1>5. PICK tail : tail = SubSeq(s, n + 1, m)
  OBVIOUS
<1>6. tail \in Seq(Nat) /\ Len(tail) = m - n /\ \A i \in 1..m - n : tail[i] = s[i + n]
  <2>1. \A i \in n + 1..m : s[i] \in Nat
    BY <1>1, <1>4
  <2>2. n + 1 \in Int /\ m \in Int
    BY <1>1, <1>4
  <2>3. /\ SubSeq(s, n + 1, m) \in Seq(Nat) /\ Len(SubSeq(s, n + 1, m)) = IF n + 1 <= m THEN m - (n + 1) + 1 ELSE 0
        /\ \A i \in 1..m - (n + 1) + 1 : SubSeq(s, n + 1, m)[i] = s[(n + 1) + i - 1]
    BY <2>1, <2>2, SubSeqProperties
  <2>4. Len(tail) = m - n
    <3>1. n \in Nat /\ m \in Nat /\ n <= m
      BY <1>1, <1>4
    <3>2. Len(tail) = IF n + 1 <= m THEN m - (n + 1) + 1 ELSE 0
      BY <1>5, <2>3
    <3> QED
      BY <3>1, <3>2
  <2>5. ASSUME NEW i \in 1..m - n PROVE tail[i] = s[i + n]
    <3>1. i \in 1..m - (n + 1) + 1 /\ (n + 1) + i - 1 = i + n
      BY <1>1, <1>4
    <3> QED
      BY <1>5, <2>3, <3>1
  <2> QED
    BY <1>5, <2>3, <2>4, <2>5
<1>7. \A i \in DOMAIN head : i \in DOMAIN s /\ head[i] = s[i]
  BY <1>1, <1>3
<1>8. ASSUME NEW i \in DOMAIN tail PROVE i + n \in DOMAIN s /\ tail[i] = s[i + n]
  <2>1. i \in 1..m - n
    <3>1. DOMAIN tail = 1..Len(tail)
      BY <1>6
    <3> QED
      BY <3>1, <1>6
  <2>2. i + n \in 1..m
    BY <2>1, <1>1, <1>4
  <2> QED
    BY <2>1, <2>2, <1>4, <1>6
<1>9. head # <<>>
  BY <1>3
<1> QED
  BY <1>2, <1>3, <1>4, <1>5, <1>7, <1>8, <1>9, <1>6

LEMMA FlushEffect ==
  ASSUME ProcessesOK, NEW p \in Process, NEW k \in Key, Flush(p, k)
  PROVE  \E v \in Collected : /\ Go(p, k, v) /\ v \in Works /\ WorkOK(v, toRedis.read) /\ W(p, k) = Idle
                              /\ buffer' \in [Process -> [Key -> Seq(Nat)]]
                              /\ \A q \in Process, l \in Key : \A i \in DOMAIN buffer'[q][l] : buffer'[q][l][i] \in 1..toRedis.read
<1>1. PICK s \in Seq(Nat) : s = buffer[p][k] /\ \A i \in DOMAIN s : s[i] \in 1..toRedis.read
  BY DEF ProcessesOK
<1>2. PICK n \in 1..BatchSize :
        /\ n <= Len(s)
        /\ work' = [work EXCEPT ![p][k] = [pc |-> "receipts", batch |-> SubSeq(s, 1, n)]]
        /\ buffer' = [buffer EXCEPT ![p][k] = SubSeq(s, n + 1, Len(s))]
  BY <1>1 DEF Flush
<1>3. n \in 1..Len(s)
  BY <1>2, BoundAssumption
<1>4. PICK taken \in Seq(Nat) : taken = SubSeq(s, 1, n) /\ taken # <<>> /\ \A i \in DOMAIN taken : taken[i] \in 1..toRedis.read
  <2>1. PICK taken \in Seq(Nat) : taken = SubSeq(s, 1, n) /\ taken # <<>> /\ \A i \in DOMAIN taken : i \in DOMAIN s /\ taken[i] = s[i]
    BY <1>3, SliceFacts
  <2> QED
    BY <1>1, <2>1
<1>5. PICK rest \in Seq(Nat) : rest = SubSeq(s, n + 1, Len(s)) /\ \A i \in DOMAIN rest : rest[i] \in 1..toRedis.read
  <2>1. PICK rest \in Seq(Nat) : rest = SubSeq(s, n + 1, Len(s)) /\ \A i \in DOMAIN rest : i + n \in DOMAIN s /\ rest[i] = s[i + n]
    BY <1>3, SliceFacts
  <2>2. \A i \in DOMAIN rest : rest[i] \in 1..toRedis.read
    BY <1>1, <2>1
  <2> QED
    BY <2>1, <2>2
<1>6. PICK v : v = [pc |-> "receipts", batch |-> taken]
  OBVIOUS
<1>7. v \in Collected /\ v \in Works /\ v.pc = "receipts" /\ v.batch = taken
  BY <1>6 DEF Collected, Works
<1>8. WorkOK(v, toRedis.read)
  BY <1>4, <1>7 DEF WorkOK, JobPcs
<1>9. Go(p, k, v) /\ W(p, k) = Idle
  BY <1>2, <1>4, <1>6 DEF Go, Flush, W
<1>10. buffer' = [buffer EXCEPT ![p][k] = rest]
  BY <1>2, <1>5
<1>11. buffer \in [Process -> [Key -> Seq(Nat)]]
       /\ \A q \in Process, l \in Key : \A i \in DOMAIN buffer[q][l] : buffer[q][l][i] \in 1..toRedis.read
  BY DEF ProcessesOK
<1>12. buffer' \in [Process -> [Key -> Seq(Nat)]]
  BY <1>10, <1>11
<1>13. buffer'[p][k] = rest /\ \A q \in Process, l \in Key : q # p \/ l # k => buffer'[q][l] = buffer[q][l]
  BY <1>10, <1>11
<1>14. ASSUME NEW q \in Process, NEW l \in Key, NEW i \in DOMAIN buffer'[q][l]
       PROVE  buffer'[q][l][i] \in 1..toRedis.read
  <2>1. CASE q = p /\ l = k
    BY <2>1, <1>5, <1>13
  <2>2. CASE q # p \/ l # k
    BY <2>2, <1>11, <1>13
  <2> QED
    BY <2>1, <2>2
<1> QED
  BY <1>7, <1>8, <1>9, <1>12, <1>14

LEMMA FlushKeepsTypes ==
  ASSUME TInv, NEW p \in Process, NEW k \in Key, Flush(p, k)
  PROVE  TInv'
<1>1. toRedis' = toRedis /\ readCh' = readCh
  BY DEF Flush
<1>2. PICK v \in Collected : /\ Go(p, k, v) /\ v \in Works /\ WorkOK(v, toRedis.read)
                             /\ buffer' \in [Process -> [Key -> Seq(Nat)]]
                             /\ \A q \in Process, l \in Key : \A i \in DOMAIN buffer'[q][l] : buffer'[q][l][i] \in 1..toRedis.read
  BY FlushEffect DEF TInv
<1>3. /\ work' \in [Process -> [Key -> Works]]
      /\ \A q \in Process, l \in Key : WorkOK(work'[q][l], toRedis'.read)
  BY <1>1, <1>2, MovedOK DEF TInv
<1>4. ProcessesOK'
  BY <1>1, <1>2, <1>3 DEF ProcessesOK, TInv
<1>5. StoresOK' /\ TopicsOK' /\ faults' \in 0..MaxFaults
  BY DEF Flush, TInv, StoresOK, TopicsOK, redis, mysql, topics
<1> QED
  BY <1>4, <1>5 DEF TInv

\* The steps of a batch that write to no store.
LEMMA WorkKeepsTypes ==
  ASSUME TInv, NEW p \in Process, NEW k \in Key, NEW v \in Works, Go(p, k, v), WorkOK(v, toRedis.read),
         toRedis'.read = toRedis.read, buffer' = buffer, readCh' = readCh, faults' \in 0..MaxFaults,
         StoresOK', TopicsOK'
  PROVE  TInv'
<1>1. readCh' \in [Process -> Seq(ReadSeqs)]
  BY DEF TInv, ProcessesOK
<1>2. ProcessesOK'
  BY <1>1, ProcessesMove DEF TInv
<1> QED
  BY <1>2 DEF TInv

LEMMA ReceiptsKeepTypes ==
  ASSUME TInv, NEW p \in Process, NEW k \in Key, ApplyReadReceipts(p, k)
  PROVE  TInv'
<1>1. PICK ms \in Seq(Msg), v \in Works : /\ Go(p, k, v) /\ WorkOK(v, toRedis.read)
                            /\ readDB' = [c \in Conv |-> Raise(readDB[c], [u \in Users |-> Top(ms, c, u)])]
  BY ReceiptsEffect DEF TInv
<1>2. ASSUME NEW c \in Conv, NEW u \in Users PROVE Top(ms, c, u) \in Nat
  BY ReadTop
<1>3. readDB' \in [Conv -> [Users -> Nat]]
  <2>1. ASSUME NEW c \in Conv PROVE Raise(readDB[c], [u \in Users |-> Top(ms, c, u)]) \in [Users -> Nat]
    <3>1. PICK to \in [Users -> Nat] : to = [u \in Users |-> Top(ms, c, u)]
      BY <1>2
    <3>2. PICK old \in [Users -> Nat] : old = readDB[c]
      BY DEF TInv, StoresOK
    <3> QED
      BY <3>1, <3>2, RaiseFacts
  <2> QED
    BY <2>1, <1>1
<1>4. StoresOK' /\ TopicsOK' /\ toRedis' = toRedis /\ buffer' = buffer /\ readCh' = readCh /\ faults' \in 0..MaxFaults
  BY <1>3 DEF ApplyReadReceipts, TInv, StoresOK, TopicsOK, redis, topics
<1> QED
  BY <1>1, <1>4, WorkKeepsTypes

LEMMA LookupKeepsTypes ==
  ASSUME TInv, NEW p \in Process, NEW k \in Key, LookupClient(p, k)
  PROVE  TInv'
<1>1. PICK v \in Works : Go(p, k, v) /\ WorkOK(v, toRedis.read)
  BY LookupEffect DEF TInv, Leaves
<1>2. StoresOK' /\ TopicsOK' /\ toRedis' = toRedis /\ buffer' = buffer /\ readCh' = readCh /\ faults' \in 0..MaxFaults
  BY DEF LookupClient, TInv, StoresOK, TopicsOK, redis, mysql, topics
<1> QED
  BY <1>1, <1>2, WorkKeepsTypes

LEMMA ReserveKeepsTypes ==
  ASSUME TInv, NEW p \in Process, NEW k \in Key, Reserve(p, k)
  PROVE  TInv'
<1>1. PICK v \in Works : Go(p, k, v) /\ WorkOK(v, toRedis.read) /\ counter' \in [Conv -> Nat]
  BY ReserveEffect DEF TInv, Leaves
<1>2. StoresOK' /\ TopicsOK' /\ toRedis' = toRedis /\ buffer' = buffer /\ readCh' = readCh /\ faults' \in 0..MaxFaults
  BY <1>1 DEF Reserve, TInv, StoresOK, TopicsOK, mysql, topics
<1> QED
  BY <1>1, <1>2, WorkKeepsTypes

LEMMA RememberKeepsTypes ==
  ASSUME TInv, NEW p \in Process, NEW k \in Key, Remember(p, k)
  PROVE  TInv'
<1>1. PICK w, c : w = W(p, k) /\ c = Job(p, k).conv
  OBVIOUS
<1>2. PICK v, i, m : m \in Msg /\ Leaves(p, k, w, v) /\ c \in Conv /\ w.seqs[i] \in Nat \ {0} /\ Remembered(c, m, w.seqs[i])
  BY <1>1, RememberEffect DEF TInv
<1>3. ASSUME NEW d \in Conv, NEW x \in DOMAIN clientSeq'[d] PROVE x \in Msg /\ clientSeq'[d][x] \in Nat \ {0}
  <2>1. \A y \in DOMAIN clientSeq[d] : y \in Msg /\ clientSeq[d][y] \in Nat \ {0}
    BY DEF TInv, StoresOK
  <2> QED
    BY <2>1, <1>2 DEF Remembered
<1>4. StoresOK' /\ TopicsOK' /\ toRedis' = toRedis /\ buffer' = buffer /\ readCh' = readCh /\ faults' \in 0..MaxFaults
  BY <1>2, <1>3 DEF Remember, Remembered, TInv, StoresOK, TopicsOK, mysql, topics
<1> QED
  BY <1>2, <1>4, WorkKeepsTypes DEF Leaves

LEMMA FillCacheKeepsTypes ==
  ASSUME TInv, NEW p \in Process, NEW k \in Key, FillCache(p, k)
  PROVE  TInv'
<1>1. PICK v \in Works : Go(p, k, v) /\ WorkOK(v, toRedis.read)
  BY CallEffect DEF TInv, Leaves, FillCache, At, After
<1>2. readCache' \in [Conv -> [Users -> Nat]]
  <2>1. PICK c \in Conv : c = Job(p, k).conv /\ W(p, k) \in Working
    BY WorkFacts, JobFacts DEF TInv, FillCache, At, JobPcs, WorkOK, Job
  <2>2. Raise(readCache[c], SenderSeq(p, k)) \in [Users -> Nat]
    BY <2>1, SenderSeqFacts, RaiseFacts DEF TInv, StoresOK
  <2> QED
    BY <2>1, <2>2 DEF FillCache, TInv, StoresOK
<1>3. StoresOK' /\ TopicsOK' /\ toRedis' = toRedis /\ buffer' = buffer /\ readCh' = readCh /\ faults' \in 0..MaxFaults
  BY <1>2 DEF FillCache, TInv, StoresOK, TopicsOK, mysql, topics
<1> QED
  BY <1>1, <1>3, WorkKeepsTypes

LEMMA SaveMaxEffect ==
  ASSUME ProcessesOK, StoresOK, NEW p \in Process, NEW k \in Key, SaveMax(p, k), NEW w, w = W(p, k),
         NEW c, c = Head(w.jobs).conv
  PROVE  /\ c \in Conv /\ savedMax' \in [Conv -> Nat]
         /\ \A d \in Conv : savedMax[d] <= savedMax'[d]
         /\ \A i \in DOMAIN w.seqs : w.seqs[i] <= savedMax'[c]
<1>1. w \in Working /\ JobOK(w) /\ w.pc = "save"
  BY WorkFacts DEF SaveMax, At, JobPcs, WorkOK
<1>2. c \in Conv /\ w.seqs \in Seq(Nat)
  BY <1>1, JobFacts DEF Working
<1>3. PICK m \in Nat : m = MaxOf(ToSet(w.seqs)) /\ \A i \in DOMAIN w.seqs : w.seqs[i] <= m
  BY <1>2, SeqMax
<1>4. savedMax' = [savedMax EXCEPT ![c] = IF m > savedMax[c] THEN m ELSE savedMax[c]]
  BY <1>3 DEF SaveMax, Job
<1>5. savedMax \in [Conv -> Nat]
  BY DEF StoresOK
<1>6. savedMax' \in [Conv -> Nat] /\ savedMax[c] <= savedMax'[c] /\ m <= savedMax'[c] /\ \A d \in Conv : d # c => savedMax'[d] = savedMax[d]
  BY <1>2, <1>4, <1>5
<1>7. \A d \in Conv : savedMax[d] <= savedMax'[d]
  BY <1>5, <1>6
<1>8. ASSUME NEW i \in DOMAIN w.seqs PROVE w.seqs[i] <= savedMax'[c]
  <2>1. w.seqs[i] \in Nat /\ w.seqs[i] <= m /\ savedMax'[c] \in Nat
    BY <1>2, <1>3, <1>6
  <2> QED
    BY <2>1, <1>6
<1> QED
  BY <1>2, <1>6, <1>7, <1>8

LEMMA SaveMaxKeepsTypes ==
  ASSUME TInv, NEW p \in Process, NEW k \in Key, SaveMax(p, k)
  PROVE  TInv'
<1>1. PICK v \in Works : Go(p, k, v) /\ WorkOK(v, toRedis.read)
  BY CallEffect DEF TInv, Leaves, SaveMax, At, After
<1>2. savedMax' \in [Conv -> Nat]
  BY SaveMaxEffect DEF TInv
<1>3. StoresOK' /\ TopicsOK' /\ toRedis' = toRedis /\ buffer' = buffer /\ readCh' = readCh /\ faults' \in 0..MaxFaults
  BY <1>2 DEF SaveMax, TInv, StoresOK, TopicsOK, redis, topics
<1> QED
  BY <1>1, <1>3, WorkKeepsTypes

LEMMA EnsureEffect ==
  ASSUME ProcessesOK, NEW p \in Process, NEW k \in Key, Ensure(p, k), NEW w, w = W(p, k)
  PROVE  \E item \in ReadSeqs :
           /\ readCh' = [readCh EXCEPT ![p] = Append(@, item)] /\ readCh' \in [Process -> Seq(ReadSeqs)]
           /\ item.conv = Head(w.jobs).conv
           /\ \A u \in Users : item.seqs[u] = 0 \/ \E i \in DOMAIN w.seqs : item.seqs[u] = w.seqs[i]
           /\ \A i \in DOMAIN readCh'[p] : readCh'[p][i] = item \/ (i \in DOMAIN readCh[p] /\ readCh'[p][i] = readCh[p][i])
<1>1. w \in Working /\ JobOK(w) /\ w.pc = "ensure"
  BY WorkFacts DEF Ensure, At, JobPcs, WorkOK
<1>2. PICK c \in Conv : c = Head(w.jobs).conv
  BY <1>1, JobFacts
<1>3. PICK seqs \in [Users -> Nat] : seqs = SenderSeq(p, k) /\ \A u \in Users : seqs[u] = 0 \/ \E i \in DOMAIN w.seqs : seqs[u] = w.seqs[i]
  <2>1. SenderSeq(p, k) \in [Users -> Nat]
    BY <1>1, SenderSeqFacts
  <2>2. \A u \in Users : SenderSeq(p, k)[u] = 0 \/ \E i \in DOMAIN w.seqs : SenderSeq(p, k)[u] = w.seqs[i]
    BY <1>1, SenderSeqFacts
  <2> QED
    BY <2>1, <2>2
<1>4. PICK item \in ReadSeqs : item = [conv |-> c, seqs |-> seqs] /\ item.conv = c /\ item.seqs = seqs
  <2>1. [conv |-> c, seqs |-> seqs] \in ReadSeqs
    BY DEF ReadSeqs
  <2> QED
    BY <2>1
<1>5. readCh' = [readCh EXCEPT ![p] = Append(@, item)]
  BY <1>2, <1>3, <1>4 DEF Ensure, Job
<1>6. PICK old \in Seq(ReadSeqs) : old = readCh[p] /\ readCh \in [Process -> Seq(ReadSeqs)]
  BY DEF ProcessesOK
<1>7. PICK new \in Seq(ReadSeqs) : new = Append(old, item) /\ \A i \in DOMAIN new : new[i] = item \/ (i \in DOMAIN old /\ new[i] = old[i])
  <2>1. Append(old, item) \in Seq(ReadSeqs) /\ DOMAIN Append(old, item) = 1..Len(old) + 1 /\ DOMAIN old = 1..Len(old) /\ Len(old) \in Nat
    OBVIOUS
  <2>2. Append(old, item)[Len(old) + 1] = item /\ \A i \in 1..Len(old) : Append(old, item)[i] = old[i]
    BY AppendProperties
  <2>3. \A i \in 1..Len(old) + 1 : i = Len(old) + 1 \/ i \in 1..Len(old)
    BY <2>1
  <2> QED
    BY <2>1, <2>2, <2>3
<1>8. readCh' = [readCh EXCEPT ![p] = new]
  BY <1>5, <1>6, <1>7
<1>9. readCh' \in [Process -> Seq(ReadSeqs)] /\ readCh'[p] = new
  BY <1>6, <1>8
<1>10. \A i \in DOMAIN readCh'[p] : readCh'[p][i] = item \/ (i \in DOMAIN readCh[p] /\ readCh'[p][i] = readCh[p][i])
  BY <1>6, <1>7, <1>9
<1>11. \A u \in Users : item.seqs[u] = 0 \/ \E i \in DOMAIN w.seqs : item.seqs[u] = w.seqs[i]
  BY <1>3, <1>4
<1> QED
  BY <1>2, <1>4, <1>5, <1>9, <1>10, <1>11

LEMMA EnsureKeepsTypes ==
  ASSUME TInv, NEW p \in Process, NEW k \in Key, Ensure(p, k)
  PROVE  TInv'
<1>1. PICK v \in Works : Go(p, k, v) /\ WorkOK(v, toRedis.read)
  BY CallEffect DEF TInv, Leaves, Ensure, At, After
<1>2. readCh' \in [Process -> Seq(ReadSeqs)]
  BY EnsureEffect DEF TInv
<1>3. StoresOK' /\ TopicsOK' /\ toRedis' = toRedis /\ buffer' = buffer /\ faults' \in 0..MaxFaults
  BY DEF Ensure, TInv, StoresOK, TopicsOK, redis, mysql, topics
<1>4. ProcessesOK'
  BY <1>1, <1>2, <1>3, ProcessesMove DEF TInv
<1> QED
  BY <1>3, <1>4 DEF TInv

LEMMA PublishEffect ==
  ASSUME ProcessesOK, TopicsOK, NEW p \in Process, NEW k \in Key, PublishMySQL(p, k), NEW w, w = W(p, k)
  PROVE  \E b \in Batches :
           /\ b.conv = Head(w.jobs).conv /\ b.msgs = Head(w.jobs).msgs /\ b.seqs = w.seqs
           /\ BatchOK(b) /\ toMySQL' = Send(toMySQL, b)
<1>1. w \in Working /\ JobOK(w) /\ w.pc = "mysql"
  BY WorkFacts DEF PublishMySQL, At, JobPcs, WorkOK
<1>2. Numbered(w) /\ Len(w.seqs) = Len(Head(w.jobs).msgs) /\ w.seqs \in Seq(Nat)
  BY <1>1 DEF JobOK, Working
<1>3. PICK b : b = [conv |-> Head(w.jobs).conv, msgs |-> Head(w.jobs).msgs, seqs |-> w.seqs]
  OBVIOUS
<1>4. b \in Batches
  BY <1>1, <1>2, <1>3, JobFacts DEF Batches
<1>5. b.conv = Head(w.jobs).conv /\ b.msgs = Head(w.jobs).msgs /\ b.seqs = w.seqs
  BY <1>3
<1>6. toMySQL' = Send(toMySQL, b)
  BY <1>3 DEF PublishMySQL, Job
<1> QED
  BY <1>2, <1>4, <1>5, <1>6 DEF BatchOK, Numbered

LEMMA PublishMySQLKeepsTypes ==
  ASSUME TInv, NEW p \in Process, NEW k \in Key, PublishMySQL(p, k)
  PROVE  TInv'
<1>1. PICK v \in Works : Go(p, k, v) /\ WorkOK(v, toRedis.read)
  BY CallEffect DEF TInv, Leaves, PublishMySQL, At, After
<1>2. PICK b \in Batches : BatchOK(b) /\ toMySQL' = Send(toMySQL, b)
  BY PublishEffect DEF TInv
<1>3. QueueOK(toMySQL', Batches) /\ \A e \in DOMAIN toMySQL'.log : BatchOK(toMySQL'.log[e])
  BY <1>2, SendFacts DEF TInv, TopicsOK, Grown
<1>4. StoresOK' /\ TopicsOK' /\ toRedis' = toRedis /\ buffer' = buffer /\ readCh' = readCh /\ faults' \in 0..MaxFaults
  BY <1>3 DEF PublishMySQL, TInv, StoresOK, TopicsOK, redis, mysql, topics
<1> QED
  BY <1>1, <1>4, WorkKeepsTypes

LEMMA PublishPushKeepsTypes ==
  ASSUME TInv, NEW p \in Process, NEW k \in Key, PublishPush(p, k)
  PROVE  TInv'
<1>1. PICK v \in Works, x \in Pushes : Go(p, k, v) /\ WorkOK(v, toRedis.read) /\ toPush' = Append(toPush, x)
  BY PushEffect DEF TInv
<1>2. toPush' \in Seq(Pushes)
  BY <1>1 DEF TInv, TopicsOK
<1>3. StoresOK' /\ TopicsOK' /\ toRedis' = toRedis /\ buffer' = buffer /\ readCh' = readCh /\ faults' \in 0..MaxFaults
  BY <1>2 DEF PublishPush, TInv, StoresOK, TopicsOK, redis, mysql
<1> QED
  BY <1>1, <1>3, WorkKeepsTypes

LEMMA AckKeepsTypes ==
  ASSUME TInv, NEW p \in Process, NEW k \in Key, AckEntry(p, k)
  PROVE  TInv'
<1>1. PICK w : w = W(p, k)
  OBVIOUS
<1>2. PICK v \in Works : Go(p, k, v) /\ WorkOK(v, toRedis.read)
  BY AckEffect DEF TInv
<1>3. QueueOK(toRedis', Msg) /\ toRedis'.read = toRedis.read
  <2>1. w.batch[w.at] \in 1..toRedis.read /\ toRedis' = Ack(toRedis, w.batch[w.at])
    BY <1>1, AckEffect DEF TInv, WorkOK
  <2> QED
    BY <2>1, AckFacts DEF TInv, TopicsOK
<1>4. StoresOK' /\ TopicsOK' /\ buffer' = buffer /\ readCh' = readCh /\ faults' \in 0..MaxFaults
  BY <1>3 DEF AckEntry, TInv, StoresOK, TopicsOK, redis, mysql, topics
<1> QED
  BY <1>2, <1>3, <1>4, WorkKeepsTypes

LEMMA FaultCounted ==
  ASSUME faults \in 0..MaxFaults, faults' = faults \/ (faults < MaxFaults /\ faults' = faults + 1)
  PROVE  faults' \in 0..MaxFaults
BY BoundAssumption

LEMMA DropBatchKeepsTypes ==
  ASSUME TInv, NEW p \in Process, NEW k \in Key, DropBatch(p, k)
  PROVE  TInv'
<1>1. Idle \in Works /\ WorkOK(Idle, toRedis.read)
  BY DEF Works, WorkOK, Idle, JobPcs
<1>2. Go(p, k, Idle) /\ toRedis' = toRedis /\ buffer' = buffer /\ readCh' = readCh
  BY DEF DropBatch
<1>3. faults' \in 0..MaxFaults
  BY FaultCounted DEF TInv, DropBatch
<1>4. StoresOK' /\ TopicsOK'
  BY DEF DropBatch, TInv, StoresOK, TopicsOK, redis, mysql, topics
<1> QED
  BY <1>1, <1>2, <1>3, <1>4, WorkKeepsTypes

LEMMA CrashKeepsTypes ==
  ASSUME TInv, NEW p \in Process, Crash(p)
  PROVE  TInv'
<1>1. PICK idle \in [Key -> Works] : idle = [k \in Key |-> Idle]
  BY DEF Works
<1>2. PICK none \in [Key -> Seq(Nat)] : none = [k \in Key |-> <<>>]
  <2>1. <<>> \in Seq(Nat)
    OBVIOUS
  <2> QED
    BY <2>1
<1>3. toRedis' = toRedis /\ work' = [work EXCEPT ![p] = idle] /\ buffer' = [buffer EXCEPT ![p] = none] /\ readCh' = [readCh EXCEPT ![p] = <<>>]
  BY <1>1, <1>2 DEF Crash
<1>4. work' \in [Process -> [Key -> Works]] /\ buffer' \in [Process -> [Key -> Seq(Nat)]] /\ readCh' \in [Process -> Seq(ReadSeqs)]
  BY <1>3 DEF TInv, ProcessesOK
<1>5. ASSUME NEW q \in Process, NEW k \in Key
      PROVE  WorkOK(work'[q][k], toRedis.read) /\ \A i \in DOMAIN buffer'[q][k] : buffer'[q][k][i] \in 1..toRedis.read
  <2>1. CASE q = p
    <3>1. work'[q][k] = Idle /\ buffer'[q][k] = <<>>
      BY <2>1, <1>1, <1>2, <1>3 DEF TInv, ProcessesOK
    <3> QED
      BY <3>1 DEF WorkOK, Idle, JobPcs
  <2>2. CASE q # p
    BY <2>2, <1>3 DEF TInv, ProcessesOK
  <2> QED
    BY <2>1, <2>2
<1>6. ProcessesOK'
  BY <1>3, <1>4, <1>5 DEF ProcessesOK
<1>7. StoresOK' /\ TopicsOK' /\ faults' \in 0..MaxFaults
  BY FaultCounted DEF Crash, TInv, StoresOK, TopicsOK, redis, mysql, topics
<1> QED
  BY <1>6, <1>7 DEF TInv

LEMMA WriteEffect ==
  ASSUME ProcessesOK, StoresOK, NEW p \in Process, WriteReadSeq(p)
  PROVE  \E item \in ReadSeqs :
           /\ 1 \in DOMAIN readCh[p] /\ item = readCh[p][1]
           /\ readDB' \in [Conv -> [Users -> Nat]]
           /\ \A d \in Conv : \A u \in Users : readDB'[d][u] = readDB[d][u] \/ (d = item.conv /\ readDB'[d][u] = item.seqs[u])
           /\ readCh' \in [Process -> Seq(ReadSeqs)]
           /\ \A q \in Process : \A i \in DOMAIN readCh'[q] : \E l \in DOMAIN readCh[q] : readCh'[q][i] = readCh[q][l]
<1>1. PICK s \in Seq(ReadSeqs) : s = readCh[p] /\ s # <<>> /\ readCh \in [Process -> Seq(ReadSeqs)]
  BY DEF ProcessesOK, WriteReadSeq
<1>2. PICK item \in ReadSeqs : item = Head(s) /\ item = s[1] /\ 1 \in DOMAIN s
  BY <1>1
<1>3. PICK c \in Conv, to \in [Users -> Nat] : c = item.conv /\ to = item.seqs
  BY DEF ReadSeqs
<1>4. PICK old \in [Users -> Nat] : old = readDB[c]
  BY DEF StoresOK
<1>5. PICK new \in [Users -> Nat] : new = Raise(old, to) /\ \A u \in Users : new[u] \in {old[u], to[u]}
  BY RaiseFacts
<1>6. readDB' = [readDB EXCEPT ![c] = new]
  BY <1>1, <1>2, <1>3, <1>4, <1>5 DEF WriteReadSeq
<1>7. readDB' \in [Conv -> [Users -> Nat]] /\ readDB'[c] = new /\ \A d \in Conv : d # c => readDB'[d] = readDB[d]
  BY <1>6 DEF StoresOK
<1>8. ASSUME NEW d \in Conv, NEW u \in Users
      PROVE  readDB'[d][u] = readDB[d][u] \/ (d = item.conv /\ readDB'[d][u] = item.seqs[u])
  BY <1>3, <1>4, <1>5, <1>7
<1>9. PICK rest \in Seq(ReadSeqs) : rest = Tail(s) /\ \A i \in DOMAIN rest : \E l \in DOMAIN s : rest[i] = s[l]
  <2>1. Tail(s) \in Seq(ReadSeqs) /\ Len(Tail(s)) = Len(s) - 1 /\ Len(s) \in Nat /\ DOMAIN s = 1..Len(s)
        /\ DOMAIN Tail(s) = 1..Len(s) - 1
    BY <1>1
  <2>2. ASSUME NEW i \in 1..Len(s) - 1 PROVE Tail(s)[i] = s[i + 1] /\ i + 1 \in 1..Len(s)
    BY <1>1, <2>1
  <2> QED
    BY <2>1, <2>2
<1>10. readCh' = [readCh EXCEPT ![p] = rest]
  BY <1>1, <1>9 DEF WriteReadSeq
<1>11. readCh' \in [Process -> Seq(ReadSeqs)] /\ readCh'[p] = rest /\ \A q \in Process : q # p => readCh'[q] = readCh[q]
  BY <1>1, <1>10
<1>12. ASSUME NEW q \in Process, NEW i \in DOMAIN readCh'[q] PROVE \E l \in DOMAIN readCh[q] : readCh'[q][i] = readCh[q][l]
  <2>1. CASE q = p
    BY <2>1, <1>1, <1>9, <1>11
  <2>2. CASE q # p
    BY <2>2, <1>11
  <2> QED
    BY <2>1, <2>2
<1> QED
  BY <1>1, <1>2, <1>7, <1>8, <1>11, <1>12

LEMMA WriteReadSeqKeepsTypes ==
  ASSUME TInv, NEW p \in Process, WriteReadSeq(p)
  PROVE  TInv'
<1>1. readDB' \in [Conv -> [Users -> Nat]] /\ readCh' \in [Process -> Seq(ReadSeqs)]
  BY WriteEffect DEF TInv
<1>2. toRedis' = toRedis /\ buffer' = buffer /\ work' = work
  BY DEF WriteReadSeq
<1>3. ProcessesOK'
  BY <1>1, <1>2 DEF TInv, ProcessesOK
<1>4. StoresOK' /\ TopicsOK' /\ faults' \in 0..MaxFaults
  BY <1>1 DEF WriteReadSeq, TInv, StoresOK, TopicsOK, redis, topics
<1> QED
  BY <1>3, <1>4 DEF TInv

LEMMA StoreBatchKeepsTypes ==
  ASSUME TInv, NEW e \in DOMAIN toMySQL.log, StoreBatch(e)
  PROVE  TInv'
<1>1. PICK b \in Batches : b = toMySQL.log[e] /\ BatchOK(b)
  BY StoreEffect DEF TInv
<1>2. /\ QueueOK(toMySQL', Batches) /\ toMySQL'.log = toMySQL.log
      /\ rows' = rows \/ rows' = [rows EXCEPT ![b.conv] = InsertMessages(b)]
      /\ faults' = faults \/ (faults < MaxFaults /\ faults' = faults + 1)
  BY <1>1, StoreEffect DEF TInv
<1>3. DOMAIN rows' = Conv /\ \A c \in Conv : \A n \in DOMAIN rows'[c] : n \in Nat \ {0} /\ rows'[c][n] \in Msg
  <2>1. DOMAIN rows = Conv /\ \A c \in Conv : \A n \in DOMAIN rows[c] : n \in Nat \ {0} /\ rows[c][n] \in Msg
    BY DEF TInv, StoresOK
  <2>2. CASE rows' = rows
    BY <2>1, <2>2
  <2>3. CASE rows' = [rows EXCEPT ![b.conv] = InsertMessages(b)]
    <3>1. \A i \in DOMAIN b.seqs : b.seqs[i] \in Nat \ {0} /\ b.msgs[i] \in Msg
      <4>1. PICK seqs \in Seq(Nat), msgs \in Seq(Msg) : seqs = b.seqs /\ msgs = b.msgs /\ Len(seqs) = Len(msgs)
        BY <1>1 DEF Batches, BatchOK
      <4>2. DOMAIN seqs = DOMAIN msgs /\ \A i \in DOMAIN seqs : seqs[i] \in Nat /\ seqs[i] > 0
        BY <4>1, <1>1 DEF BatchOK
      <4> QED
        BY <4>1, <4>2
    <3>2. /\ DOMAIN rows' = Conv /\ b.conv \in Conv
          /\ \A c \in Conv : c # b.conv => rows'[c] = rows[c]
          /\ \A n \in DOMAIN rows[b.conv] : n \in DOMAIN rows'[b.conv] /\ rows'[b.conv][n] = rows[b.conv][n]
          /\ \A n \in DOMAIN rows'[b.conv] :
               n \in DOMAIN rows[b.conv] \/ \E i \in DOMAIN b.seqs : n = b.seqs[i] /\ rows'[b.conv][n] = b.msgs[i]
      BY <1>1, <2>3, InsertFacts DEF TInv
    <3> QED
      BY <2>1, <3>1, <3>2
  <2> QED
    BY <1>2, <2>2, <2>3
<1>4. faults' \in 0..MaxFaults
  BY <1>2, FaultCounted DEF TInv
<1>5. TopicsOK'
  BY <1>2 DEF TInv, TopicsOK, StoreBatch
<1>6. ProcessesOK'
  BY DEF TInv, ProcessesOK, StoreBatch
<1>7. StoresOK'
  BY <1>3 DEF TInv, StoresOK, StoreBatch, redis
<1> QED
  BY <1>4, <1>5, <1>6, <1>7 DEF TInv

LEMMA StepKeepsTypes == TInv /\ [Next]_vars => TInv'
<1> SUFFICES ASSUME TInv, [Next]_vars PROVE TInv'
  OBVIOUS
<1>1. ASSUME NEW m \in Msg, ClientSend(m) PROVE TInv'
  BY <1>1, ClientSendKeepsTypes
<1>2. ASSUME NEW m \in Msg, SendReceipt(m) PROVE TInv'
  BY <1>2, SendReceiptKeepsTypes
<1>3. ASSUME NEW p \in Process, Deliver(p) PROVE TInv'
  BY <1>3, DeliverKeepsTypes
<1>4. ASSUME NEW p \in Process, NEW e \in toRedis.pending, Claim(p, e) PROVE TInv'
  BY <1>4, ClaimKeepsTypes
<1>5. ASSUME NEW p \in Process, NEW k \in Key, Flush(p, k) PROVE TInv'
  BY <1>5, FlushKeepsTypes
<1>6. ASSUME NEW p \in Process, NEW k \in Key, WorkerStep(p, k) PROVE TInv'
  BY <1>6, ReceiptsKeepTypes, LookupKeepsTypes, ReserveKeepsTypes, RememberKeepsTypes, FillCacheKeepsTypes,
     SaveMaxKeepsTypes, EnsureKeepsTypes, PublishMySQLKeepsTypes, PublishPushKeepsTypes, AckKeepsTypes
     DEF WorkerStep
<1>7. ASSUME NEW p \in Process, NEW k \in Key, DropBatch(p, k) PROVE TInv'
  BY <1>7, DropBatchKeepsTypes
<1>8. ASSUME NEW p \in Process, Crash(p) PROVE TInv'
  BY <1>8, CrashKeepsTypes
<1>9. ASSUME NEW p \in Process, WriteReadSeq(p) PROVE TInv'
  BY <1>9, WriteReadSeqKeepsTypes
<1>10. ASSUME NEW e \in DOMAIN toMySQL.log, StoreBatch(e) PROVE TInv'
  BY <1>10, StoreBatchKeepsTypes
<1>11. CASE UNCHANGED vars
  BY <1>11 DEF TInv, StoresOK, ProcessesOK, TopicsOK, vars, redis, mysql, topics
<1> QED
  BY <1>1, <1>2, <1>3, <1>4, <1>5, <1>6, <1>7, <1>8, <1>9, <1>10, <1>11 DEF Next

LEMMA TypesHold == Spec => []TInv
<1>1. Init => TInv
  BY TypesAtStart
<1>2. TInv /\ [Next]_vars => TInv'
  BY StepKeepsTypes
<1> QED
  BY <1>1, <1>2, PTL DEF Spec

LEMMA TypesImply == TInv => TypeOK
<1> SUFFICES ASSUME TInv PROVE TypeOK
  OBVIOUS
<1>1. toRedis.log \in Seq(Msg) /\ toRedis.read \in 0..Len(toRedis.log) /\ toRedis.pending \subseteq 1..toRedis.read
  <2>1. QueueOK(toRedis, Msg)
    BY DEF TInv, TopicsOK
  <2>2. toRedis.log \in Seq(Msg) /\ toRedis.read \in Nat /\ Len(toRedis.log) \in Nat
    BY <2>1, QueueFacts
  <2> QED
    BY <2>1, <2>2 DEF QueueOK
<1>2. ASSUME NEW p \in Process, NEW k \in Key
      PROVE  /\ ToSet(buffer[p][k]) \subseteq 1..toRedis.read
             /\ work[p][k].pc \in {"idle", "receipts", "lookup", "malloc", "remember", "cache", "save",
                             "ensure", "mysql", "push", "ack"}
  <2>1. ToSet(buffer[p][k]) \subseteq 1..toRedis.read
    BY DEF TInv, ProcessesOK, ToSet
  <2>2. PICK w \in Works : w = work[p][k]
    BY DEF TInv, ProcessesOK
  <2> QED
    BY <2>1, <2>2 DEF Works, Idle, Collected, Acking, Working, JobPcs
<1>3. ASSUME NEW c \in Conv
      PROVE  DOMAIN clientSeq[c] \subseteq Msg /\ DOMAIN rows[c] \subseteq Nat \ {0} /\ ToSet(rows[c]) \subseteq Msg
  BY DEF TInv, StoresOK, ToSet
<1> QED
  BY <1>1, <1>2, <1>3 DEF TInv, StoresOK, TypeOK

(* In every reachable state the processes hold only entries the queue      *)
(* delivered, whatever is claimed, dropped or crashes; numbers, counters   *)
(* and read positions are natural numbers, and rows hold messages under    *)
(* positive numbers: the lookups of a batch and the fresh positions it     *)
(* collects account for every message before Malloc numbers them.          *)
THEOREM TransferTypeOK == Spec => []TypeOK
BY TypesHold, TypesImply, PTL

-----------------------------------------------------------------------------
(***************************************************************************)
(* Steps that leave the numbers alone: no message of a batch gets one, and *)
(* neither stores nor topics change.                                       *)
(***************************************************************************)
Started(v) == v.pc \in {"lookup", "push"} /\ \A i \in DOMAIN v.seqs : v.seqs[i] = 0

Quiet ==
  /\ \A q \in Process, l \in Key : W(q, l)' = W(q, l) \/ W(q, l)'.pc \notin JobPcs \/ Started(W(q, l)')
  /\ UNCHANGED <<clientSeq, counter, savedMax, rows, toMySQL, toPush>>

LEMMA BeginStarts ==
  ASSUME NEW batch \in Seq(Nat), NEW jobs \in Seq(JobSet)
  PROVE  Begin(batch, jobs).pc \notin JobPcs \/ Started(Begin(batch, jobs))
<1>1. CASE jobs = <<>>
  <2>1. Begin(batch, jobs).pc = "ack"
    BY <1>1, BeginFacts
  <2> QED
    BY <2>1 DEF JobPcs
<1>2. CASE jobs # <<>>
  BY <1>2, BeginFacts DEF Started
<1> QED
  BY <1>1, <1>2

\* One batch moves, to a record that has no numbers.
LEMMA QuietMove ==
  ASSUME TInv, NEW p \in Process, NEW k \in Key, NEW v \in Works, Go(p, k, v), v.pc \notin JobPcs \/ Started(v)
  PROVE  \A q \in Process, l \in Key : W(q, l)' = W(q, l) \/ W(q, l)'.pc \notin JobPcs \/ Started(W(q, l)')
<1>1. W(p, k)' = v /\ \A q \in Process, l \in Key : q # p \/ l # k => W(q, l)' = W(q, l)
  BY GoFacts DEF TInv, ProcessesOK
<1> SUFFICES ASSUME NEW q \in Process, NEW l \in Key
             PROVE  W(q, l)' = W(q, l) \/ W(q, l)'.pc \notin JobPcs \/ Started(W(q, l)')
  OBVIOUS
<1>2. CASE q = p /\ l = k
  BY <1>1, <1>2
<1>3. CASE q # p \/ l # k
  BY <1>1, <1>3
<1> QED
  BY <1>2, <1>3

LEMMA QuietSteps ==
  ASSUME TInv,
         \/ \E m \in Msg : ClientSend(m) \/ SendReceipt(m)
         \/ \E p \in Process : Deliver(p) \/ Crash(p) \/ WriteReadSeq(p)
         \/ \E p \in Process, e \in toRedis.pending : Claim(p, e)
         \/ \E p \in Process, k \in Key : Flush(p, k) \/ ApplyReadReceipts(p, k) \/ AckEntry(p, k) \/ DropBatch(p, k)
         \/ UNCHANGED vars
  PROVE  Quiet
<1>1. Idle \in Works /\ Idle.pc \notin JobPcs
  BY DEF Works, Idle, JobPcs
<1>2. CASE work' = work
  <2>1. \A q \in Process, l \in Key : W(q, l)' = W(q, l)
    BY <1>2 DEF W
  <2>2. UNCHANGED <<clientSeq, counter, savedMax, rows, toMySQL, toPush>>
    <3>1. CASE \E m \in Msg : ClientSend(m)
      BY <3>1 DEF ClientSend, redis, mysql, topics
    <3>2. CASE \E m \in Msg : SendReceipt(m)
      BY <3>2 DEF SendReceipt, redis, topics
    <3>3. CASE \E p \in Process : Deliver(p)
      BY <3>3 DEF Deliver, redis, mysql, topics
    <3>4. CASE \E p \in Process : Crash(p)
      BY <3>4 DEF Crash, redis, mysql, topics
    <3>5. CASE \E p \in Process : WriteReadSeq(p)
      BY <3>5 DEF WriteReadSeq, redis, topics
    <3>6. CASE \E p \in Process, e \in toRedis.pending : Claim(p, e)
      BY <3>6 DEF Claim, redis, mysql, topics
    <3>7. CASE \E p \in Process, k \in Key : Flush(p, k)
      BY <3>7 DEF Flush, redis, mysql, topics
    <3>8. CASE \E p \in Process, k \in Key : ApplyReadReceipts(p, k)
      BY <3>8 DEF ApplyReadReceipts, redis, topics
    <3>9. CASE \E p \in Process, k \in Key : AckEntry(p, k)
      BY <3>9 DEF AckEntry, redis, mysql, topics
    <3>10. CASE \E p \in Process, k \in Key : DropBatch(p, k)
      BY <3>10 DEF DropBatch, redis, mysql, topics
    <3>11. CASE UNCHANGED vars
      BY <3>11 DEF vars, redis, mysql, topics
    <3> QED
      BY <3>1, <3>2, <3>3, <3>4, <3>5, <3>6, <3>7, <3>8, <3>9, <3>10, <3>11
  <2> QED
    BY <2>1, <2>2 DEF Quiet
<1>3. CASE \E p \in Process, k \in Key : Flush(p, k)
  <2>1. PICK p \in Process, k \in Key : Flush(p, k)
    BY <1>3
  <2>2. PICK v \in Collected : Go(p, k, v) /\ v \in Works
    BY <2>1, FlushEffect DEF TInv
  <2>3. v.pc \notin JobPcs
    BY <2>2 DEF Collected, JobPcs
  <2> QED
    BY <2>1, <2>2, <2>3, QuietMove DEF Quiet, Flush, redis, mysql, topics
<1>4. CASE \E p \in Process, k \in Key : ApplyReadReceipts(p, k)
  <2>1. PICK p \in Process, k \in Key : ApplyReadReceipts(p, k)
    BY <1>4
  <2>2. PICK w : w = W(p, k)
    OBVIOUS
  <2>3. w.batch \in Seq(Nat)
    BY <2>1, <2>2, ReceiptsEffect DEF TInv, Collected
  <2>4. PICK ms \in Seq(Msg), v \in Works : v = Begin(w.batch, Jobs(ms)) /\ Go(p, k, v)
    BY <2>1, <2>2, ReceiptsEffect DEF TInv
  <2>5. v.pc \notin JobPcs \/ Started(v)
    BY <2>3, <2>4, JobsFacts, BeginStarts
  <2> QED
    BY <2>1, <2>4, <2>5, QuietMove DEF Quiet, ApplyReadReceipts, redis, topics
<1>5. CASE \E p \in Process, k \in Key : AckEntry(p, k)
  <2>1. PICK p \in Process, k \in Key : AckEntry(p, k)
    BY <1>5
  <2>2. PICK v \in Works : Go(p, k, v) /\ (v = Idle \/ v \in Acking)
    BY <2>1, AckEffect DEF TInv
  <2>3. v.pc \notin JobPcs
    BY <1>1, <2>2 DEF Acking, JobPcs
  <2> QED
    BY <2>1, <2>2, <2>3, QuietMove DEF Quiet, AckEntry, redis, mysql, topics
<1>6. CASE \E p \in Process, k \in Key : DropBatch(p, k)
  <2>1. PICK p \in Process, k \in Key : DropBatch(p, k)
    BY <1>6
  <2>2. Go(p, k, Idle)
    BY <2>1 DEF DropBatch
  <2> QED
    BY <1>1, <2>1, <2>2, QuietMove DEF Quiet, DropBatch, redis, mysql, topics
<1>7. CASE \E p \in Process : Crash(p)
  <2>1. PICK p \in Process : Crash(p)
    BY <1>7
  <2>2. work' = [work EXCEPT ![p] = [k \in Key |-> Idle]] /\ work \in [Process -> [Key -> Works]]
    BY <2>1 DEF Crash, TInv, ProcessesOK
  <2>3. \A q \in Process, l \in Key : work'[q][l] = work[q][l] \/ work'[q][l] = Idle
    BY <2>2
  <2>4. \A q \in Process, l \in Key : W(q, l)' = W(q, l) \/ W(q, l)'.pc \notin JobPcs
    BY <1>1, <2>3 DEF W
  <2> QED
    BY <2>1, <2>4 DEF Quiet, Crash, redis, mysql, topics
<1>8. work' = work \/ ~ (\/ \E m \in Msg : ClientSend(m) \/ SendReceipt(m)
                         \/ \E p \in Process : Deliver(p) \/ WriteReadSeq(p)
                         \/ \E p \in Process, e \in toRedis.pending : Claim(p, e)
                         \/ UNCHANGED vars)
  BY DEF ClientSend, SendReceipt, Deliver, WriteReadSeq, Claim, vars
<1> QED
  BY <1>2, <1>3, <1>4, <1>5, <1>6, <1>7, <1>8

LEMMA Appended ==
  ASSUME NEW S, NEW s \in Seq(S), NEW x \in S
  PROVE  /\ \A i \in DOMAIN Append(s, x) : Append(s, x)[i] = x \/ (i \in DOMAIN s /\ Append(s, x)[i] = s[i])
         /\ \A i \in DOMAIN s : i \in DOMAIN Append(s, x) /\ Append(s, x)[i] = s[i]
         /\ x \in ToSet(Append(s, x)) /\ \A y \in ToSet(s) : y \in ToSet(Append(s, x))
         /\ \A y \in ToSet(Append(s, x)) : y = x \/ y \in ToSet(s)
<1>1. Append(s, x) \in Seq(S) /\ DOMAIN Append(s, x) = 1..Len(s) + 1 /\ DOMAIN s = 1..Len(s) /\ Len(s) \in Nat
  OBVIOUS
<1>2. Append(s, x)[Len(s) + 1] = x /\ \A i \in 1..Len(s) : Append(s, x)[i] = s[i]
  BY AppendProperties
<1>3. \A i \in 1..Len(s) + 1 : i = Len(s) + 1 \/ i \in 1..Len(s)
  BY <1>1
<1>4. \A i \in DOMAIN s : i \in 1..Len(s) + 1
  BY <1>1
<1>5. Len(s) + 1 \in 1..Len(s) + 1
  BY <1>1
<1> QED
  BY <1>1, <1>2, <1>3, <1>4, <1>5 DEF ToSet

LEMMA BatchDomain ==
  ASSUME QueueOK(toMySQL, Batches), NEW e \in DOMAIN toMySQL.log, BatchOK(toMySQL.log[e])
  PROVE  /\ DOMAIN toMySQL.log[e].msgs = DOMAIN toMySQL.log[e].seqs /\ toMySQL.log[e].conv \in Conv
         /\ \A i \in DOMAIN toMySQL.log[e].seqs : toMySQL.log[e].seqs[i] \in Nat \ {0} /\ toMySQL.log[e].msgs[i] \in Msg
<1>1. PICK b \in Batches : b = toMySQL.log[e]
  BY QueueFacts
<1>2. PICK msgs \in Seq(Msg), seqs \in Seq(Nat) : msgs = b.msgs /\ seqs = b.seqs
  BY DEF Batches
<1>3. Len(seqs) = Len(msgs) /\ \A i \in DOMAIN seqs : seqs[i] > 0
  BY <1>1, <1>2 DEF BatchOK
<1>4. DOMAIN msgs = DOMAIN seqs /\ \A i \in DOMAIN seqs : seqs[i] \in Nat \ {0} /\ msgs[i] \in Msg
  BY <1>3
<1> QED
  BY <1>1, <1>2, <1>4 DEF Batches

-----------------------------------------------------------------------------
(***************************************************************************)
(* PublishedIsSaved.  max_seq only grows, and a batch gets to its topics   *)
(* only after its own greatest number is in.                               *)
(***************************************************************************)
Saved(w, max) == w.pc \in {"ensure", "mysql", "push"} => \A i \in DOMAIN w.seqs : w.seqs[i] <= max[Head(w.jobs).conv]

SavedInv ==
  /\ \A p \in Process, k \in Key : Saved(W(p, k), savedMax)
  /\ \A e \in DOMAIN toMySQL.log : \A i \in DOMAIN toMySQL.log[e].seqs :
       toMySQL.log[e].seqs[i] <= savedMax[toMySQL.log[e].conv]
  /\ \A i \in DOMAIN toPush : toPush[i].seq <= savedMax[toPush[i].conv]

LEMMA SavedAtStart == Init => SavedInv
BY DEF Init, SavedInv, Saved, W, Idle, EmptyQueue

LEMMA SavedStarted ==
  ASSUME StoresOK, NEW v \in Works, NEW read, WorkOK(v, read), v.pc \notin JobPcs \/ Started(v)
  PROVE  Saved(v, savedMax)
<1> SUFFICES ASSUME v.pc \in {"ensure", "mysql", "push"}, NEW i \in DOMAIN v.seqs
             PROVE  v.seqs[i] <= savedMax[Head(v.jobs).conv]
  BY DEF Saved
<1>1. v.pc \in JobPcs
  BY DEF JobPcs
<1>2. v \in Working
  BY <1>1 DEF Works, Idle, Collected, Acking, JobPcs
<1>3. JobOK(v)
  BY <1>1 DEF WorkOK
<1>4. v.seqs[i] = 0 /\ Head(v.jobs).conv \in Conv
  BY <1>1, <1>2, <1>3, JobFacts DEF Started
<1> QED
  BY <1>4 DEF StoresOK

LEMMA SavedQuiet ==
  ASSUME TInv, TInv', SavedInv, Quiet
  PROVE  SavedInv'
<1>1. ASSUME NEW p \in Process, NEW k \in Key PROVE Saved(W(p, k)', savedMax')
  <2>1. W(p, k)' \in Works /\ WorkOK(W(p, k)', toRedis'.read) /\ savedMax' = savedMax
    BY DEF TInv, ProcessesOK, W, Quiet
  <2>2. Saved(W(p, k), savedMax)
    BY DEF SavedInv
  <2>3. CASE W(p, k)' = W(p, k)
    BY <2>1, <2>2, <2>3
  <2>4. CASE W(p, k)'.pc \notin JobPcs \/ Started(W(p, k)')
    <3>1. PICK v \in Works : v = W(p, k)'
      BY <2>1
    <3>2. Saved(v, savedMax)
      BY <2>1, <2>4, <3>1, SavedStarted DEF TInv
    <3> QED
      BY <2>1, <3>1, <3>2
  <2> QED
    BY <2>3, <2>4 DEF Quiet
<1> QED
  BY <1>1 DEF SavedInv, Quiet

\* max_seq grows; the record that moves stays within it.
LEMMA SavedMove ==
  ASSUME TInv, SavedInv, NEW p \in Process, NEW k \in Key, NEW v \in Works, Go(p, k, v),
         savedMax' \in [Conv -> Nat], \A d \in Conv : savedMax[d] <= savedMax'[d],
         Saved(v, savedMax')
  PROVE  \A q \in Process, l \in Key : Saved(W(q, l)', savedMax')
<1>1. W(p, k)' = v /\ \A q \in Process, l \in Key : q # p \/ l # k => W(q, l)' = W(q, l)
  BY GoFacts DEF TInv, ProcessesOK
<1> SUFFICES ASSUME NEW q \in Process, NEW l \in Key PROVE Saved(W(q, l)', savedMax')
  OBVIOUS
<1>2. CASE q = p /\ l = k
  BY <1>1, <1>2
<1>3. CASE q # p \/ l # k
  <2>1. PICK w \in Works : w = W(q, l) /\ WorkOK(w, toRedis.read) /\ Saved(w, savedMax)
    BY WorkFacts DEF TInv, SavedInv
  <2>2. ASSUME w.pc \in {"ensure", "mysql", "push"}, NEW i \in DOMAIN w.seqs PROVE w.seqs[i] <= savedMax'[Head(w.jobs).conv]
    <3>1. w \in Working /\ JobOK(w)
      BY <2>1, <2>2 DEF Works, Idle, Collected, Acking, JobPcs, WorkOK
    <3>2. PICK c \in Conv, n \in Nat : c = Head(w.jobs).conv /\ n = w.seqs[i]
      BY <2>2, <3>1, JobFacts
    <3>3. n <= savedMax[c] /\ savedMax[c] <= savedMax'[c] /\ savedMax[c] \in Nat /\ savedMax'[c] \in Nat
      BY <2>1, <2>2, <3>2 DEF Saved, TInv, StoresOK
    <3> QED
      BY <3>2, <3>3
  <2>3. Saved(w, savedMax')
    BY <2>2 DEF Saved
  <2> QED
    BY <1>1, <1>3, <2>1, <2>3
<1> QED
  BY <1>2, <1>3

LEMMA SavedTopics ==
  ASSUME TInv, SavedInv, savedMax' \in [Conv -> Nat], \A d \in Conv : savedMax[d] <= savedMax'[d]
  PROVE  /\ \A e \in DOMAIN toMySQL.log : \A i \in DOMAIN toMySQL.log[e].seqs :
              toMySQL.log[e].seqs[i] <= savedMax'[toMySQL.log[e].conv]
         /\ \A i \in DOMAIN toPush : toPush[i].seq <= savedMax'[toPush[i].conv]
<1>1. ASSUME NEW n \in Nat, NEW c \in Conv, n <= savedMax[c] PROVE n <= savedMax'[c]
  <2>1. savedMax[c] \in Nat /\ savedMax'[c] \in Nat /\ savedMax[c] <= savedMax'[c]
    BY DEF TInv, StoresOK
  <2> QED
    BY <1>1, <2>1
<1>2. ASSUME NEW e \in DOMAIN toMySQL.log, NEW i \in DOMAIN toMySQL.log[e].seqs
      PROVE  toMySQL.log[e].seqs[i] <= savedMax'[toMySQL.log[e].conv]
  <2>1. PICK b \in Batches : b = toMySQL.log[e]
    BY QueueFacts DEF TInv, TopicsOK
  <2>2. PICK n \in Nat, c \in Conv : n = b.seqs[i] /\ c = b.conv
    BY <2>1 DEF Batches
  <2>3. n <= savedMax[c]
    BY <2>1, <2>2 DEF SavedInv
  <2> QED
    BY <1>1, <2>1, <2>2, <2>3
<1>3. ASSUME NEW i \in DOMAIN toPush PROVE toPush[i].seq <= savedMax'[toPush[i].conv]
  <2>1. toPush[i] \in Pushes
    BY DEF TInv, TopicsOK
  <2>2. PICK n \in Nat, c \in Conv : n = toPush[i].seq /\ c = toPush[i].conv
    BY <2>1 DEF Pushes
  <2>3. n <= savedMax[c]
    BY <2>2 DEF SavedInv
  <2> QED
    BY <1>1, <2>2, <2>3
<1> QED
  BY <1>2, <1>3

LEMMA SavedStep == TInv /\ TInv' /\ SavedInv /\ [Next]_vars => SavedInv'
<1> SUFFICES ASSUME TInv, TInv', SavedInv, [Next]_vars PROVE SavedInv'
  OBVIOUS
<1>1. savedMax \in [Conv -> Nat] /\ savedMax' \in [Conv -> Nat]
  BY DEF TInv, StoresOK
<1>2. ASSUME savedMax' = savedMax PROVE \A d \in Conv : savedMax[d] <= savedMax'[d]
  BY <1>1, <1>2
<1>3. ASSUME NEW p \in Process, NEW k \in Key, LookupClient(p, k) PROVE SavedInv'
  <2>1. PICK v \in Works : Go(p, k, v) /\ v.pc \in {"lookup", "malloc", "cache"}
    BY <1>3, LookupEffect DEF TInv, Leaves
  <2>2. Saved(v, savedMax')
    BY <2>1 DEF Saved
  <2>3. savedMax' = savedMax /\ toMySQL' = toMySQL /\ toPush' = toPush
    BY <1>3 DEF LookupClient, mysql, topics
  <2> QED
    BY <1>1, <1>2, <2>1, <2>2, <2>3, SavedMove DEF SavedInv
<1>4. ASSUME NEW p \in Process, NEW k \in Key, Reserve(p, k) PROVE SavedInv'
  <2>1. PICK v \in Works : Go(p, k, v) /\ v.pc = "remember"
    BY <1>4, ReserveEffect DEF TInv, Leaves
  <2>2. Saved(v, savedMax')
    BY <2>1 DEF Saved
  <2>3. savedMax' = savedMax /\ toMySQL' = toMySQL /\ toPush' = toPush
    BY <1>4 DEF Reserve, mysql, topics
  <2> QED
    BY <1>1, <1>2, <2>1, <2>2, <2>3, SavedMove DEF SavedInv
<1>5. ASSUME NEW p \in Process, NEW k \in Key, Remember(p, k) PROVE SavedInv'
  <2>1. PICK w, c : w = W(p, k) /\ c = Job(p, k).conv
    OBVIOUS
  <2>2. PICK v \in Works : Go(p, k, v) /\ v.pc \in {"remember", "cache"}
    BY <1>5, <2>1, RememberEffect DEF TInv, Leaves
  <2>3. Saved(v, savedMax')
    BY <2>2 DEF Saved
  <2>4. savedMax' = savedMax /\ toMySQL' = toMySQL /\ toPush' = toPush
    BY <1>5 DEF Remember, mysql, topics
  <2> QED
    BY <1>1, <1>2, <2>2, <2>3, <2>4, SavedMove DEF SavedInv
<1>6. ASSUME NEW p \in Process, NEW k \in Key, FillCache(p, k) PROVE SavedInv'
  <2>1. PICK v \in Works : Go(p, k, v) /\ v.pc = "save"
    BY <1>6, CallEffect DEF TInv, Leaves, FillCache, At, After
  <2>2. Saved(v, savedMax')
    BY <2>1 DEF Saved
  <2>3. savedMax' = savedMax /\ toMySQL' = toMySQL /\ toPush' = toPush
    BY <1>6 DEF FillCache, mysql, topics
  <2> QED
    BY <1>1, <1>2, <2>1, <2>2, <2>3, SavedMove DEF SavedInv
<1>7. ASSUME NEW p \in Process, NEW k \in Key, SaveMax(p, k) PROVE SavedInv'
  <2>1. PICK w : w = W(p, k)
    OBVIOUS
  <2>2. PICK v \in Works : Go(p, k, v) /\ v.jobs = w.jobs /\ v.seqs = w.seqs
    BY <1>7, <2>1, CallEffect DEF TInv, Leaves, SaveMax, At, After, SameJob
  <2>3. /\ \A d \in Conv : savedMax[d] <= savedMax'[d]
        /\ \A i \in DOMAIN w.seqs : w.seqs[i] <= savedMax'[Head(w.jobs).conv]
    BY <1>7, <2>1, SaveMaxEffect DEF TInv
  <2>4. Saved(v, savedMax')
    BY <2>2, <2>3 DEF Saved
  <2>5. toMySQL' = toMySQL /\ toPush' = toPush
    BY <1>7 DEF SaveMax, topics
  <2> QED
    BY <1>1, <2>2, <2>3, <2>4, <2>5, SavedMove, SavedTopics DEF SavedInv
<1>8. ASSUME NEW p \in Process, NEW k \in Key, Ensure(p, k) PROVE SavedInv'
  <2>1. PICK w : w = W(p, k) /\ w.pc = "ensure" /\ Saved(w, savedMax)
    BY <1>8 DEF SavedInv, Ensure, At
  <2>2. PICK v \in Works : Go(p, k, v) /\ v.jobs = w.jobs /\ v.seqs = w.seqs
    BY <1>8, <2>1, CallEffect DEF TInv, Leaves, Ensure, At, After, SameJob
  <2>3. savedMax' = savedMax /\ toMySQL' = toMySQL /\ toPush' = toPush
    BY <1>8 DEF Ensure, mysql, topics
  <2>4. Saved(v, savedMax')
    BY <2>1, <2>2, <2>3 DEF Saved
  <2> QED
    BY <1>1, <1>2, <2>2, <2>3, <2>4, SavedMove DEF SavedInv
<1>9. ASSUME NEW p \in Process, NEW k \in Key, PublishMySQL(p, k) PROVE SavedInv'
  <2>1. PICK w : w = W(p, k) /\ w.pc = "mysql" /\ Saved(w, savedMax)
    BY <1>9 DEF SavedInv, PublishMySQL, At
  <2>2. PICK v \in Works : Go(p, k, v) /\ v.jobs = w.jobs /\ v.seqs = w.seqs
    BY <1>9, <2>1, CallEffect DEF TInv, Leaves, PublishMySQL, At, After, SameJob
  <2>3. savedMax' = savedMax /\ toPush' = toPush
    BY <1>9 DEF PublishMySQL, mysql
  <2>4. Saved(v, savedMax')
    BY <2>1, <2>2, <2>3 DEF Saved
  <2>5. PICK b \in Batches : b.conv = Head(w.jobs).conv /\ b.seqs = w.seqs /\ toMySQL' = Send(toMySQL, b)
    BY <1>9, <2>1, PublishEffect DEF TInv
  <2>6. \A i \in DOMAIN b.seqs : b.seqs[i] <= savedMax[b.conv]
    BY <2>1, <2>5 DEF Saved
  <2>7. /\ DOMAIN toMySQL'.log = DOMAIN toMySQL.log \cup {Len(toMySQL.log) + 1}
        /\ toMySQL'.log[Len(toMySQL.log) + 1] = b
        /\ \A e \in DOMAIN toMySQL.log : toMySQL'.log[e] = toMySQL.log[e]
    BY <2>5, SendFacts DEF TInv, TopicsOK, Grown
  <2>8. \A e \in DOMAIN toMySQL'.log : \A i \in DOMAIN toMySQL'.log[e].seqs :
          toMySQL'.log[e].seqs[i] <= savedMax'[toMySQL'.log[e].conv]
    BY <2>3, <2>6, <2>7 DEF SavedInv
  <2> QED
    BY <1>1, <1>2, <2>2, <2>3, <2>4, <2>8, SavedMove DEF SavedInv
<1>10. ASSUME NEW p \in Process, NEW k \in Key, PublishPush(p, k) PROVE SavedInv'
  <2>1. PICK w : w = W(p, k) /\ w.pc = "push" /\ Saved(w, savedMax)
    BY <1>10 DEF SavedInv, PublishPush, At
  <2>2. savedMax' = savedMax /\ toMySQL' = toMySQL
    BY <1>10 DEF PublishPush, mysql
  <2>3. PICK x \in Pushes : /\ toPush' = Append(toPush, x)
                            /\ x.conv = Head(w.jobs).conv /\ x.seq = w.seqs[w.at] /\ w.at \in DOMAIN w.seqs
    BY <1>10, <2>1, PushEffect DEF TInv
  <2>4. PICK v \in Works : /\ Go(p, k, v) /\ WorkOK(v, toRedis.read)
                           /\ \/ v = Begin(w.batch, Tail(w.jobs)) /\ Tail(w.jobs) \in Seq(JobSet)
                              \/ v.jobs = w.jobs /\ v.seqs = w.seqs
    BY <1>10, <2>1, PushEffect DEF TInv, SameJob
  <2>5. Saved(v, savedMax')
    <3>1. CASE v = Begin(w.batch, Tail(w.jobs)) /\ Tail(w.jobs) \in Seq(JobSet)
      <4>1. w.batch \in Seq(Nat)
        BY <1>10, <2>1, PushEffect DEF TInv
      <4>2. v.pc \notin JobPcs \/ Started(v)
        BY <3>1, <4>1, BeginStarts
      <4> QED
        BY <2>2, <2>4, <4>2, SavedStarted DEF TInv
    <3>2. CASE v.jobs = w.jobs /\ v.seqs = w.seqs
      BY <2>1, <2>2, <3>2 DEF Saved
    <3> QED
      BY <2>4, <3>1, <3>2
  <2>6. x.seq <= savedMax[x.conv]
    BY <2>1, <2>3 DEF Saved
  <2>7. \A i \in DOMAIN toPush' : toPush'[i].seq <= savedMax'[toPush'[i].conv]
    <3>1. PICK s \in Seq(Pushes) : s = toPush
      BY DEF TInv, TopicsOK
    <3>2. \A i \in DOMAIN toPush' : toPush'[i] = x \/ (i \in DOMAIN toPush /\ toPush'[i] = toPush[i])
      BY <2>3, <3>1, Appended
    <3> QED
      BY <2>2, <2>6, <3>2 DEF SavedInv
  <2> QED
    BY <1>1, <1>2, <2>2, <2>4, <2>5, <2>7, SavedMove DEF SavedInv
<1>11. ASSUME NEW e \in DOMAIN toMySQL.log, StoreBatch(e) PROVE SavedInv'
  <2>1. savedMax' = savedMax /\ toPush' = toPush /\ work' = work /\ toMySQL'.log = toMySQL.log
    BY <1>11, StoreEffect DEF StoreBatch, TInv
  <2> QED
    BY <2>1 DEF SavedInv, W
<1>12. CASE Quiet
  BY <1>12, SavedQuiet
<1> QED
  BY <1>3, <1>4, <1>5, <1>6, <1>7, <1>8, <1>9, <1>10, <1>11, <1>12, QuietSteps DEF Next, WorkerStep

LEMMA SavedHolds == Spec => [](TInv /\ SavedInv)
<1>1. Init => TInv /\ SavedInv
  BY TypesAtStart, SavedAtStart
<1>2. TInv /\ SavedInv /\ [Next]_vars => (TInv /\ SavedInv)'
  BY StepKeepsTypes, SavedStep
<1> QED
  BY <1>1, <1>2, PTL DEF Spec

(* Whoever sees a message, in the push service or in MySQL, finds it        *)
(* within the conversation's max_seq: however the batches of several        *)
(* processes interleave, max_seq is raised to the numbers of a batch        *)
(* before any of them is published and never goes back.                     *)
THEOREM TransferPublishedIsSaved == Spec => []PublishedIsSaved
<1>1. TInv /\ SavedInv => PublishedIsSaved
  <2> SUFFICES ASSUME TInv, SavedInv, NEW x \in Copies PROVE x.seq <= savedMax[x.conv]
    BY DEF PublishedIsSaved
  <2>1. CASE \E i \in DOMAIN toPush : x = [conv |-> toPush[i].conv, msg |-> toPush[i].msg, seq |-> toPush[i].seq]
    BY <2>1 DEF SavedInv
  <2>2. CASE \E b \in ToSet(toMySQL.log) : \E i \in DOMAIN b.msgs : x = [conv |-> b.conv, msg |-> b.msgs[i], seq |-> b.seqs[i]]
    <3>1. PICK e \in DOMAIN toMySQL.log : \E i \in DOMAIN toMySQL.log[e].msgs :
            x = [conv |-> toMySQL.log[e].conv, msg |-> toMySQL.log[e].msgs[i], seq |-> toMySQL.log[e].seqs[i]]
      BY <2>2 DEF ToSet
    <3>2. DOMAIN toMySQL.log[e].msgs = DOMAIN toMySQL.log[e].seqs
      BY BatchDomain DEF TInv, TopicsOK
    <3> QED
      BY <3>1, <3>2 DEF SavedInv
  <2> QED
    BY <2>1, <2>2 DEF Copies
<1> QED
  BY <1>1, SavedHolds, PTL

-----------------------------------------------------------------------------
(***************************************************************************)
(* OneMessagePerSeq.  Whatever a number is bound to, a message remembered, *)
(* a batch in some process, a batch or message published or a row, it was  *)
(* reserved once, for one message; every step but Reserve copies bindings. *)
(***************************************************************************)
Bears(w, c, m, n) ==
  /\ w.pc \in JobPcs /\ c = Head(w.jobs).conv
  /\ \E i \in DOMAIN w.seqs : Head(w.jobs).msgs[i] = m /\ w.seqs[i] = n
InBatch(b, c, m, n) == b.conv = c /\ \E i \in DOMAIN b.seqs : b.msgs[i] = m /\ b.seqs[i] = n
IsPush(x, c, m, n) == x.conv = c /\ x.msg = m /\ x.seq = n

Used(c, m, n) ==
  \/ m \in DOMAIN clientSeq[c] /\ clientSeq[c][m] = n
  \/ \E p \in Process, k \in Key : Bears(W(p, k), c, m, n)
  \/ \E e \in DOMAIN toMySQL.log : InBatch(toMySQL.log[e], c, m, n)
  \/ \E i \in DOMAIN toPush : IsPush(toPush[i], c, m, n)
  \/ n \in DOMAIN rows[c] /\ rows[c][n] = m

UseInv ==
  \A c \in Conv : \A m, n : n \in Nat \ {0} /\ Used(c, m, n) =>
    n <= counter[c] /\ \A x : Used(c, x, n) => x = m

LEMMA UseAtStart == Init => UseInv
BY DEF Init, UseInv, Used, Bears, W, Idle, EmptyQueue, JobPcs

\* No new binding, no other counter: nothing to show.
LEMMA UseKept ==
  ASSUME UseInv, counter' = counter,
         \A c \in Conv : \A m, n : n \in Nat \ {0} /\ Used(c, m, n)' => Used(c, m, n)
  PROVE  UseInv'
BY DEF UseInv

LEMMA BearsMove ==
  ASSUME TInv, NEW p \in Process, NEW k \in Key, NEW v \in Works, Go(p, k, v),
         NEW c, NEW m, NEW n, \E q \in Process, l \in Key : Bears(W(q, l)', c, m, n)
  PROVE  Bears(v, c, m, n) \/ \E q \in Process, l \in Key : Bears(W(q, l), c, m, n)
<1>1. W(p, k)' = v /\ \A q \in Process, l \in Key : q # p \/ l # k => W(q, l)' = W(q, l)
  BY GoFacts DEF TInv, ProcessesOK
<1>2. PICK q \in Process, l \in Key : Bears(W(q, l)', c, m, n)
  OBVIOUS
<1>3. CASE q = p /\ l = k
  BY <1>1, <1>2, <1>3
<1>4. CASE q # p \/ l # k
  BY <1>1, <1>2, <1>4
<1> QED
  BY <1>3, <1>4

LEMMA UseQuiet ==
  ASSUME TInv, TInv', UseInv, Quiet
  PROVE  UseInv'
<1>1. ASSUME NEW c \in Conv, NEW m, NEW n \in Nat \ {0}, Used(c, m, n)' PROVE Used(c, m, n)
  <2>1. ASSUME NEW p \in Process, NEW k \in Key, Bears(W(p, k)', c, m, n) PROVE Bears(W(p, k), c, m, n)
    BY <2>1 DEF Quiet, Bears, Started
  <2> QED
    BY <1>1, <2>1 DEF Used, Quiet
<1> QED
  BY <1>1, UseKept DEF Quiet

\* A batch that moves on, its topics and stores left alone.
LEMMA UseCarried ==
  ASSUME TInv, UseInv, NEW p \in Process, NEW k \in Key, NEW v \in Works, Go(p, k, v),
         UNCHANGED <<clientSeq, counter, rows, toMySQL, toPush>>,
         \A c \in Conv : \A m, n : n \in Nat \ {0} /\ Bears(v, c, m, n) => Used(c, m, n)
  PROVE  UseInv'
<1>1. ASSUME NEW c \in Conv, NEW m, NEW n \in Nat \ {0}, Used(c, m, n)' PROVE Used(c, m, n)
  <2>1. CASE \E q \in Process, l \in Key : Bears(W(q, l)', c, m, n)
    <3>1. Bears(v, c, m, n) \/ \E q \in Process, l \in Key : Bears(W(q, l), c, m, n)
      BY <2>1, BearsMove
    <3> QED
      BY <3>1 DEF Used
  <2> QED
    BY <1>1, <2>1 DEF Used
<1> QED
  BY <1>1, UseKept

LEMMA UseReserve ==
  ASSUME TInv, UseInv, NEW p \in Process, NEW k \in Key, Reserve(p, k)
  PROVE  UseInv'
<1>1. PICK w, c : w = W(p, k) /\ c = Job(p, k).conv
  OBVIOUS
<1>2. PICK v :
        /\ Leaves(p, k, w, v) /\ SameJob(v, w) /\ w.pc = "malloc" /\ DOMAIN v.seqs = DOMAIN w.seqs
        /\ c = Head(w.jobs).conv /\ c \in Conv
        /\ counter' \in [Conv -> Nat] /\ counter[c] <= counter'[c]
        /\ \A d \in Conv : d # c => counter'[d] = counter[d]
        /\ \A i \in DOMAIN v.seqs :
             IF i \in ToSet(w.fresh) THEN v.seqs[i] > counter[c] /\ v.seqs[i] <= counter'[c]
             ELSE v.seqs[i] = w.seqs[i]
        /\ \A i, l \in DOMAIN v.seqs :
             i \in ToSet(w.fresh) /\ l \in ToSet(w.fresh) /\ v.seqs[i] = v.seqs[l] => i = l
  BY <1>1, ReserveEffect DEF TInv
<1> DEFINE New(d, m, n) == /\ d = c /\ n > counter[c] /\ n <= counter'[c]
                           /\ \E i \in DOMAIN v.seqs : i \in ToSet(w.fresh) /\ v.seqs[i] = n /\ Head(w.jobs).msgs[i] = m
<1>3. counter \in [Conv -> Nat]
  BY DEF TInv, StoresOK
<1>4. ASSUME NEW d \in Conv, NEW m, NEW n \in Nat \ {0}, Used(d, m, n)' PROVE Used(d, m, n) \/ New(d, m, n)
  <2>1. CASE \E q \in Process, l \in Key : Bears(W(q, l)', d, m, n)
    <3>1. CASE Bears(v, d, m, n)
      <4>1. PICK i \in DOMAIN v.seqs : Head(w.jobs).msgs[i] = m /\ v.seqs[i] = n /\ d = c
        BY <1>2, <3>1 DEF Bears, SameJob
      <4>2. CASE i \in ToSet(w.fresh)
        BY <1>2, <4>1, <4>2
      <4>3. CASE i \notin ToSet(w.fresh)
        <5>1. w.seqs[i] = n /\ i \in DOMAIN w.seqs /\ w.pc \in JobPcs
          BY <1>2, <4>1, <4>3 DEF JobPcs
        <5>2. Bears(w, d, m, n)
          BY <1>2, <4>1, <5>1 DEF Bears
        <5> QED
          BY <1>1, <5>2 DEF Used
      <4> QED
        BY <4>2, <4>3
    <3>2. Bears(v, d, m, n) \/ \E q \in Process, l \in Key : Bears(W(q, l), d, m, n)
      BY <1>2, <2>1, BearsMove DEF Leaves
    <3> QED
      BY <3>1, <3>2 DEF Used
  <2>2. UNCHANGED <<clientSeq, rows, toMySQL, toPush>>
    BY DEF Reserve, mysql, topics
  <2> QED
    BY <1>4, <2>1, <2>2 DEF Used
<1>5. ASSUME NEW d \in Conv, NEW m, NEW n \in Nat \ {0}, Used(d, m, n) PROVE n <= counter[d]
  BY <1>5 DEF UseInv
<1>6. ASSUME NEW d \in Conv, NEW m, NEW x, NEW n \in Nat \ {0}, Used(d, m, n), New(d, x, n) PROVE FALSE
  <2>1. n <= counter[c] /\ n > counter[c] /\ counter[c] \in Nat
    BY <1>2, <1>3, <1>5, <1>6
  <2> QED
    BY <2>1
<1>7. ASSUME NEW d \in Conv, NEW m, NEW x, NEW n \in Nat \ {0}, New(d, m, n), New(d, x, n) PROVE x = m
  BY <1>2, <1>7
<1>8. ASSUME NEW d \in Conv, NEW m, NEW n \in Nat \ {0}, Used(d, m, n)' PROVE n <= counter'[d]
  <2>1. CASE Used(d, m, n)
    <3>1. n <= counter[d] /\ counter[d] \in Nat /\ counter'[d] \in Nat /\ counter[d] <= counter'[d]
      <4>1. counter[d] <= counter'[d]
        BY <1>2, <1>3
      <4> QED
        BY <4>1, <2>1, <1>2, <1>3, <1>5
    <3> QED
      BY <3>1
  <2>2. CASE New(d, m, n)
    BY <2>2
  <2> QED
    BY <1>4, <1>8, <2>1, <2>2
<1> HIDE DEF New
<1>9. ASSUME NEW d \in Conv, NEW m, NEW x, NEW n \in Nat \ {0}, Used(d, m, n)', Used(d, x, n)' PROVE x = m
  <2>1. Used(d, m, n) \/ New(d, m, n)
    BY <1>4, <1>9
  <2>2. Used(d, x, n) \/ New(d, x, n)
    BY <1>4, <1>9
  <2>3. CASE Used(d, m, n) /\ Used(d, x, n)
    BY <2>3 DEF UseInv
  <2> QED
    BY <2>1, <2>2, <2>3, <1>6, <1>7
<1> QED
  BY <1>8, <1>9 DEF UseInv

LEMMA UseStep == TInv /\ TInv' /\ UseInv /\ [Next]_vars => UseInv'
<1> SUFFICES ASSUME TInv, TInv', UseInv, [Next]_vars PROVE UseInv'
  OBVIOUS
<1>1. ASSUME NEW p \in Process, NEW k \in Key, LookupClient(p, k) PROVE UseInv'
  <2>1. PICK w, j : w = W(p, k) /\ j = Job(p, k)
    OBVIOUS
  <2>2. PICK v \in Works : /\ Go(p, k, v) /\ v \in Working /\ SameJob(v, w) /\ w.pc = "lookup" /\ j = Head(w.jobs)
                /\ DOMAIN v.seqs = DOMAIN w.seqs
                /\ \A i \in DOMAIN v.seqs :
                     \/ v.seqs[i] = w.seqs[i] \/ v.seqs[i] = 0
                     \/ j.msgs[i] \in DOMAIN clientSeq[j.conv] /\ v.seqs[i] = clientSeq[j.conv][j.msgs[i]]
    BY <1>1, <2>1, LookupEffect DEF TInv, Leaves
  <2>3. ASSUME NEW c \in Conv, NEW m, NEW n \in Nat \ {0}, Bears(v, c, m, n) PROVE Used(c, m, n)
    <3>1. PICK i \in DOMAIN v.seqs : j.msgs[i] = m /\ v.seqs[i] = n /\ c = j.conv
      BY <2>2, <2>3 DEF Bears, SameJob
    <3>2. CASE v.seqs[i] = w.seqs[i]
      <4>1. Bears(w, c, m, n)
        BY <2>2, <3>1, <3>2 DEF Bears, JobPcs
      <4> QED
        BY <2>1, <4>1 DEF Used
    <3>3. CASE j.msgs[i] \in DOMAIN clientSeq[j.conv] /\ v.seqs[i] = clientSeq[j.conv][j.msgs[i]]
      BY <3>1, <3>3 DEF Used
    <3> QED
      BY <2>2, <3>1, <3>2, <3>3
  <2>4. UNCHANGED <<clientSeq, counter, rows, toMySQL, toPush>>
    BY <1>1 DEF LookupClient, redis, mysql, topics
  <2> QED
    BY <2>2, <2>3, <2>4, UseCarried
<1>2. ASSUME NEW p \in Process, NEW k \in Key, Reserve(p, k) PROVE UseInv'
  BY <1>2, UseReserve
<1>3. ASSUME NEW p \in Process, NEW k \in Key, Remember(p, k) PROVE UseInv'
  <2>1. PICK w, c : w = W(p, k) /\ c = Job(p, k).conv
    OBVIOUS
  <2>2. PICK v \in Works, i \in DOMAIN w.seqs, m \in Msg :
          /\ Go(p, k, v) /\ SameJob(v, w) /\ w.pc = "remember"
          /\ v.seqs = w.seqs /\ c = Head(w.jobs).conv /\ m = Head(w.jobs).msgs[i]
          /\ Remembered(c, m, w.seqs[i])
    BY <1>3, <2>1, RememberEffect DEF TInv, Leaves
  <2>3. w.pc \in JobPcs
    BY <2>2 DEF JobPcs
  <2>4. Bears(w, c, m, w.seqs[i])
    BY <2>2, <2>3 DEF Bears
  <2>5. ASSUME NEW d \in Conv, NEW x, NEW n \in Nat \ {0}, Used(d, x, n)' PROVE Used(d, x, n)
    <3>1. UNCHANGED <<rows, toMySQL, toPush>>
      BY <1>3 DEF Remember, mysql, topics
    <3>2. CASE x \in DOMAIN clientSeq'[d] /\ clientSeq'[d][x] = n
      <4>1. CASE d = c /\ x = m
        <5>1. n = w.seqs[i]
          BY <2>2, <3>2, <4>1 DEF Remembered
        <5> QED
          BY <2>1, <2>4, <4>1, <5>1 DEF Used
      <4>2. CASE d # c \/ x # m
        BY <2>2, <3>2, <4>2 DEF Remembered, Used
      <4> QED
        BY <4>1, <4>2
    <3>3. CASE \E q \in Process, l \in Key : Bears(W(q, l)', d, x, n)
      <4>1. Bears(v, d, x, n) => Bears(w, d, x, n)
        BY <2>2, <2>3 DEF Bears, SameJob
      <4>2. Bears(v, d, x, n) \/ \E q \in Process, l \in Key : Bears(W(q, l), d, x, n)
        BY <2>2, <3>3, BearsMove
      <4> QED
        BY <2>1, <4>1, <4>2 DEF Used
    <3> QED
      BY <2>5, <3>1, <3>2, <3>3 DEF Used
  <2>6. counter' = counter
    BY <1>3 DEF Remember
  <2> QED
    BY <2>5, <2>6, UseKept
<1>4. ASSUME NEW p \in Process, NEW k \in Key, FillCache(p, k) \/ SaveMax(p, k) \/ Ensure(p, k) PROVE UseInv'
  <2>1. PICK w : w = W(p, k)
    OBVIOUS
  <2>2. w.pc \in {"cache", "save", "ensure"} /\ Go(p, k, [w EXCEPT !.pc = After(w.pc)])
    BY <1>4, <2>1 DEF FillCache, SaveMax, Ensure, At, After
  <2>3. PICK v \in Works : Go(p, k, v) /\ SameJob(v, w) /\ v.seqs = w.seqs
    BY <2>1, <2>2, CallEffect DEF TInv, Leaves
  <2>4. ASSUME NEW c \in Conv, NEW m, NEW n \in Nat \ {0}, Bears(v, c, m, n) PROVE Used(c, m, n)
    <3>1. Bears(w, c, m, n)
      BY <2>2, <2>3, <2>4 DEF Bears, SameJob, JobPcs
    <3> QED
      BY <2>1, <3>1 DEF Used
  <2>5. UNCHANGED <<clientSeq, counter, rows, toMySQL, toPush>>
    BY <1>4 DEF FillCache, SaveMax, Ensure, redis, mysql, topics
  <2> QED
    BY <2>3, <2>4, <2>5, UseCarried
<1>5. ASSUME NEW p \in Process, NEW k \in Key, PublishMySQL(p, k) PROVE UseInv'
  <2>1. PICK w : w = W(p, k)
    OBVIOUS
  <2>2. w.pc = "mysql" /\ w.pc \in JobPcs /\ Go(p, k, [w EXCEPT !.pc = "push"])
    BY <1>5, <2>1 DEF PublishMySQL, At, JobPcs
  <2>3. PICK v \in Works : Go(p, k, v) /\ SameJob(v, w) /\ v.seqs = w.seqs
    BY <2>1, <2>2, CallEffect DEF TInv, Leaves, After
  <2>4. PICK b \in Batches : /\ b.conv = Head(w.jobs).conv /\ b.msgs = Head(w.jobs).msgs /\ b.seqs = w.seqs
                             /\ toMySQL' = Send(toMySQL, b)
    BY <1>5, <2>1, PublishEffect DEF TInv
  <2>5. \A e \in DOMAIN toMySQL'.log : toMySQL'.log[e] = b \/ (e \in DOMAIN toMySQL.log /\ toMySQL'.log[e] = toMySQL.log[e])
    BY <2>4, SendFacts DEF TInv, TopicsOK, Grown
  <2>6. ASSUME NEW c \in Conv, NEW m, NEW n \in Nat \ {0}, Used(c, m, n)' PROVE Used(c, m, n)
    <3>1. UNCHANGED <<clientSeq, rows, toPush>>
      BY <1>5 DEF PublishMySQL, redis, mysql
    <3>2. Bears(w, c, m, n) => Used(c, m, n)
      BY <2>1 DEF Used
    <3>3. CASE \E e \in DOMAIN toMySQL'.log : InBatch(toMySQL'.log[e], c, m, n)
      <4>1. InBatch(b, c, m, n) => Bears(w, c, m, n)
        BY <2>2, <2>4 DEF InBatch, Bears
      <4> QED
        BY <2>5, <3>2, <3>3, <4>1 DEF Used
    <3>4. CASE \E q \in Process, l \in Key : Bears(W(q, l)', c, m, n)
      <4>1. Bears(v, c, m, n) => Bears(w, c, m, n)
        BY <2>2, <2>3 DEF Bears, SameJob
      <4>2. Bears(v, c, m, n) \/ \E q \in Process, l \in Key : Bears(W(q, l), c, m, n)
        BY <2>3, <3>4, BearsMove
      <4> QED
        BY <3>2, <4>1, <4>2 DEF Used
    <3> QED
      BY <2>6, <3>1, <3>3, <3>4 DEF Used
  <2>7. counter' = counter
    BY <1>5 DEF PublishMySQL, redis
  <2> QED
    BY <2>6, <2>7, UseKept
<1>6. ASSUME NEW p \in Process, NEW k \in Key, PublishPush(p, k) PROVE UseInv'
  <2>1. PICK w : w = W(p, k)
    OBVIOUS
  <2>2. w.pc \in JobPcs /\ w.at \in DOMAIN w.seqs /\ w.batch \in Seq(Nat)
    BY <1>6, <2>1, PushEffect DEF TInv, JobPcs
  <2>3. PICK x \in Pushes : /\ toPush' = Append(toPush, x)
                            /\ x.conv = Head(w.jobs).conv /\ x.msg = Head(w.jobs).msgs[w.at] /\ x.seq = w.seqs[w.at]
    BY <1>6, <2>1, PushEffect DEF TInv
  <2>4. PICK v \in Works : /\ Go(p, k, v)
                           /\ \/ v = Begin(w.batch, Tail(w.jobs)) /\ Tail(w.jobs) \in Seq(JobSet)
                              \/ v.jobs = w.jobs /\ v.seqs = w.seqs
    BY <1>6, <2>1, PushEffect DEF TInv, SameJob
  <2>5. \A i \in DOMAIN toPush' : toPush'[i] = x \/ (i \in DOMAIN toPush /\ toPush'[i] = toPush[i])
    BY <2>3, Appended DEF TInv, TopicsOK
  <2>6. ASSUME NEW c \in Conv, NEW m, NEW n \in Nat \ {0}, Used(c, m, n)' PROVE Used(c, m, n)
    <3>1. UNCHANGED <<clientSeq, rows, toMySQL>>
      BY <1>6 DEF PublishPush, redis, mysql
    <3>2. Bears(w, c, m, n) => Used(c, m, n)
      BY <2>1 DEF Used
    <3>3. CASE \E i \in DOMAIN toPush' : IsPush(toPush'[i], c, m, n)
      <4>1. IsPush(x, c, m, n) => Bears(w, c, m, n)
        BY <2>2, <2>3 DEF IsPush, Bears
      <4> QED
        BY <2>5, <3>2, <3>3, <4>1 DEF Used
    <3>4. CASE \E q \in Process, l \in Key : Bears(W(q, l)', c, m, n)
      <4>1. Bears(v, c, m, n) => Bears(w, c, m, n)
        <5>1. CASE v = Begin(w.batch, Tail(w.jobs)) /\ Tail(w.jobs) \in Seq(JobSet)
          <6>1. v.pc \notin JobPcs \/ Started(v)
            BY <2>2, <5>1, BeginStarts
          <6> QED
            BY <6>1 DEF Bears, Started
        <5>2. CASE v.jobs = w.jobs /\ v.seqs = w.seqs
          BY <2>2, <5>2 DEF Bears
        <5> QED
          BY <2>4, <5>1, <5>2
      <4>2. Bears(v, c, m, n) \/ \E q \in Process, l \in Key : Bears(W(q, l), c, m, n)
        BY <2>4, <3>4, BearsMove
      <4> QED
        BY <3>2, <4>1, <4>2 DEF Used
    <3> QED
      BY <2>6, <3>1, <3>3, <3>4 DEF Used
  <2>7. counter' = counter
    BY <1>6 DEF PublishPush, redis
  <2> QED
    BY <2>6, <2>7, UseKept
<1>7. ASSUME NEW e \in DOMAIN toMySQL.log, StoreBatch(e) PROVE UseInv'
  <2>1. PICK b \in Batches : b = toMySQL.log[e] /\ BatchOK(b)
    BY <1>7, StoreEffect DEF TInv
  <2>2. toMySQL'.log = toMySQL.log /\ (rows' = rows \/ rows' = [rows EXCEPT ![b.conv] = InsertMessages(b)])
    BY <1>7, <2>1, StoreEffect DEF TInv
  <2>3. UNCHANGED <<clientSeq, counter, work, toPush>>
    BY <1>7 DEF StoreBatch, redis
  <2>4. ASSUME NEW c \in Conv, NEW m, NEW n \in Nat \ {0}, n \in DOMAIN rows'[c], rows'[c][n] = m PROVE Used(c, m, n)
    <3>1. CASE rows' = rows
      BY <2>4, <3>1 DEF Used
    <3>2. CASE rows' = [rows EXCEPT ![b.conv] = InsertMessages(b)]
      <4>1. /\ \A d \in Conv : d # b.conv => rows'[d] = rows[d]
            /\ \A x \in DOMAIN rows[b.conv] : rows'[b.conv][x] = rows[b.conv][x]
            /\ \A x \in DOMAIN rows'[b.conv] :
                 x \in DOMAIN rows[b.conv] \/ \E i \in DOMAIN b.seqs : x = b.seqs[i] /\ rows'[b.conv][x] = b.msgs[i]
        BY <2>1, <3>2, InsertFacts DEF TInv
      <4>2. CASE c = b.conv /\ n \notin DOMAIN rows[c]
        <5>1. InBatch(b, c, m, n)
          BY <2>4, <4>1, <4>2 DEF InBatch
        <5> QED
          BY <2>1, <5>1 DEF Used
      <4>3. CASE c # b.conv \/ n \in DOMAIN rows[c]
        BY <2>4, <4>1, <4>3 DEF Used
      <4> QED
        BY <4>2, <4>3
    <3> QED
      BY <2>2, <3>1, <3>2
  <2>5. ASSUME NEW c \in Conv, NEW m, NEW n \in Nat \ {0}, Used(c, m, n)' PROVE Used(c, m, n)
    BY <2>2, <2>3, <2>4, <2>5 DEF Used, W
  <2> QED
    BY <2>3, <2>5, UseKept
<1>8. CASE Quiet
  BY <1>8, UseQuiet
<1> QED
  BY <1>1, <1>2, <1>3, <1>4, <1>5, <1>6, <1>7, <1>8, QuietSteps DEF Next, WorkerStep

LEMMA UsesHold == Spec => [](TInv /\ UseInv)
<1>1. Init => TInv /\ UseInv
  BY TypesAtStart, UseAtStart
<1>2. TInv /\ UseInv /\ [Next]_vars => (TInv /\ UseInv)'
  BY StepKeepsTypes, UseStep
<1> QED
  BY <1>1, <1>2, PTL DEF Spec

(* A number of a conversation names one message: whatever is retried,       *)
(* claimed by another process, done twice at once or lost to a crash, no    *)
(* two messages are published under the same number.                        *)
THEOREM TransferOneMessagePerSeq == Spec => []OneMessagePerSeq
<1>1. TInv /\ UseInv => OneMessagePerSeq
  <2> SUFFICES ASSUME TInv, UseInv, NEW x \in Copies, NEW y \in Copies, x.conv = y.conv, x.seq = y.seq, x.seq > 0
               PROVE  x.msg = y.msg
    BY DEF OneMessagePerSeq
  <2>1. ASSUME NEW z \in Copies PROVE z.conv \in Conv /\ z.seq \in Nat /\ Used(z.conv, z.msg, z.seq)
    <3>1. CASE \E i \in DOMAIN toPush : z = [conv |-> toPush[i].conv, msg |-> toPush[i].msg, seq |-> toPush[i].seq]
      <4>1. PICK i \in DOMAIN toPush : z = [conv |-> toPush[i].conv, msg |-> toPush[i].msg, seq |-> toPush[i].seq]
        BY <3>1
      <4>2. toPush[i] \in Pushes
        BY DEF TInv, TopicsOK
      <4>3. z.conv = toPush[i].conv /\ z.msg = toPush[i].msg /\ z.seq = toPush[i].seq
        BY <4>1
      <4> QED
        BY <4>2, <4>3 DEF Pushes, Used, IsPush
    <3>2. CASE \E b \in ToSet(toMySQL.log) : \E i \in DOMAIN b.msgs : z = [conv |-> b.conv, msg |-> b.msgs[i], seq |-> b.seqs[i]]
      <4>1. PICK e \in DOMAIN toMySQL.log : \E i \in DOMAIN toMySQL.log[e].msgs :
              z = [conv |-> toMySQL.log[e].conv, msg |-> toMySQL.log[e].msgs[i], seq |-> toMySQL.log[e].seqs[i]]
        BY <3>2 DEF ToSet
      <4>2. PICK i \in DOMAIN toMySQL.log[e].msgs :
              z = [conv |-> toMySQL.log[e].conv, msg |-> toMySQL.log[e].msgs[i], seq |-> toMySQL.log[e].seqs[i]]
        BY <4>1
      <4>3. z.conv = toMySQL.log[e].conv /\ z.msg = toMySQL.log[e].msgs[i] /\ z.seq = toMySQL.log[e].seqs[i]
        BY <4>2
      <4>4. /\ DOMAIN toMySQL.log[e].msgs = DOMAIN toMySQL.log[e].seqs /\ toMySQL.log[e].conv \in Conv
            /\ toMySQL.log[e].seqs[i] \in Nat
        BY BatchDomain DEF TInv, TopicsOK
      <4> QED
        BY <4>3, <4>4 DEF Used, InBatch
    <3> QED
      BY <3>1, <3>2 DEF Copies
  <2>2. x.conv \in Conv /\ x.seq \in Nat \ {0} /\ Used(x.conv, x.msg, x.seq) /\ Used(x.conv, y.msg, x.seq)
    BY <2>1
  <2> QED
    BY <2>2 DEF UseInv
<1> QED
  BY <1>1, UsesHold, PTL

-----------------------------------------------------------------------------
(***************************************************************************)
(* AckedIsPublished and PushedIsStored.  What a message is owed is either  *)
(* published or still ahead of the batch that holds its entry; a batch is  *)
(* on its way to MySQL before its messages go to the push service.         *)
(* entries, batches and pushes are the logs of the three topics.           *)
(***************************************************************************)
Published(m, j, batches, pushes) ==
  /\ \E x \in ToSet(pushes) : x.conv = j.conv /\ x.msg = m
  /\ j.store => \E e \in DOMAIN batches : batches[e].conv = j.conv /\ m \in ToSet(batches[e].msgs)

\* Some job of w still has m ahead of it, or in hand.
Left(w, m, j) ==
  \E r \in DOMAIN w.jobs :
    /\ w.jobs[r].conv = j.conv /\ w.jobs[r].store = j.store
    /\ \E i \in DOMAIN w.jobs[r].msgs : w.jobs[r].msgs[i] = m /\ (w.pc = "push" /\ r = 1 => i >= w.at)

HasBatch(w, batches) ==
  w.pc = "push" /\ Head(w.jobs).store => \E e \in DOMAIN batches :
    batches[e].conv = Head(w.jobs).conv /\ batches[e].msgs = Head(w.jobs).msgs /\ batches[e].seqs = w.seqs

Does(w, entries, batches, pushes) ==
  /\ w.pc \in JobPcs => \A b \in DOMAIN w.batch : \A j \in Owed[entries[w.batch[b]]] :
       Published(entries[w.batch[b]], j, batches, pushes) \/ Left(w, entries[w.batch[b]], j)
  /\ w.pc = "ack" => \A b \in DOMAIN w.batch : \A j \in Owed[entries[w.batch[b]]] :
       Published(entries[w.batch[b]], j, batches, pushes)
  /\ HasBatch(w, batches)

Backed(x, batches) == x.seq > 0 => \E e \in DOMAIN batches : InBatch(batches[e], x.conv, x.msg, x.seq)

PubInv ==
  /\ \A p \in Process, k \in Key : Does(W(p, k), toRedis.log, toMySQL.log, toPush)
  /\ \A e \in Acked(toRedis) : \A j \in Owed[toRedis.log[e]] : Published(toRedis.log[e], j, toMySQL.log, toPush)
  /\ \A i \in DOMAIN toPush : Backed(toPush[i], toMySQL.log)
  /\ \A e \in Acked(toMySQL) : \A i \in DOMAIN toMySQL.log[e].seqs :
       toMySQL.log[e].seqs[i] \in DOMAIN rows[toMySQL.log[e].conv]

LEMMA PubAtStart == Init => PubInv
BY DEF Init, PubInv, Does, HasBatch, W, Idle, EmptyQueue, JobPcs, Acked

\* What is in a topic stays there, at its place.
Kept(log, more) == \A e \in DOMAIN log : e \in DOMAIN more /\ more[e] = log[e]
Grows == Kept(toRedis.log, toRedis'.log) /\ Kept(toMySQL.log, toMySQL'.log) /\ Kept(toPush, toPush')

LEMMA StepGrows == TInv /\ [Next]_vars => Grows
<1> SUFFICES ASSUME TInv, [Next]_vars PROVE Grows
  OBVIOUS
<1>1. QueueOK(toRedis, Msg) /\ QueueOK(toMySQL, Batches) /\ toPush \in Seq(Pushes)
  BY DEF TInv, TopicsOK
<1>2. \A l : Kept(l, l)
  BY DEF Kept
<1>3. ASSUME NEW m \in Msg, ClientSend(m) \/ SendReceipt(m) PROVE Grows
  <2>1. toRedis' = Send(toRedis, m) /\ toMySQL' = toMySQL /\ toPush' = toPush
    BY <1>3 DEF ClientSend, SendReceipt, topics
  <2>2. Kept(toRedis.log, toRedis'.log)
    BY <1>1, <2>1, SendFacts DEF Grown, Kept
  <2> QED
    BY <1>2, <2>1, <2>2 DEF Grows
<1>4. ASSUME NEW p \in Process, Deliver(p) PROVE Grows
  <2>1. toRedis'.log = toRedis.log /\ toMySQL' = toMySQL /\ toPush' = toPush
    BY <1>1, <1>4, ReadFacts DEF Deliver, topics
  <2> QED
    BY <1>2, <2>1 DEF Grows
<1>5. ASSUME NEW p \in Process, NEW k \in Key, AckEntry(p, k) PROVE Grows
  <2>1. PICK w : w = W(p, k)
    OBVIOUS
  <2>2. w.batch[w.at] \in 1..toRedis.read /\ toRedis' = Ack(toRedis, w.batch[w.at])
    BY <1>5, <2>1, AckEffect DEF TInv, WorkOK
  <2>3. toRedis'.log = toRedis.log /\ toMySQL' = toMySQL /\ toPush' = toPush
    BY <1>1, <1>5, <2>2, AckFacts DEF AckEntry, topics
  <2> QED
    BY <1>2, <2>3 DEF Grows
<1>6. ASSUME NEW p \in Process, NEW k \in Key, PublishMySQL(p, k) PROVE Grows
  <2>1. PICK w : w = W(p, k)
    OBVIOUS
  <2>2. PICK b \in Batches : toMySQL' = Send(toMySQL, b)
    BY <1>6, <2>1, PublishEffect DEF TInv
  <2>3. toRedis' = toRedis /\ toPush' = toPush
    BY <1>6 DEF PublishMySQL
  <2>4. Kept(toMySQL.log, toMySQL'.log)
    BY <1>1, <2>2, SendFacts DEF Grown, Kept
  <2> QED
    BY <1>2, <2>3, <2>4 DEF Grows
<1>7. ASSUME NEW p \in Process, NEW k \in Key, PublishPush(p, k) PROVE Grows
  <2>1. PICK w : w = W(p, k)
    OBVIOUS
  <2>2. PICK x \in Pushes : toPush' = Append(toPush, x)
    BY <1>7, <2>1, PushEffect DEF TInv
  <2>3. toRedis' = toRedis /\ toMySQL' = toMySQL
    BY <1>7 DEF PublishPush
  <2>4. Kept(toPush, toPush')
    BY <1>1, <2>2, Appended DEF Kept
  <2> QED
    BY <1>2, <2>3, <2>4 DEF Grows
<1>8. ASSUME NEW e \in DOMAIN toMySQL.log, StoreBatch(e) PROVE Grows
  <2>1. toMySQL'.log = toMySQL.log
    BY <1>8, StoreEffect DEF TInv
  <2>2. toRedis' = toRedis /\ toPush' = toPush
    BY <1>8 DEF StoreBatch
  <2> QED
    BY <1>2, <2>1, <2>2 DEF Grows
<1>9. CASE UNCHANGED <<toRedis, toMySQL, toPush>>
  BY <1>2, <1>9 DEF Grows
<1>10. ASSUME NEW p \in Process, NEW e, Claim(p, e) PROVE UNCHANGED <<toRedis, toMySQL, toPush>>
  BY <1>10 DEF Claim, topics
<1>11. ASSUME NEW p \in Process, NEW k \in Key, Flush(p, k) \/ ApplyReadReceipts(p, k) \/ LookupClient(p, k)
       PROVE  UNCHANGED <<toRedis, toMySQL, toPush>>
  BY <1>11 DEF Flush, ApplyReadReceipts, LookupClient, topics
<1>12. ASSUME NEW p \in Process, NEW k \in Key, Reserve(p, k) \/ Remember(p, k) \/ FillCache(p, k)
       PROVE  UNCHANGED <<toRedis, toMySQL, toPush>>
  BY <1>12 DEF Reserve, Remember, FillCache, topics
<1>13. ASSUME NEW p \in Process, NEW k \in Key, SaveMax(p, k) \/ Ensure(p, k) \/ DropBatch(p, k)
       PROVE  UNCHANGED <<toRedis, toMySQL, toPush>>
  BY <1>13 DEF SaveMax, Ensure, DropBatch, topics
<1>14. ASSUME NEW p \in Process, Crash(p) \/ WriteReadSeq(p) PROVE UNCHANGED <<toRedis, toMySQL, toPush>>
  BY <1>14 DEF Crash, WriteReadSeq, topics
<1>15. CASE UNCHANGED vars
  BY <1>9, <1>15 DEF vars, topics
<1> QED
  BY <1>3, <1>4, <1>5, <1>6, <1>7, <1>8, <1>9, <1>10, <1>11, <1>12, <1>13, <1>14, <1>15 DEF Next, WorkerStep

LEMMA KeptMembers == ASSUME NEW s, NEW t, Kept(s, t), NEW x \in ToSet(s) PROVE x \in ToSet(t)
BY DEF Kept, ToSet

LEMMA PublishedKept ==
  ASSUME NEW m, NEW j, NEW batches, NEW more, Kept(batches, more), NEW pushes, NEW further, Kept(pushes, further),
         Published(m, j, batches, pushes)
  PROVE  Published(m, j, more, further)
<1>1. \E x \in ToSet(further) : x.conv = j.conv /\ x.msg = m
  BY KeptMembers DEF Published
<1>2. ASSUME j.store PROVE \E e \in DOMAIN more : more[e].conv = j.conv /\ m \in ToSet(more[e].msgs)
  BY <1>2 DEF Published, Kept
<1> QED
  BY <1>1, <1>2 DEF Published

LEMMA DoesKept ==
  ASSUME NEW w, NEW entries, NEW later, NEW read \in Nat, \A e \in 1..read : later[e] = entries[e],
         w.pc # "idle" => \A b \in DOMAIN w.batch : w.batch[b] \in 1..read,
         NEW batches, NEW more, Kept(batches, more), NEW pushes, NEW further, Kept(pushes, further),
         Does(w, entries, batches, pushes)
  PROVE  Does(w, later, more, further)
<1>1. ASSUME w.pc # "idle", NEW b \in DOMAIN w.batch PROVE later[w.batch[b]] = entries[w.batch[b]]
  BY <1>1
<1>2. ASSUME w.pc \in JobPcs, NEW b \in DOMAIN w.batch, NEW j \in Owed[later[w.batch[b]]]
      PROVE  Published(later[w.batch[b]], j, more, further) \/ Left(w, later[w.batch[b]], j)
  <2>1. later[w.batch[b]] = entries[w.batch[b]]
    BY <1>1, <1>2 DEF JobPcs
  <2>2. PICK m : m = entries[w.batch[b]]
    OBVIOUS
  <2>3. Published(m, j, batches, pushes) \/ Left(w, m, j)
    BY <1>2, <2>1, <2>2 DEF Does
  <2> QED
    BY <2>1, <2>2, <2>3, PublishedKept
<1>3. ASSUME w.pc = "ack", NEW b \in DOMAIN w.batch, NEW j \in Owed[later[w.batch[b]]]
      PROVE  Published(later[w.batch[b]], j, more, further)
  <2>1. later[w.batch[b]] = entries[w.batch[b]]
    BY <1>1, <1>3
  <2>2. PICK m : m = entries[w.batch[b]]
    OBVIOUS
  <2>3. Published(m, j, batches, pushes)
    BY <1>3, <2>1, <2>2 DEF Does
  <2> QED
    BY <2>1, <2>2, <2>3, PublishedKept
<1>4. HasBatch(w, more)
  BY DEF Does, HasBatch, Kept
<1> QED
  BY <1>2, <1>3, <1>4 DEF Does

LEMMA DoesStays ==
  ASSUME TInv, PubInv, Grows, NEW q \in Process, NEW l \in Key
  PROVE  Does(W(q, l), toRedis'.log, toMySQL'.log, toPush')
<1>1. PICK w \in Works : w = W(q, l) /\ WorkOK(w, toRedis.read) /\ Does(w, toRedis.log, toMySQL.log, toPush)
  BY WorkFacts DEF TInv, PubInv
<1>2. toRedis.read \in Nat /\ \A e \in 1..toRedis.read : toRedis'.log[e] = toRedis.log[e]
  <2>1. toRedis.read \in Nat /\ toRedis.read <= Len(toRedis.log) /\ Len(toRedis.log) \in Nat
        /\ DOMAIN toRedis.log = 1..Len(toRedis.log)
    BY QueueFacts DEF TInv, TopicsOK, QueueOK
  <2>2. \A e \in 1..toRedis.read : e \in DOMAIN toRedis.log
    BY <2>1
  <2> QED
    BY <2>1, <2>2 DEF Grows, Kept
<1>3. w.pc # "idle" => \A b \in DOMAIN w.batch : w.batch[b] \in 1..toRedis.read
  BY <1>1 DEF WorkOK
<1>4. Does(w, toRedis.log, toMySQL.log, toPush) /\ Kept(toMySQL.log, toMySQL'.log) /\ Kept(toPush, toPush')
  BY <1>1 DEF Grows
<1>5. Does(w, toRedis'.log, toMySQL'.log, toPush')
  BY <1>2, <1>3, <1>4, DoesKept
<1> QED
  BY <1>1, <1>5

LEMMA DoesMove ==
  ASSUME TInv, PubInv, Grows, NEW p \in Process, NEW k \in Key, NEW v \in Works, Go(p, k, v),
         Does(v, toRedis'.log, toMySQL'.log, toPush')
  PROVE  \A q \in Process, l \in Key : Does(W(q, l)', toRedis'.log, toMySQL'.log, toPush')
<1>1. W(p, k)' = v /\ \A q \in Process, l \in Key : q # p \/ l # k => W(q, l)' = W(q, l)
  BY GoFacts DEF TInv, ProcessesOK
<1> SUFFICES ASSUME NEW q \in Process, NEW l \in Key PROVE Does(W(q, l)', toRedis'.log, toMySQL'.log, toPush')
  OBVIOUS
<1>2. CASE q = p /\ l = k
  BY <1>1, <1>2
<1>3. CASE q # p \/ l # k
  <2>1. W(q, l)' = W(q, l)
    BY <1>1, <1>3
  <2>2. Does(W(q, l), toRedis'.log, toMySQL'.log, toPush')
    BY DoesStays
  <2> QED
    BY <2>1, <2>2
<1> QED
  BY <1>2, <1>3

\* What was acknowledged, pushed or stored keeps what was promised for it.
LEMMA PromisesKept ==
  ASSUME TInv, PubInv, Grows
  PROVE  /\ \A e \in Acked(toRedis) : \A j \in Owed[toRedis'.log[e]] :
              Published(toRedis'.log[e], j, toMySQL'.log, toPush')
         /\ \A i \in DOMAIN toPush : Backed(toPush[i], toMySQL'.log)
<1>1. ASSUME NEW e \in Acked(toRedis), NEW j \in Owed[toRedis'.log[e]]
      PROVE  Published(toRedis'.log[e], j, toMySQL'.log, toPush')
  <2>1. toRedis'.log[e] = toRedis.log[e]
    BY QueueFacts DEF TInv, TopicsOK, Grows, Kept
  <2>2. PICK m : m = toRedis.log[e]
    OBVIOUS
  <2>3. Published(m, j, toMySQL.log, toPush)
    BY <1>1, <2>1, <2>2 DEF PubInv
  <2> QED
    BY <2>1, <2>2, <2>3, PublishedKept DEF Grows
<1>2. ASSUME NEW i \in DOMAIN toPush PROVE Backed(toPush[i], toMySQL'.log)
  <2>1. Backed(toPush[i], toMySQL.log)
    BY DEF PubInv
  <2> QED
    BY <2>1 DEF Backed, Grows, Kept
<1> QED
  BY <1>1, <1>2

LEMMA PubQuiet ==
  ASSUME TInv, PubInv, Grows, Acked(toRedis') = Acked(toRedis), UNCHANGED <<toMySQL, toPush, rows>>,
         \A q \in Process, l \in Key : W(q, l)' = W(q, l) \/ W(q, l)'.pc \in {"idle", "receipts"}
  PROVE  PubInv'
<1>1. ASSUME NEW q \in Process, NEW l \in Key PROVE Does(W(q, l)', toRedis'.log, toMySQL'.log, toPush')
  <2>1. PICK v : v = W(q, l)'
    OBVIOUS
  <2>2. CASE v.pc \in {"idle", "receipts"}
    BY <2>1, <2>2 DEF Does, HasBatch, JobPcs
  <2>3. CASE v = W(q, l)
    BY <2>1, <2>3, DoesStays
  <2> QED
    BY <2>1, <2>2, <2>3
<1> QED
  BY <1>1, PromisesKept DEF PubInv

LEMMA PubWork ==
  ASSUME TInv, PubInv, NEW p \in Process, NEW k \in Key, NEW v \in Works, Go(p, k, v),
         Does(v, toRedis.log, toMySQL.log, toPush), UNCHANGED <<toRedis, toMySQL, toPush, rows>>
  PROVE  PubInv'
<1>1. Grows
  BY DEF Grows, Kept
<1>2. \A q \in Process, l \in Key : Does(W(q, l)', toRedis'.log, toMySQL'.log, toPush')
  BY <1>1, DoesMove
<1> QED
  BY <1>2 DEF PubInv

\* Steps within a job leave its messages ahead.
LEMMA PubSameJob ==
  ASSUME TInv, PubInv, NEW p \in Process, NEW k \in Key, NEW w, NEW v, Leaves(p, k, w, v), SameJob(v, w),
         v.pc \in JobPcs \ {"push"}, w.pc # "push", UNCHANGED <<toRedis, toMySQL, toPush, rows>>
  PROVE  PubInv'
<1>1. v \in Works /\ Go(p, k, v) /\ w.pc \in JobPcs /\ Does(w, toRedis.log, toMySQL.log, toPush)
  BY DEF Leaves, PubInv, Working
<1>2. \A m, j : Left(w, m, j) => Left(v, m, j)
  BY DEF Left, SameJob
<1>3. Does(v, toRedis.log, toMySQL.log, toPush)
  BY <1>1, <1>2 DEF Does, HasBatch, SameJob, JobPcs
<1> QED
  BY <1>1, <1>3, PubWork

LEMMA BeginBatch ==
  ASSUME NEW batch \in Seq(Nat), NEW jobs \in Seq(JobSet), NEW batches
  PROVE  HasBatch(Begin(batch, jobs), batches)
<1>1. CASE jobs = <<>>
  BY <1>1 DEF Begin, HasBatch
<1>2. CASE jobs # <<>>
  <2>1. Begin(batch, jobs).pc = IF Head(jobs).store THEN "lookup" ELSE "push"
    BY <1>2 DEF Begin
  <2>2. Begin(batch, jobs).jobs = jobs
    BY <1>2 DEF Begin
  <2> QED
    BY <2>1, <2>2 DEF HasBatch
<1> QED
  BY <1>1, <1>2

LEMMA PubReceipts ==
  ASSUME TInv, PubInv, NEW p \in Process, NEW k \in Key, ApplyReadReceipts(p, k)
  PROVE  PubInv'
<1>1. PICK w : w = W(p, k)
  OBVIOUS
<1>2. w \in Collected /\ WorkOK(w, toRedis.read)
  BY <1>1, ReceiptsEffect DEF TInv
<1>3. PICK ms \in Seq(Msg), v \in Works :
        /\ ms = [i \in DOMAIN w.batch |-> MsgAt(w.batch[i])]
        /\ v = Begin(w.batch, Jobs(ms)) /\ Go(p, k, v)
  BY <1>1, ReceiptsEffect DEF TInv
<1>4. /\ Jobs(ms) \in Seq(JobSet) /\ w.batch \in Seq(Nat)
      /\ DOMAIN ms = DOMAIN w.batch /\ \A b \in DOMAIN w.batch : ms[b] = toRedis.log[w.batch[b]]
  BY <1>2, <1>3, JobsFacts DEF Collected, MsgAt
<1>5. v.batch = w.batch
  BY <1>3, <1>4, BeginFacts
<1>6. ASSUME NEW b \in DOMAIN w.batch, NEW j \in Owed[toRedis.log[w.batch[b]]]
      PROVE  /\ Jobs(ms) # <<>>
             /\ \E r \in DOMAIN Jobs(ms) :
                  /\ Jobs(ms)[r].conv = j.conv /\ Jobs(ms)[r].store = j.store
                  /\ \E i \in DOMAIN Jobs(ms)[r].msgs : Jobs(ms)[r].msgs[i] = toRedis.log[w.batch[b]]
  <2>1. b \in DOMAIN ms /\ ms[b] = toRedis.log[w.batch[b]] /\ j \in Owed[ms[b]]
    BY <1>4, <1>6
  <2>2. PICK r \in DOMAIN Jobs(ms) :
          /\ Jobs(ms)[r].conv = j.conv /\ Jobs(ms)[r].store = j.store
          /\ \E i \in DOMAIN Jobs(ms)[r].msgs : Jobs(ms)[r].msgs[i] = ms[b]
    BY <2>1, OwedJob
  <2> QED
    BY <1>4, <2>1, <2>2
<1>7. Does(v, toRedis.log, toMySQL.log, toPush)
  <2>1. CASE Jobs(ms) = <<>>
    <3>1. v.pc = "ack"
      BY <1>3, <1>4, <2>1, BeginFacts
    <3> QED
      BY <1>5, <1>6, <2>1, <3>1 DEF Does, HasBatch, JobPcs
  <2>2. CASE Jobs(ms) # <<>>
    <3>1. v.pc \in {"lookup", "push"} /\ v.jobs = Jobs(ms) /\ v.at = 1 /\ v \in Working
      BY <1>3, <1>4, <2>2, BeginFacts
    <3>2. ASSUME NEW b \in DOMAIN w.batch, NEW j \in Owed[toRedis.log[w.batch[b]]]
          PROVE  Left(v, toRedis.log[w.batch[b]], j)
      <4>1. PICK r \in DOMAIN Jobs(ms) :
              /\ Jobs(ms)[r].conv = j.conv /\ Jobs(ms)[r].store = j.store
              /\ \E i \in DOMAIN Jobs(ms)[r].msgs : Jobs(ms)[r].msgs[i] = toRedis.log[w.batch[b]]
        BY <1>6, <3>2
      <4>2. PICK i \in DOMAIN Jobs(ms)[r].msgs : Jobs(ms)[r].msgs[i] = toRedis.log[w.batch[b]]
        BY <4>1
      <4>3. i >= 1
        <5>1. Jobs(ms)[r] \in JobSet
          BY <1>4
        <5>2. PICK s \in Seq(Msg) : s = Jobs(ms)[r].msgs
          BY <5>1 DEF JobSet
        <5> QED
          BY <4>2, <5>2
      <4> QED
        BY <3>1, <4>1, <4>2, <4>3 DEF Left
    <3>3. HasBatch(v, toMySQL.log)
      BY <1>3, <1>4, BeginBatch
    <3> QED
      BY <1>5, <3>1, <3>2, <3>3 DEF Does
  <2> QED
    BY <2>1, <2>2
<1>8. UNCHANGED <<toRedis, toMySQL, toPush, rows>>
  BY DEF ApplyReadReceipts, topics
<1> QED
  BY <1>3, <1>7, <1>8, PubWork

LEMMA PubPublish ==
  ASSUME TInv, PubInv, Grows, NEW p \in Process, NEW k \in Key, PublishMySQL(p, k)
  PROVE  PubInv'
<1>1. PICK w : w = W(p, k)
  OBVIOUS
<1>2. PICK v \in Works : /\ Go(p, k, v) /\ SameJob(v, w) /\ JobOK(w) /\ w.pc = "mysql" /\ v.pc = "push"
                         /\ v.at = w.at /\ v.seqs = w.seqs
  BY <1>1, CallEffect DEF TInv, Leaves, PublishMySQL, At, After
<1>3. PICK b \in Batches : /\ b.conv = Head(w.jobs).conv /\ b.msgs = Head(w.jobs).msgs /\ b.seqs = w.seqs
                           /\ toMySQL' = Send(toMySQL, b)
  BY <1>1, PublishEffect DEF TInv
<1>4. /\ Acked(toMySQL') = Acked(toMySQL) /\ toMySQL'.log[Len(toMySQL.log) + 1] = b
      /\ Len(toMySQL.log) + 1 \in DOMAIN toMySQL'.log
      /\ \A e \in DOMAIN toMySQL.log : toMySQL'.log[e] = toMySQL.log[e]
      /\ \A e \in Acked(toMySQL) : e \in DOMAIN toMySQL.log
  BY <1>3, SendFacts, QueueFacts DEF TInv, TopicsOK, Grown
<1>5. UNCHANGED <<toRedis, toPush, rows>>
  BY DEF PublishMySQL, mysql
<1>6. Does(w, toRedis.log, toMySQL'.log, toPush)
  BY <1>1, <1>5, DoesStays
<1>7. HasBatch(v, toMySQL'.log)
  BY <1>2, <1>3, <1>4 DEF HasBatch, SameJob
<1>8. ASSUME NEW m, NEW j, Left(w, m, j) PROVE Left(v, m, j)
  <2>1. PICK r \in DOMAIN w.jobs :
          /\ w.jobs[r].conv = j.conv /\ w.jobs[r].store = j.store
          /\ \E i \in DOMAIN w.jobs[r].msgs : w.jobs[r].msgs[i] = m
    BY <1>8 DEF Left
  <2>2. PICK i \in DOMAIN w.jobs[r].msgs : w.jobs[r].msgs[i] = m
    BY <2>1
  <2>3. i >= 1
    <3>1. w \in Working
      BY <1>1, <1>2, WorkFacts DEF TInv, JobPcs
    <3>2. w.jobs[r] \in JobSet
      BY <2>1, <3>1 DEF Working
    <3>3. PICK s \in Seq(Msg) : s = w.jobs[r].msgs
      BY <3>2 DEF JobSet
    <3> QED
      BY <2>2, <3>3
  <2> QED
    BY <1>2, <2>1, <2>2, <2>3 DEF Left, SameJob, JobOK
<1>9. Does(v, toRedis.log, toMySQL'.log, toPush)
  BY <1>2, <1>6, <1>7, <1>8 DEF Does, SameJob, JobPcs
<1>10. \A q \in Process, l \in Key : Does(W(q, l)', toRedis'.log, toMySQL'.log, toPush')
  BY <1>2, <1>5, <1>9, DoesMove
<1>11. \A e \in Acked(toMySQL') : \A i \in DOMAIN toMySQL'.log[e].seqs :
         toMySQL'.log[e].seqs[i] \in DOMAIN rows'[toMySQL'.log[e].conv]
  BY <1>4, <1>5 DEF PubInv
<1>12. /\ \A e \in Acked(toRedis') : \A j \in Owed[toRedis'.log[e]] : Published(toRedis'.log[e], j, toMySQL'.log, toPush')
       /\ \A i \in DOMAIN toPush' : Backed(toPush'[i], toMySQL'.log)
  BY <1>5, PromisesKept
<1> QED
  BY <1>10, <1>11, <1>12 DEF PubInv

\* The message pushed is published; the others of the batch stay ahead.
LEMMA PushCarries ==
  ASSUME NEW w \in Working, JobOK(w), w.pc = "push", NEW batches, HasBatch(w, batches),
         NEW pushes, NEW x \in ToSet(pushes), x.conv = Head(w.jobs).conv, x.msg = Head(w.jobs).msgs[w.at],
         NEW v, \/ w.at = Len(w.seqs) /\ v = Begin(w.batch, Tail(w.jobs)) /\ Tail(w.jobs) \in Seq(JobSet)
                \/ w.at # Len(w.seqs) /\ v.jobs = w.jobs /\ v.pc = "push" /\ v.at = w.at + 1,
         NEW m, NEW j, Left(w, m, j)
  PROVE  Published(m, j, batches, pushes) \/ (v.pc \in JobPcs /\ Left(v, m, j))
<1>1. PICK r \in DOMAIN w.jobs :
        /\ w.jobs[r].conv = j.conv /\ w.jobs[r].store = j.store
        /\ \E i \in DOMAIN w.jobs[r].msgs : w.jobs[r].msgs[i] = m /\ (r = 1 => i >= w.at)
  BY DEF Left
<1>2. PICK i \in DOMAIN w.jobs[r].msgs : w.jobs[r].msgs[i] = m /\ (r = 1 => i >= w.at)
  BY <1>1
<1>3. w.jobs \in Seq(JobSet) /\ w.jobs # <<>> /\ w.batch \in Seq(Nat) /\ Head(w.jobs) = w.jobs[1]
  BY DEF Working, JobOK
<1>4. i \in Nat /\ i >= 1
  <2>1. w.jobs[r] \in JobSet
    BY <1>1, <1>3
  <2>2. PICK s \in Seq(Msg) : s = w.jobs[r].msgs
    BY <2>1 DEF JobSet
  <2> QED
    BY <1>2, <2>2
<1>5. w.at \in DOMAIN w.seqs /\ DOMAIN w.seqs = 1..Len(w.seqs) /\ Len(w.seqs) \in Nat
      /\ DOMAIN Head(w.jobs).msgs = DOMAIN w.seqs
  BY JobFacts DEF JobOK
<1>6. CASE r = 1 /\ i = w.at
  <2>1. x.conv = j.conv /\ x.msg = m
    BY <1>1, <1>2, <1>3, <1>6
  <2>2. ASSUME j.store PROVE \E e \in DOMAIN batches : batches[e].conv = j.conv /\ m \in ToSet(batches[e].msgs)
    <3>1. Head(w.jobs).store
      BY <1>1, <1>3, <1>6, <2>2
    <3>2. PICK e \in DOMAIN batches : batches[e].conv = Head(w.jobs).conv /\ batches[e].msgs = Head(w.jobs).msgs
      BY <3>1 DEF HasBatch
    <3>3. m \in ToSet(batches[e].msgs)
      BY <1>2, <1>3, <1>6, <3>2 DEF ToSet
    <3> QED
      BY <1>1, <1>3, <1>6, <3>2, <3>3
  <2> QED
    BY <2>1, <2>2 DEF Published
<1>7. CASE r = 1 /\ i # w.at
  <2>1. i > w.at /\ i <= Len(w.seqs)
    BY <1>2, <1>3, <1>4, <1>5, <1>7
  <2>2. v.jobs = w.jobs /\ v.pc = "push" /\ v.at = w.at + 1 /\ i >= w.at + 1
    BY <1>4, <1>5, <2>1
  <2> QED
    BY <1>1, <1>2, <1>7, <2>2 DEF Left, JobPcs
<1>8. CASE r # 1 /\ v = Begin(w.batch, Tail(w.jobs)) /\ Tail(w.jobs) \in Seq(JobSet)
  <2>1. r - 1 \in DOMAIN Tail(w.jobs) /\ Tail(w.jobs)[r - 1] = w.jobs[r] /\ Tail(w.jobs) # <<>>
    BY <1>1, <1>3, <1>8
  <2>2. v.jobs = Tail(w.jobs) /\ v.at = 1 /\ v.pc \in JobPcs
    BY <1>3, <1>8, <2>1, BeginFacts DEF JobPcs
  <2> QED
    BY <1>1, <1>2, <1>4, <2>1, <2>2 DEF Left
<1>9. CASE r # 1 /\ v.jobs = w.jobs /\ v.pc = "push"
  BY <1>1, <1>2, <1>9 DEF Left, JobPcs
<1> QED
  BY <1>6, <1>7, <1>8, <1>9

LEMMA PubPush ==
  ASSUME TInv, PubInv, Grows, NEW p \in Process, NEW k \in Key, PublishPush(p, k)
  PROVE  PubInv'
<1>1. PICK w : w = W(p, k)
  OBVIOUS
<1>2. w.pc = "push" /\ w \in Working /\ JobOK(w) /\ w.at \in DOMAIN w.seqs /\ w.batch \in Seq(Nat)
  BY <1>1, PushEffect DEF TInv
<1>3. PICK x \in Pushes : /\ toPush' = Append(toPush, x)
                          /\ x.conv = Head(w.jobs).conv /\ x.msg = Head(w.jobs).msgs[w.at] /\ x.seq = w.seqs[w.at]
  BY <1>1, PushEffect DEF TInv
<1>4. PICK v \in Works : /\ Go(p, k, v)
                         /\ \/ w.at = Len(w.seqs) /\ v = Begin(w.batch, Tail(w.jobs)) /\ Tail(w.jobs) \in Seq(JobSet)
                            \/ /\ w.at # Len(w.seqs) /\ SameJob(v, w) /\ v.pc = "push" /\ v.at = w.at + 1
                               /\ v.seqs = w.seqs
  BY <1>1, PushEffect DEF TInv
<1>5. UNCHANGED <<toRedis, toMySQL, rows>>
  BY DEF PublishPush, mysql
<1>6. PICK ps \in Seq(Pushes) : ps = toPush
  BY DEF TInv, TopicsOK
<1>7. x \in ToSet(toPush') /\ \A i \in DOMAIN toPush' : toPush'[i] = x \/ (i \in DOMAIN toPush /\ toPush'[i] = toPush[i])
  BY <1>3, <1>6, Appended
<1>8. Does(w, toRedis.log, toMySQL.log, toPush') /\ HasBatch(w, toMySQL.log)
  BY <1>1, <1>5, DoesStays DEF Does
<1>9. v.batch = w.batch
  <2>1. w.batch \in Seq(Nat)
    BY <1>2
  <2>2. CASE v = Begin(w.batch, Tail(w.jobs)) /\ Tail(w.jobs) \in Seq(JobSet)
    BY <2>1, <2>2, BeginFacts
  <2>3. CASE SameJob(v, w)
    BY <2>3 DEF SameJob
  <2> QED
    BY <1>4, <2>2, <2>3
<1>10. HasBatch(v, toMySQL.log)
  <2>1. CASE v = Begin(w.batch, Tail(w.jobs)) /\ Tail(w.jobs) \in Seq(JobSet)
    BY <1>2, <2>1, BeginBatch
  <2>2. CASE SameJob(v, w) /\ v.pc = "push" /\ v.seqs = w.seqs
    BY <1>2, <1>8, <2>2 DEF HasBatch, SameJob
  <2> QED
    BY <1>4, <2>1, <2>2
<1>11. ASSUME NEW m, NEW j, Published(m, j, toMySQL.log, toPush') \/ Left(w, m, j)
       PROVE  Published(m, j, toMySQL.log, toPush') \/ (v.pc \in JobPcs /\ Left(v, m, j))
  BY <1>2, <1>3, <1>4, <1>7, <1>8, <1>11, PushCarries DEF SameJob
<1>12. Does(v, toRedis.log, toMySQL.log, toPush')
  <2>1. ASSUME NEW b \in DOMAIN w.batch, NEW j \in Owed[toRedis.log[w.batch[b]]]
        PROVE  \/ Published(toRedis.log[w.batch[b]], j, toMySQL.log, toPush')
               \/ v.pc \in JobPcs /\ Left(v, toRedis.log[w.batch[b]], j)
    BY <1>2, <1>8, <1>11, <2>1 DEF Does, Working
  <2> QED
    BY <1>9, <1>10, <2>1 DEF Does, JobPcs
<1>13. \A q \in Process, l \in Key : Does(W(q, l)', toRedis'.log, toMySQL'.log, toPush')
  BY <1>4, <1>5, <1>12, DoesMove
<1>14. Backed(x, toMySQL.log)
  <2>1. SUFFICES ASSUME x.seq > 0 PROVE \E e \in DOMAIN toMySQL.log : InBatch(toMySQL.log[e], x.conv, x.msg, x.seq)
    BY DEF Backed
  <2>2. Head(w.jobs).store
    BY <1>2, <1>3, <2>1 DEF JobOK
  <2> QED
    BY <1>2, <1>3, <1>8, <2>2 DEF HasBatch, InBatch
<1>15. \A i \in DOMAIN toPush' : Backed(toPush'[i], toMySQL'.log)
  BY <1>5, <1>7, <1>14 DEF PubInv
<1>16. \A e \in Acked(toRedis') : \A j \in Owed[toRedis'.log[e]] : Published(toRedis'.log[e], j, toMySQL'.log, toPush')
  BY <1>5, PromisesKept
<1> QED
  BY <1>5, <1>13, <1>15, <1>16 DEF PubInv

LEMMA PubAck ==
  ASSUME TInv, PubInv, Grows, NEW p \in Process, NEW k \in Key, AckEntry(p, k)
  PROVE  PubInv'
<1>1. PICK w : w = W(p, k)
  OBVIOUS
<1>2. w.pc = "ack" /\ w.at \in DOMAIN w.batch /\ w.batch[w.at] \in 1..toRedis.read /\ toRedis' = Ack(toRedis, w.batch[w.at])
  BY <1>1, AckEffect DEF TInv, WorkOK
<1>3. PICK v \in Works : Go(p, k, v) /\ (v = Idle \/ (v \in Acking /\ v.batch = w.batch))
  BY <1>1, AckEffect DEF TInv
<1>4. Acked(toRedis') = Acked(toRedis) \cup {w.batch[w.at]} /\ toRedis'.log = toRedis.log
  BY <1>2, AckFacts DEF TInv, TopicsOK
<1>5. UNCHANGED <<toMySQL, toPush, rows>>
  BY DEF AckEntry, topics, mysql
<1>6. Does(w, toRedis.log, toMySQL.log, toPush)
  BY <1>1 DEF PubInv
<1>7. Does(v, toRedis.log, toMySQL.log, toPush)
  <2>1. CASE v = Idle
    <3>1. v.pc = "idle"
      BY <2>1 DEF Idle
    <3> QED
      BY <3>1 DEF Does, HasBatch, JobPcs
  <2>2. CASE v \in Acking /\ v.batch = w.batch
    <3>1. v.pc = "ack"
      BY <2>2 DEF Acking
    <3> QED
      BY <1>2, <1>6, <2>2, <3>1 DEF Does, HasBatch, JobPcs
  <2> QED
    BY <1>3, <2>1, <2>2
<1>8. \A q \in Process, l \in Key : Does(W(q, l)', toRedis'.log, toMySQL'.log, toPush')
  BY <1>3, <1>4, <1>5, <1>7, DoesMove
<1>9. \A e \in Acked(toRedis') : \A j \in Owed[toRedis'.log[e]] : Published(toRedis'.log[e], j, toMySQL'.log, toPush')
  BY <1>2, <1>4, <1>5, <1>6 DEF PubInv, Does
<1> QED
  BY <1>5, <1>8, <1>9 DEF PubInv

LEMMA PubStore ==
  ASSUME TInv, PubInv, NEW e \in DOMAIN toMySQL.log, StoreBatch(e)
  PROVE  PubInv'
<1>1. UNCHANGED <<toRedis, work, toPush>> /\ toMySQL'.log = toMySQL.log
  BY StoreEffect DEF StoreBatch, TInv
<1>2. PICK b \in Batches : b = toMySQL.log[e] /\ BatchOK(b)
  BY StoreEffect DEF TInv
<1>3. /\ \A a \in Acked(toMySQL) : a \in DOMAIN toMySQL.log
      /\ \A a \in DOMAIN toMySQL.log : toMySQL.log[a].conv \in Conv
  <2>1. /\ \A a \in Acked(toMySQL) : a \in DOMAIN toMySQL.log
        /\ \A a \in DOMAIN toMySQL.log : toMySQL.log[a] \in Batches
    BY QueueFacts DEF TInv, TopicsOK
  <2> QED
    BY <2>1 DEF Batches
<1>4. ASSUME NEW a \in Acked(toMySQL'), NEW i \in DOMAIN toMySQL.log[a].seqs
      PROVE  toMySQL.log[a].seqs[i] \in DOMAIN rows'[toMySQL.log[a].conv]
  <2>1. CASE rows' = rows /\ Acked(toMySQL') = Acked(toMySQL)
    BY <1>4, <2>1 DEF PubInv
  <2>2. CASE /\ rows' = [rows EXCEPT ![b.conv] = InsertMessages(b)]
             /\ Acked(toMySQL') = Acked(toMySQL) \/ Acked(toMySQL') = Acked(toMySQL) \cup {e}
    <3>1. /\ \A c \in Conv : c # b.conv => rows'[c] = rows[c]
          /\ \A n \in DOMAIN rows[b.conv] : n \in DOMAIN rows'[b.conv]
          /\ \A l \in DOMAIN b.seqs : b.seqs[l] \in DOMAIN rows'[b.conv]
      BY <1>2, <2>2, InsertFacts DEF TInv
    <3>2. CASE a = e
      BY <1>2, <1>4, <3>1, <3>2
    <3>3. CASE a \in Acked(toMySQL)
      <4>1. toMySQL.log[a].seqs[i] \in DOMAIN rows[toMySQL.log[a].conv] /\ toMySQL.log[a].conv \in Conv
        BY <1>3, <1>4, <3>3 DEF PubInv
      <4> QED
        BY <3>1, <4>1
    <3> QED
      BY <1>4, <2>2, <3>2, <3>3
  <2> QED
    BY <1>2, <2>1, <2>2, StoreEffect DEF TInv
<1>5. \A q \in Process, l \in Key : W(q, l)' = W(q, l)
  BY <1>1 DEF W
<1> QED
  BY <1>1, <1>4, <1>5 DEF PubInv

\* The steps that touch neither a job nor a promise.
LEMMA PubOthers ==
  ASSUME TInv, PubInv, Grows,
         \/ \E m \in Msg : ClientSend(m) \/ SendReceipt(m)
         \/ \E p \in Process : Deliver(p) \/ Crash(p) \/ WriteReadSeq(p)
         \/ \E p \in Process, e \in toRedis.pending : Claim(p, e)
         \/ \E p \in Process, k \in Key : Flush(p, k) \/ DropBatch(p, k)
         \/ UNCHANGED vars
  PROVE  PubInv'
<1>1. QueueOK(toRedis, Msg)
  BY DEF TInv, TopicsOK
<1>2. CASE Acked(toRedis') = Acked(toRedis) /\ work' = work /\ UNCHANGED <<toMySQL, toPush, rows>>
  <2>1. \A q \in Process, l \in Key : W(q, l)' = W(q, l)
    BY <1>2 DEF W
  <2> QED
    BY <1>2, <2>1, PubQuiet
<1>3. ASSUME NEW p \in Process, NEW k \in Key, NEW v \in Works, Go(p, k, v), v.pc \in {"idle", "receipts"},
             UNCHANGED <<toRedis, toMySQL, toPush, rows>>
      PROVE  PubInv'
  <2>1. \A q \in Process, l \in Key : W(q, l)' = W(q, l) \/ W(q, l)'.pc \in {"idle", "receipts"}
    <3>1. W(p, k)' = v /\ \A q \in Process, l \in Key : q # p \/ l # k => W(q, l)' = W(q, l)
      BY <1>3, GoFacts DEF TInv, ProcessesOK
    <3> QED
      BY <1>3, <3>1
  <2> QED
    BY <1>3, <2>1, PubQuiet
<1>4. ASSUME NEW m \in Msg, ClientSend(m) \/ SendReceipt(m) PROVE PubInv'
  <2>1. toRedis' = Send(toRedis, m) /\ work' = work /\ UNCHANGED <<toMySQL, toPush, rows>>
    BY <1>4 DEF ClientSend, SendReceipt, topics, mysql
  <2> QED
    BY <1>1, <1>2, <2>1, SendFacts
<1>5. ASSUME NEW p \in Process, Deliver(p) PROVE PubInv'
  <2>1. CanRead(toRedis) /\ toRedis' = Read(toRedis) /\ work' = work /\ UNCHANGED <<toMySQL, toPush, rows>>
    BY <1>5 DEF Deliver, topics, mysql
  <2> QED
    BY <1>1, <1>2, <2>1, ReadFacts
<1>6. ASSUME NEW p \in Process, Crash(p) PROVE PubInv'
  <2>1. work' = [work EXCEPT ![p] = [k \in Key |-> Idle]] /\ UNCHANGED <<toRedis, toMySQL, toPush, rows>>
    BY <1>6 DEF Crash, topics, mysql
  <2>2. \A q \in Process, l \in Key : W(q, l)' = W(q, l) \/ W(q, l)'.pc \in {"idle", "receipts"}
    BY <2>1 DEF TInv, ProcessesOK, W, Idle
  <2> QED
    BY <2>1, <2>2, PubQuiet
<1>7. ASSUME NEW p \in Process, WriteReadSeq(p) PROVE PubInv'
  BY <1>2, <1>7 DEF WriteReadSeq, topics
<1>8. ASSUME NEW p \in Process, NEW e \in toRedis.pending, Claim(p, e) PROVE PubInv'
  BY <1>2, <1>8 DEF Claim, topics, mysql
<1>9. ASSUME NEW p \in Process, NEW k \in Key, Flush(p, k) PROVE PubInv'
  <2>1. PICK v \in Collected : Go(p, k, v) /\ v \in Works
    BY <1>9, FlushEffect DEF TInv
  <2>2. v.pc \in {"idle", "receipts"}
    BY <2>1 DEF Collected
  <2> QED
    BY <1>3, <1>9, <2>1, <2>2 DEF Flush, topics, mysql
<1>10. ASSUME NEW p \in Process, NEW k \in Key, DropBatch(p, k) PROVE PubInv'
  <2>1. Idle \in Works /\ Idle.pc = "idle"
    BY DEF Works, Idle
  <2> QED
    BY <1>3, <1>10, <2>1 DEF DropBatch, topics, mysql
<1>11. CASE UNCHANGED vars
  BY <1>2, <1>11 DEF vars, topics, mysql
<1> QED
  BY <1>4, <1>5, <1>6, <1>7, <1>8, <1>9, <1>10, <1>11

LEMMA PubStep == TInv /\ PubInv /\ [Next]_vars => PubInv'
<1> SUFFICES ASSUME TInv, PubInv, [Next]_vars PROVE PubInv'
  OBVIOUS
<1>1. Grows
  BY StepGrows
<1>2. ASSUME NEW p \in Process, NEW k \in Key, LookupClient(p, k) PROVE PubInv'
  <2>1. PICK w, j : w = W(p, k) /\ j = Job(p, k)
    OBVIOUS
  <2>2. PICK v : Leaves(p, k, w, v) /\ SameJob(v, w) /\ w.pc = "lookup" /\ v.pc \in {"lookup", "malloc", "cache"}
    BY <1>2, <2>1, LookupEffect DEF TInv
  <2>3. UNCHANGED <<toRedis, toMySQL, toPush, rows>>
    BY <1>2 DEF LookupClient, topics, mysql
  <2> QED
    BY <2>2, <2>3, PubSameJob DEF JobPcs
<1>3. ASSUME NEW p \in Process, NEW k \in Key, Reserve(p, k) PROVE PubInv'
  <2>1. PICK w, c : w = W(p, k) /\ c = Job(p, k).conv
    OBVIOUS
  <2>2. PICK v : Leaves(p, k, w, v) /\ SameJob(v, w) /\ w.pc = "malloc" /\ v.pc = "remember"
    BY <1>3, <2>1, ReserveEffect DEF TInv
  <2>3. UNCHANGED <<toRedis, toMySQL, toPush, rows>>
    BY <1>3 DEF Reserve, topics, mysql
  <2> QED
    BY <2>2, <2>3, PubSameJob DEF JobPcs
<1>4. ASSUME NEW p \in Process, NEW k \in Key, Remember(p, k) PROVE PubInv'
  <2>1. PICK w, c : w = W(p, k) /\ c = Job(p, k).conv
    OBVIOUS
  <2>2. PICK v : Leaves(p, k, w, v) /\ SameJob(v, w) /\ w.pc = "remember" /\ v.pc \in {"remember", "cache"}
    BY <1>4, <2>1, RememberEffect DEF TInv
  <2>3. UNCHANGED <<toRedis, toMySQL, toPush, rows>>
    BY <1>4 DEF Remember, topics, mysql
  <2> QED
    BY <2>2, <2>3, PubSameJob DEF JobPcs
<1>5. ASSUME NEW p \in Process, NEW k \in Key, FillCache(p, k) PROVE PubInv'
  <2>1. PICK w : w = W(p, k) /\ w.pc = "cache"
    BY <1>5 DEF FillCache, At
  <2>2. PICK v : Leaves(p, k, w, v) /\ SameJob(v, w) /\ v.pc = "save"
    BY <1>5, <2>1, CallEffect DEF TInv, FillCache, After
  <2>3. UNCHANGED <<toRedis, toMySQL, toPush, rows>>
    BY <1>5 DEF FillCache, topics, mysql
  <2> QED
    BY <2>1, <2>2, <2>3, PubSameJob DEF JobPcs
<1>6. ASSUME NEW p \in Process, NEW k \in Key, SaveMax(p, k) PROVE PubInv'
  <2>1. PICK w : w = W(p, k) /\ w.pc = "save"
    BY <1>6 DEF SaveMax, At
  <2>2. PICK v : Leaves(p, k, w, v) /\ SameJob(v, w) /\ v.pc = "ensure"
    BY <1>6, <2>1, CallEffect DEF TInv, SaveMax, After
  <2>3. UNCHANGED <<toRedis, toMySQL, toPush, rows>>
    BY <1>6 DEF SaveMax, topics
  <2> QED
    BY <2>1, <2>2, <2>3, PubSameJob DEF JobPcs
<1>7. ASSUME NEW p \in Process, NEW k \in Key, Ensure(p, k) PROVE PubInv'
  <2>1. PICK w : w = W(p, k) /\ w.pc = "ensure"
    BY <1>7 DEF Ensure, At
  <2>2. PICK v : Leaves(p, k, w, v) /\ SameJob(v, w) /\ v.pc = "mysql"
    BY <1>7, <2>1, CallEffect DEF TInv, Ensure, After
  <2>3. UNCHANGED <<toRedis, toMySQL, toPush, rows>>
    BY <1>7 DEF Ensure, topics, mysql
  <2> QED
    BY <2>1, <2>2, <2>3, PubSameJob DEF JobPcs
<1>8. ASSUME NEW p \in Process, NEW k \in Key,
             ApplyReadReceipts(p, k) \/ PublishMySQL(p, k) \/ PublishPush(p, k) \/ AckEntry(p, k)
      PROVE  PubInv'
  BY <1>1, <1>8, PubReceipts, PubPublish, PubPush, PubAck
<1>9. ASSUME NEW e \in DOMAIN toMySQL.log, StoreBatch(e) PROVE PubInv'
  BY <1>9, PubStore
<1>10. CASE \/ \E m \in Msg : ClientSend(m) \/ SendReceipt(m)
            \/ \E p \in Process : Deliver(p) \/ Crash(p) \/ WriteReadSeq(p)
            \/ \E p \in Process, e \in toRedis.pending : Claim(p, e)
            \/ \E p \in Process, k \in Key : Flush(p, k) \/ DropBatch(p, k)
            \/ UNCHANGED vars
  BY <1>1, <1>10, PubOthers
<1> QED
  BY <1>2, <1>3, <1>4, <1>5, <1>6, <1>7, <1>8, <1>9, <1>10 DEF Next, WorkerStep

LEMMA PublishedHolds == Spec => [](TInv /\ PubInv)
<1>1. Init => TInv /\ PubInv
  BY TypesAtStart, PubAtStart
<1>2. TInv /\ PubInv /\ [Next]_vars => (TInv /\ PubInv)'
  BY StepKeepsTypes, PubStep
<1> QED
  BY <1>1, <1>2, PTL DEF Spec

(* redis_handler.go:89: nothing acknowledged was left out of either topic,  *)
(* whichever process did the batch, however often it was claimed, dropped   *)
(* or lost to a crash before: an entry is acknowledged only by a batch that *)
(* found everything it owes published.                                      *)
THEOREM TransferAckedIsPublished == Spec => []AckedIsPublished
<1>1. TInv /\ PubInv => AckedIsPublished
  <2> SUFFICES ASSUME TInv, PubInv, NEW e \in Acked(toRedis), NEW j \in Owed[MsgAt(e)]
               PROVE  /\ \E x \in ToSet(toPush) : x.conv = j.conv /\ x.msg = MsgAt(e)
                      /\ j.store => \E b \in ToSet(toMySQL.log) : b.conv = j.conv /\ MsgAt(e) \in ToSet(b.msgs)
    BY DEF AckedIsPublished
  <2>1. PICK m : m = MsgAt(e)
    OBVIOUS
  <2>2. Published(m, j, toMySQL.log, toPush)
    BY <2>1 DEF PubInv, MsgAt
  <2> QED
    BY <2>1, <2>2 DEF Published, ToSet
<1> QED
  BY <1>1, PublishedHolds, PTL

(* What was pushed under a number is in a batch on its way to MySQL, and    *)
(* once the MySQL consumer acknowledged that batch the row of the number    *)
(* holds that very message: INSERT IGNORE kept another row only if it was   *)
(* of the same message.                                                     *)
THEOREM TransferPushedIsStored == Spec => []PushedIsStored
<1>1. TInv /\ UseInv /\ PubInv => PushedIsStored
  <2> SUFFICES ASSUME TInv, UseInv, PubInv, NEW x \in ToSet(toPush), x.seq > 0
               PROVE  \E e \in DOMAIN toMySQL.log : \E i \in DOMAIN toMySQL.log[e].msgs :
                        LET b == toMySQL.log[e] IN
                        /\ b.conv = x.conv /\ b.msgs[i] = x.msg /\ b.seqs[i] = x.seq
                        /\ e \in Acked(toMySQL) => x.seq \in DOMAIN rows[x.conv] /\ rows[x.conv][x.seq] = x.msg
    BY DEF PushedIsStored
  <2>1. PICK e \in DOMAIN toMySQL.log : InBatch(toMySQL.log[e], x.conv, x.msg, x.seq)
    BY DEF PubInv, Backed, ToSet
  <2>2. PICK i \in DOMAIN toMySQL.log[e].seqs :
          toMySQL.log[e].conv = x.conv /\ toMySQL.log[e].msgs[i] = x.msg /\ toMySQL.log[e].seqs[i] = x.seq
    BY <2>1 DEF InBatch
  <2>3. DOMAIN toMySQL.log[e].msgs = DOMAIN toMySQL.log[e].seqs /\ x.conv \in Conv /\ x.seq \in Nat \ {0}
    BY <2>2, BatchDomain DEF TInv, TopicsOK
  <2>4. ASSUME e \in Acked(toMySQL) PROVE x.seq \in DOMAIN rows[x.conv] /\ rows[x.conv][x.seq] = x.msg
    <3>1. x.seq \in DOMAIN rows[x.conv]
      BY <2>2, <2>4 DEF PubInv
    <3>2. Used(x.conv, x.msg, x.seq) /\ Used(x.conv, rows[x.conv][x.seq], x.seq)
      BY <2>1, <3>1 DEF Used
    <3> QED
      BY <2>3, <3>1, <3>2 DEF UseInv
  <2> QED
    BY <2>2, <2>3, <2>4
<1> QED
  BY <1>1, UsesHold, PublishedHolds, PTL

-----------------------------------------------------------------------------
(***************************************************************************)
(* ReadWithinMax.  MarkMsgsAsRead checks the last number of a receipt      *)
(* against max_seq, the batch worker takes the greatest one: that no read  *)
(* position passes max_seq needs the two to be the same.  The run          *)
(* transfer_reads shows what happens otherwise.                            *)
(***************************************************************************)
LastIsGreatest == \A m \in Msg : \A i \in DOMAIN Shape[m].reads : Shape[m].reads[i] <= Last(Shape[m].reads)

ReceiptsWithin(entries, max) ==
  \A e \in DOMAIN entries : \A i \in DOMAIN Shape[entries[e]].reads :
    Shape[entries[e]].reads[i] <= max[Shape[entries[e]].about]
ItemsWithin(ch, max) ==
  \A p \in Process : \A i \in DOMAIN ch[p] : \A u \in Users : ch[p][i].seqs[u] <= max[ch[p][i].conv]
PositionsWithin(db, max) == \A c \in Conv : \A u \in Users : db[c][u] <= max[c]

ReadInv ==
  ReceiptsWithin(toRedis.log, savedMax) /\ ItemsWithin(readCh, savedMax) /\ PositionsWithin(readDB, savedMax)

LEMMA ReadAtStart == Init => ReadInv
BY DEF Init, ReadInv, EmptyQueue, ReceiptsWithin, ItemsWithin, PositionsWithin

LEMMA WithinGrows ==
  ASSUME NEW max \in [Conv -> Nat], NEW more \in [Conv -> Nat], \A d \in Conv : max[d] <= more[d],
         NEW entries \in Seq(Msg), ReceiptsWithin(entries, max),
         NEW ch \in [Process -> Seq(ReadSeqs)], ItemsWithin(ch, max),
         NEW db \in [Conv -> [Users -> Nat]], PositionsWithin(db, max)
  PROVE  ReceiptsWithin(entries, more) /\ ItemsWithin(ch, more) /\ PositionsWithin(db, more)
<1>1. ASSUME NEW n \in Nat, NEW c \in Conv, n <= max[c] PROVE n <= more[c]
  <2>1. max[c] \in Nat /\ more[c] \in Nat /\ max[c] <= more[c]
    OBVIOUS
  <2> QED
    BY <1>1, <2>1
<1>2. ASSUME NEW e \in DOMAIN entries, NEW i \in DOMAIN Shape[entries[e]].reads
      PROVE  Shape[entries[e]].reads[i] <= more[Shape[entries[e]].about]
  <2>1. PICK m \in Msg : m = entries[e]
    OBVIOUS
  <2>2. Shape[m].reads \in Seq(Nat) /\ Shape[m].about \in Conv
    BY ShapeTypes
  <2>3. PICK n \in Nat, c \in Conv : n = Shape[m].reads[i] /\ c = Shape[m].about
    BY <1>2, <2>1, <2>2
  <2>4. n <= max[c]
    BY <2>1, <2>3, <1>2 DEF ReceiptsWithin
  <2> QED
    BY <1>1, <2>1, <2>3, <2>4
<1>3. ASSUME NEW p \in Process, NEW i \in DOMAIN ch[p], NEW u \in Users PROVE ch[p][i].seqs[u] <= more[ch[p][i].conv]
  <2>1. PICK s \in Seq(ReadSeqs) : s = ch[p]
    OBVIOUS
  <2>2. PICK x \in ReadSeqs : x = ch[p][i]
    BY <1>3, <2>1
  <2>3. PICK n \in Nat, c \in Conv : n = x.seqs[u] /\ c = x.conv
    BY <2>2 DEF ReadSeqs
  <2>4. n <= max[c]
    BY <2>2, <2>3 DEF ItemsWithin
  <2> QED
    BY <1>1, <2>2, <2>3, <2>4
<1>4. ASSUME NEW c \in Conv, NEW u \in Users PROVE db[c][u] <= more[c]
  BY <1>1 DEF PositionsWithin
<1> QED
  BY <1>2, <1>3, <1>4 DEF ReceiptsWithin, ItemsWithin, PositionsWithin

LEMMA ReadKept ==
  ASSUME TInv, ReadInv, savedMax' \in [Conv -> Nat], \A d \in Conv : savedMax[d] <= savedMax'[d],
         toRedis'.log = toRedis.log, readCh' = readCh, readDB' = readDB
  PROVE  ReadInv'
<1>1. /\ toRedis.log \in Seq(Msg) /\ readCh \in [Process -> Seq(ReadSeqs)]
      /\ readDB \in [Conv -> [Users -> Nat]] /\ savedMax \in [Conv -> Nat]
  BY QueueFacts DEF TInv, TopicsOK, ProcessesOK, StoresOK
<1> QED
  BY <1>1, WithinGrows DEF ReadInv

LEMMA ReadSend ==
  ASSUME TInv, ReadInv, NEW m \in Msg, toRedis' = Send(toRedis, m), savedMax' = savedMax,
         \A i \in DOMAIN Shape[m].reads : Shape[m].reads[i] <= savedMax[Shape[m].about]
  PROVE  ReceiptsWithin(toRedis'.log, savedMax')
<1>1. PICK s \in Seq(Msg) : s = toRedis.log
  BY QueueFacts DEF TInv, TopicsOK
<1>2. toRedis'.log = Append(s, m)
  BY <1>1 DEF Send, TInv, TopicsOK, QueueOK
<1>3. \A e \in DOMAIN toRedis'.log : toRedis'.log[e] = m \/ (e \in DOMAIN toRedis.log /\ toRedis'.log[e] = toRedis.log[e])
  BY <1>1, <1>2, Appended
<1> QED
  BY <1>3 DEF ReceiptsWithin, ReadInv

LEMMA ReadReceiptSent ==
  ASSUME LastIsGreatest, TInv, ReadInv, NEW m \in Msg, SendReceipt(m)
  PROVE  ReadInv'
<1>1. PICK c, cursor : c = Shape[m].about /\ cursor = Last(Shape[m].reads)
  OBVIOUS
<1>2. /\ c \in Conv /\ cursor \in Nat /\ cursor <= savedMax[c]
      /\ \A d \in Conv : \A u \in Users : readDB'[d][u] = readDB[d][u] \/ (d = c /\ readDB'[d][u] = cursor)
                                          \/ readDB'[d][u] = 0
  BY <1>1, ReceiptEffect DEF TInv
<1>3. toRedis' = Send(toRedis, m) /\ savedMax' = savedMax /\ readCh' = readCh
  BY DEF SendReceipt
<1>4. savedMax[c] \in Nat /\ \A d \in Conv : savedMax[d] \in Nat
  BY <1>2 DEF TInv, StoresOK
<1>5. ASSUME NEW i \in DOMAIN Shape[m].reads PROVE Shape[m].reads[i] <= savedMax[Shape[m].about]
  <2>1. PICK n \in Nat : n = Shape[m].reads[i]
    <3>1. PICK s \in Seq(Nat) : s = Shape[m].reads
      BY ShapeTypes
    <3> QED
      BY <1>5, <3>1
  <2>2. n <= cursor
    BY <1>1, <2>1 DEF LastIsGreatest
  <2>3. n <= savedMax[c]
    BY <1>2, <1>4, <2>2
  <2> QED
    BY <1>1, <2>1, <2>3
<1>6. ReceiptsWithin(toRedis'.log, savedMax')
  BY <1>3, <1>5, ReadSend
<1>7. ASSUME NEW d \in Conv, NEW u \in Users PROVE readDB'[d][u] <= savedMax'[d]
  <2>1. readDB[d][u] <= savedMax[d]
    BY DEF ReadInv, PositionsWithin
  <2> QED
    BY <1>2, <1>3, <1>4, <2>1
<1> QED
  BY <1>3, <1>6, <1>7 DEF ReadInv, PositionsWithin

LEMMA ReadReceiptsApplied ==
  ASSUME TInv, ReadInv, NEW p \in Process, NEW k \in Key, ApplyReadReceipts(p, k)
  PROVE  ReadInv'
<1>1. PICK w : w = W(p, k)
  OBVIOUS
<1>2. w \in Collected /\ WorkOK(w, toRedis.read) /\ w.pc = "receipts"
  BY <1>1, ReceiptsEffect DEF TInv
<1>3. PICK ms \in Seq(Msg) :
        /\ ms = [i \in DOMAIN w.batch |-> MsgAt(w.batch[i])]
        /\ readDB' = [c \in Conv |-> Raise(readDB[c], [u \in Users |-> Top(ms, c, u)])]
  BY <1>1, ReceiptsEffect DEF TInv
<1>4. toRedis' = toRedis /\ savedMax' = savedMax /\ readCh' = readCh
  BY DEF ApplyReadReceipts
<1>5. ASSUME NEW m \in ToSet(ms) PROVE \E e \in DOMAIN toRedis.log : m = toRedis.log[e]
  <2>1. PICK i \in DOMAIN ms : m = ms[i]
    BY DEF ToSet
  <2>2. i \in DOMAIN w.batch /\ m = toRedis.log[w.batch[i]] /\ w.batch[i] \in 1..toRedis.read
    BY <1>2, <1>3, <2>1 DEF MsgAt, WorkOK
  <2>3. toRedis.read \in Nat /\ toRedis.read <= Len(toRedis.log) /\ DOMAIN toRedis.log = 1..Len(toRedis.log)
        /\ Len(toRedis.log) \in Nat
    BY QueueFacts DEF TInv, TopicsOK, QueueOK
  <2> QED
    BY <2>2, <2>3
<1>6. ASSUME NEW c \in Conv, NEW u \in Users PROVE readDB'[c][u] <= savedMax[c]
  <2>1. savedMax[c] \in Nat /\ readDB[c][u] <= savedMax[c] /\ readDB[c] \in [Users -> Nat]
    BY DEF TInv, StoresOK, ReadInv, PositionsWithin
  <2>2. Top(ms, c, u) <= savedMax[c]
    <3>1. CASE Top(ms, c, u) = 0
      BY <2>1, <3>1
    <3>2. CASE \E m \in ToSet(ms) : /\ Shape[m].about = c
                                    /\ \E i \in DOMAIN Shape[m].reads : Shape[m].reads[i] = Top(ms, c, u)
      BY <1>5, <3>2 DEF ReadInv, ReceiptsWithin
    <3> QED
      BY <3>1, <3>2, ReadTop
  <2>3. PICK to \in [Users -> Nat] : to = [x \in Users |-> Top(ms, c, x)]
    BY ReadTop
  <2>4. readDB'[c] = Raise(readDB[c], to)
    BY <1>3, <2>3
  <2>5. readDB'[c][u] \in {readDB[c][u], to[u]}
    BY <2>1, <2>4, RaiseFacts
  <2> QED
    BY <2>1, <2>2, <2>3, <2>5
<1> QED
  BY <1>4, <1>6 DEF ReadInv, PositionsWithin

LEMMA ReadEnsured ==
  ASSUME TInv, SavedInv, ReadInv, NEW p \in Process, NEW k \in Key, Ensure(p, k)
  PROVE  ReadInv'
<1>1. PICK w : w = W(p, k) /\ w.pc = "ensure" /\ Saved(w, savedMax)
  BY DEF SavedInv, Ensure, At
<1>2. PICK item \in ReadSeqs :
        /\ readCh' = [readCh EXCEPT ![p] = Append(@, item)] /\ item.conv = Head(w.jobs).conv
        /\ \A u \in Users : item.seqs[u] = 0 \/ \E i \in DOMAIN w.seqs : item.seqs[u] = w.seqs[i]
        /\ \A i \in DOMAIN readCh'[p] : readCh'[p][i] = item \/ (i \in DOMAIN readCh[p] /\ readCh'[p][i] = readCh[p][i])
  BY <1>1, EnsureEffect DEF TInv
<1>3. toRedis' = toRedis /\ savedMax' = savedMax /\ readDB' = readDB
  BY DEF Ensure, mysql
<1>4. ASSUME NEW u \in Users PROVE item.seqs[u] <= savedMax[item.conv]
  <2>1. savedMax[item.conv] \in Nat
    BY DEF ReadSeqs, TInv, StoresOK
  <2>2. \A i \in DOMAIN w.seqs : w.seqs[i] <= savedMax[item.conv]
    BY <1>1, <1>2 DEF Saved
  <2> QED
    BY <1>2, <2>1, <2>2
<1>5. \A q \in Process : q # p => readCh'[q] = readCh[q]
  BY <1>2 DEF TInv, ProcessesOK
<1>6. ASSUME NEW q \in Process, NEW i \in DOMAIN readCh'[q], NEW u \in Users
      PROVE  readCh'[q][i].seqs[u] <= savedMax[readCh'[q][i].conv]
  <2>1. CASE q = p /\ readCh'[p][i] = item
    BY <1>4, <2>1
  <2>2. CASE i \in DOMAIN readCh[q] /\ readCh'[q][i] = readCh[q][i]
    BY <2>2 DEF ReadInv, ItemsWithin
  <2> QED
    BY <1>2, <1>5, <1>6, <2>1, <2>2
<1> QED
  BY <1>3, <1>6 DEF ReadInv, ItemsWithin

LEMMA ReadWritten ==
  ASSUME TInv, ReadInv, NEW p \in Process, WriteReadSeq(p)
  PROVE  ReadInv'
<1>1. PICK item \in ReadSeqs :
        /\ 1 \in DOMAIN readCh[p] /\ item = readCh[p][1]
        /\ \A d \in Conv : \A u \in Users : readDB'[d][u] = readDB[d][u] \/ (d = item.conv /\ readDB'[d][u] = item.seqs[u])
        /\ \A q \in Process : \A i \in DOMAIN readCh'[q] : \E l \in DOMAIN readCh[q] : readCh'[q][i] = readCh[q][l]
  BY WriteEffect DEF TInv
<1>2. toRedis' = toRedis /\ savedMax' = savedMax
  BY DEF WriteReadSeq
<1>3. \A u \in Users : item.seqs[u] <= savedMax[item.conv]
  BY <1>1 DEF ReadInv, ItemsWithin
<1>4. \A c \in Conv, u \in Users : readDB'[c][u] <= savedMax[c]
  BY <1>1, <1>3 DEF ReadInv, PositionsWithin
<1>5. ItemsWithin(readCh', savedMax)
  BY <1>1 DEF ReadInv, ItemsWithin
<1> QED
  BY <1>2, <1>4, <1>5 DEF ReadInv, PositionsWithin

LEMMA ReadStep ==
  ASSUME LastIsGreatest
  PROVE  TInv /\ TInv' /\ SavedInv /\ ReadInv /\ [Next]_vars => ReadInv'
<1> SUFFICES ASSUME TInv, TInv', SavedInv, ReadInv, [Next]_vars PROVE ReadInv'
  OBVIOUS
<1>1. savedMax \in [Conv -> Nat] /\ savedMax' \in [Conv -> Nat]
  BY DEF TInv, StoresOK
<1>2. CASE toRedis'.log = toRedis.log /\ readCh' = readCh /\ readDB' = readDB /\ savedMax' = savedMax
  <2>1. \A d \in Conv : savedMax[d] <= savedMax'[d]
    BY <1>1, <1>2
  <2> QED
    BY <1>1, <1>2, <2>1, ReadKept
<1>3. ASSUME NEW m \in Msg, ClientSend(m) PROVE ReadInv'
  <2>1. toRedis' = Send(toRedis, m) /\ Shape[m].reads = <<>> /\ UNCHANGED <<readCh, readDB, savedMax>>
    BY <1>3 DEF ClientSend, mysql
  <2>2. ReceiptsWithin(toRedis'.log, savedMax')
    BY <2>1, ReadSend
  <2> QED
    BY <2>1, <2>2 DEF ReadInv
<1>4. ASSUME NEW m \in Msg, SendReceipt(m) PROVE ReadInv'
  BY <1>4, ReadReceiptSent
<1>5. ASSUME NEW p \in Process, Deliver(p) PROVE ReadInv'
  <2>1. toRedis'.log = toRedis.log
    BY <1>5, ReadFacts DEF Deliver, TInv, TopicsOK
  <2> QED
    BY <1>2, <1>5, <2>1 DEF Deliver, mysql
<1>6. ASSUME NEW p \in Process, NEW e \in toRedis.pending, Claim(p, e) PROVE ReadInv'
  BY <1>2, <1>6 DEF Claim, mysql
<1>7. ASSUME NEW p \in Process, NEW k \in Key, Flush(p, k) \/ DropBatch(p, k) PROVE ReadInv'
  BY <1>2, <1>7 DEF Flush, DropBatch, mysql
<1>8. ASSUME NEW p \in Process, NEW k \in Key, ApplyReadReceipts(p, k) PROVE ReadInv'
  BY <1>8, ReadReceiptsApplied
<1>9. ASSUME NEW p \in Process, NEW k \in Key, LookupClient(p, k) \/ Reserve(p, k) PROVE ReadInv'
  BY <1>2, <1>9 DEF LookupClient, Reserve, mysql
<1>10. ASSUME NEW p \in Process, NEW k \in Key, Remember(p, k) \/ FillCache(p, k) PROVE ReadInv'
  BY <1>2, <1>10 DEF Remember, FillCache, mysql
<1>11. ASSUME NEW p \in Process, NEW k \in Key, SaveMax(p, k) PROVE ReadInv'
  <2>1. PICK w, c : w = W(p, k) /\ c = Head(w.jobs).conv
    OBVIOUS
  <2>2. \A d \in Conv : savedMax[d] <= savedMax'[d]
    BY <1>11, <2>1, SaveMaxEffect DEF TInv
  <2> QED
    BY <1>1, <1>11, <2>2, ReadKept DEF SaveMax
<1>12. ASSUME NEW p \in Process, NEW k \in Key, Ensure(p, k) PROVE ReadInv'
  BY <1>12, ReadEnsured
<1>13. ASSUME NEW p \in Process, NEW k \in Key, PublishMySQL(p, k) \/ PublishPush(p, k) PROVE ReadInv'
  BY <1>2, <1>13 DEF PublishMySQL, PublishPush, mysql
<1>14. ASSUME NEW p \in Process, NEW k \in Key, AckEntry(p, k) PROVE ReadInv'
  <2>1. PICK w : w = W(p, k)
    OBVIOUS
  <2>2. w.batch[w.at] \in 1..toRedis.read /\ toRedis' = Ack(toRedis, w.batch[w.at])
    BY <1>14, <2>1, AckEffect DEF TInv, WorkOK
  <2>3. toRedis'.log = toRedis.log
    BY <2>2, AckFacts DEF TInv, TopicsOK
  <2> QED
    BY <1>2, <1>14, <2>3 DEF AckEntry, mysql
<1>15. ASSUME NEW p \in Process, Crash(p) PROVE ReadInv'
  <2>1. /\ UNCHANGED <<toRedis, readDB, savedMax>>
        /\ \A q \in Process : readCh'[q] = readCh[q] \/ readCh'[q] = <<>>
    BY <1>15 DEF Crash, mysql, TInv, ProcessesOK
  <2>2. ItemsWithin(readCh', savedMax)
    BY <2>1 DEF ReadInv, ItemsWithin
  <2> QED
    BY <2>1, <2>2 DEF ReadInv
<1>16. ASSUME NEW p \in Process, WriteReadSeq(p) PROVE ReadInv'
  BY <1>16, ReadWritten
<1>17. ASSUME NEW e \in DOMAIN toMySQL.log, StoreBatch(e) PROVE ReadInv'
  BY <1>2, <1>17 DEF StoreBatch
<1>18. CASE UNCHANGED vars
  BY <1>2, <1>18 DEF vars, mysql
<1> QED
  BY <1>3, <1>4, <1>5, <1>6, <1>7, <1>8, <1>9, <1>10, <1>11, <1>12, <1>13, <1>14, <1>15, <1>16, <1>17, <1>18
  DEF Next, WorkerStep

(* Where the last number of every receipt is its greatest, no read position *)
(* in MySQL is beyond the conversation's max_seq, whether MarkMsgsAsRead,   *)
(* the batch worker or the read-seq writer raised it, in whatever order     *)
(* their writes arrive.                                                     *)
THEOREM TransferReadWithinMax ==
  ASSUME LastIsGreatest
  PROVE  Spec => []ReadWithinMax
<1>1. Init => ReadInv
  BY ReadAtStart
<1>2. TInv /\ TInv' /\ SavedInv /\ ReadInv /\ [Next]_vars => ReadInv'
  BY ReadStep
<1>3. ReadInv => ReadWithinMax
  BY DEF ReadInv, PositionsWithin, ReadWithinMax
<1> QED
  BY <1>1, <1>2, <1>3, SavedHolds, PTL DEF Spec

-----------------------------------------------------------------------------
(***************************************************************************)
(* RetryKeepsSeq.  While a client sends a message once, no batch outlives  *)
(* claimIdle and a message and its notification go to two conversations,   *)
(* every entry is in one pair of hands: it waits in one buffer or is in    *)
(* one batch.  So nobody remembers a number for a message that another     *)
(* batch found without one.                                                *)
(***************************************************************************)
SentOnce == Sends \in {0, 1} /\ SlowBatches = FALSE /\ \A m \in Msg : Chat[m] # Notice[m]

\* What a key's buffer and batch hold, each entry once.
Hands(w, held) == ToSet(held) \cup (IF w.pc = "idle" THEN {} ELSE ToSet(w.batch))
Distinct(s) == \A i, j \in DOMAIN s : s[i] = s[j] => i = j
OneHand(w, held) ==
  /\ Distinct(held)
  /\ w.pc # "idle" => Distinct(w.batch) /\ ToSet(w.batch) \cap ToSet(held) = {}

HoldInv ==
  /\ Distinct(toRedis.log)
  /\ \A p \in Process, k \in Key : OneHand(W(p, k), buffer[p][k])
  /\ \A p, q \in Process : \A k, l \in Key :
       p # q \/ k # l => Hands(W(p, k), buffer[p][k]) \cap Hands(W(q, l), buffer[q][l]) = {}

\* The messages of a job are those of entries of its batch; a stored job has
\* each once.
Drawn(j, batch, entries) ==
  /\ \A i \in DOMAIN j.msgs :
       Wants(j.msgs[i], j.conv, j.store) /\ \E b \in DOMAIN batch : j.msgs[i] = entries[batch[b]]
  /\ j.store => Distinct(j.msgs)
Draws(w, entries) == w.pc \in JobPcs => \A r \in DOMAIN w.jobs : Drawn(w.jobs[r], w.batch, entries)

Fresh(w) ==
  w.pc \in {"lookup", "malloc", "remember"} =>
    /\ Distinct(w.fresh)
    /\ w.pc = "lookup" => \A f \in DOMAIN w.fresh : w.fresh[f] < w.at

\* The i-th message of the job had no number and got none remembered yet.
Unknown(w, i) ==
  \/ w.pc \in {"lookup", "malloc"} /\ \E f \in DOMAIN w.fresh : w.fresh[f] = i
  \/ w.pc = "remember" /\ \E f \in DOMAIN w.fresh : f >= w.at /\ w.fresh[f] = i
Settled(w, i) == Head(w.jobs).store /\ ~ Unknown(w, i) /\ (w.pc = "lookup" => i < w.at)

Agrees(w, seen) ==
  w.pc \in JobPcs => \A i \in DOMAIN w.seqs :
    /\ Unknown(w, i) => Head(w.jobs).msgs[i] \notin DOMAIN seen[Head(w.jobs).conv]
    /\ Settled(w, i) => /\ Head(w.jobs).msgs[i] \in DOMAIN seen[Head(w.jobs).conv]
                        /\ seen[Head(w.jobs).conv][Head(w.jobs).msgs[i]] = w.seqs[i]

Good(w, entries, seen) == Draws(w, entries) /\ Fresh(w) /\ Agrees(w, seen)

\* A copy of m went out in c under n.
Given(c, m, n, seen) ==
  \/ n = 0 /\ Wants(m, c, Passing)
  \/ n # 0 /\ Wants(m, c, Storing) /\ m \in DOMAIN seen[c] /\ seen[c][m] = n

KeepInv ==
  /\ \A p \in Process, k \in Key : Good(W(p, k), toRedis.log, clientSeq)
  /\ \A i \in DOMAIN toPush : Given(toPush[i].conv, toPush[i].msg, toPush[i].seq, clientSeq)
  /\ \A e \in DOMAIN toMySQL.log : \A i \in DOMAIN toMySQL.log[e].seqs :
       Given(toMySQL.log[e].conv, toMySQL.log[e].msgs[i], toMySQL.log[e].seqs[i], clientSeq)

-----------------------------------------------------------------------------
(* Nobody holds an entry twice, and no two batches hold the same one.       *)
LEMMA JobsDistinct ==
  ASSUME NEW ms \in Seq(Msg), Distinct(ms), NEW j \in ToSet(Jobs(ms))
  PROVE  Distinct(j.msgs)
<1>1. InOrder(j.msgs, ms)
  <2>1. \A x \in ToSet(Jobs(ms)) : InOrder(x.msgs, ms)
    BY JobsFacts
  <2> QED
    BY <2>1
<1>2. j \in JobSet
  <2>1. Jobs(ms) \in Seq(JobSet)
    BY JobsFacts
  <2> QED
    BY <2>1 DEF ToSet
<1>3. PICK s \in Seq(Msg) : s = j.msgs
  BY <1>2 DEF JobSet
<1>4. ASSUME NEW i \in DOMAIN s, NEW l \in DOMAIN s, i < l, s[i] = s[l] PROVE FALSE
  <2>1. PICK x \in DOMAIN ms, y \in DOMAIN ms : x < y /\ s[i] = ms[x] /\ s[l] = ms[y]
    BY <1>1, <1>3, <1>4 DEF InOrder
  <2>2. x = y
    BY <1>4, <2>1 DEF Distinct
  <2> QED
    BY <2>1, <2>2
<1>5. \A i, l \in DOMAIN s : i < l \/ l < i \/ i = l
  BY <1>3
<1> QED
  BY <1>3, <1>4, <1>5 DEF Distinct

LEMMA DistinctAppend ==
  ASSUME NEW S, NEW s \in Seq(S), Distinct(s), NEW x \in S, x \notin ToSet(s)
  PROVE  Distinct(Append(s, x)) /\ ToSet(Append(s, x)) = ToSet(s) \cup {x}
<1>1. /\ DOMAIN Append(s, x) = 1..Len(s) + 1 /\ DOMAIN s = 1..Len(s) /\ Len(s) \in Nat
      /\ Append(s, x)[Len(s) + 1] = x /\ \A i \in 1..Len(s) : Append(s, x)[i] = s[i]
  BY AppendProperties
<1>2. \A i \in 1..Len(s) + 1 : i = Len(s) + 1 \/ i \in 1..Len(s)
  BY <1>1
<1>3. \A i \in 1..Len(s) : s[i] # x
  BY <1>1 DEF ToSet
<1>4. Distinct(Append(s, x))
  BY <1>1, <1>2, <1>3 DEF Distinct
<1>5. ToSet(Append(s, x)) = ToSet(s) \cup {x}
  BY Appended DEF ToSet
<1> QED
  BY <1>4, <1>5

LEMMA HoldAtStart == Init => HoldInv
BY DEF Init, HoldInv, OneHand, Hands, Distinct, W, Idle, EmptyQueue, ToSet

LEMMA HoldKept ==
  ASSUME HoldInv, Distinct(toRedis'.log),
         \A p \in Process, k \in Key :
           /\ OneHand(W(p, k)', buffer'[p][k])
           /\ Hands(W(p, k)', buffer'[p][k]) \subseteq Hands(W(p, k), buffer[p][k])
  PROVE  HoldInv'
<1>1. ASSUME NEW p \in Process, NEW q \in Process, NEW k \in Key, NEW l \in Key, p # q \/ k # l
      PROVE  Hands(W(p, k)', buffer'[p][k]) \cap Hands(W(q, l)', buffer'[q][l]) = {}
  <2>1. Hands(W(p, k), buffer[p][k]) \cap Hands(W(q, l), buffer[q][l]) = {}
    BY <1>1 DEF HoldInv
  <2>2. /\ Hands(W(p, k)', buffer'[p][k]) \subseteq Hands(W(p, k), buffer[p][k])
        /\ Hands(W(q, l)', buffer'[q][l]) \subseteq Hands(W(q, l), buffer[q][l])
    OBVIOUS
  <2> QED
    BY <2>1, <2>2
<1> QED
  BY <1>1 DEF HoldInv

\* A batch goes on with what it holds, or is over.
LEMMA HoldMove ==
  ASSUME TInv, HoldInv, NEW p \in Process, NEW k \in Key, NEW v \in Works, Go(p, k, v),
         buffer' = buffer, toRedis'.log = toRedis.log,
         v.pc = "idle" \/ (W(p, k).pc # "idle" /\ v.batch = W(p, k).batch)
  PROVE  HoldInv'
<1>1. W(p, k)' = v /\ \A q \in Process, l \in Key : q # p \/ l # k => W(q, l)' = W(q, l)
  BY GoFacts DEF TInv, ProcessesOK
<1>2. ASSUME NEW q \in Process, NEW l \in Key
      PROVE  /\ OneHand(W(q, l)', buffer'[q][l])
             /\ Hands(W(q, l)', buffer'[q][l]) \subseteq Hands(W(q, l), buffer[q][l])
  <2>1. OneHand(W(q, l), buffer[q][l])
    BY DEF HoldInv
  <2>2. CASE q # p \/ l # k
    BY <1>1, <2>1, <2>2
  <2>3. CASE q = p /\ l = k
    <3>1. OneHand(v, buffer[p][k]) /\ Hands(v, buffer[p][k]) \subseteq Hands(W(p, k), buffer[p][k])
      BY <2>1, <2>3 DEF OneHand, Hands
    <3> QED
      BY <1>1, <2>3, <3>1
  <2> QED
    BY <2>2, <2>3
<1>3. Distinct(toRedis'.log)
  BY DEF HoldInv
<1> QED
  BY <1>2, <1>3, HoldKept

\* An entry that nobody holds is delivered or claimed.
LEMMA HoldTake ==
  ASSUME TInv, HoldInv, NEW p \in Process, NEW e \in Nat, MsgAt(e) \in Msg, Buffer(p, e),
         work' = work, toRedis'.log = toRedis.log,
         \A q \in Process, l \in Key : e \notin Hands(W(q, l), buffer[q][l])
  PROVE  HoldInv'
<1>1. PICK k \in Key : k = Shape[MsgAt(e)].key
  BY DEF Key
<1>2. buffer \in [Process -> [Key -> Seq(Nat)]] /\ buffer' = [buffer EXCEPT ![p][k] = Append(@, e)]
  BY <1>1 DEF Buffer, TInv, ProcessesOK
<1>3. /\ buffer'[p][k] = Append(buffer[p][k], e)
      /\ \A q \in Process, l \in Key : q # p \/ l # k => buffer'[q][l] = buffer[q][l]
  BY <1>2
<1>4. \A q \in Process, l \in Key : W(q, l)' = W(q, l)
  BY DEF W
<1>5. buffer[p][k] \in Seq(Nat) /\ Distinct(buffer[p][k]) /\ e \notin ToSet(buffer[p][k])
  BY <1>2 DEF HoldInv, OneHand, Hands
<1>6. Distinct(buffer'[p][k]) /\ ToSet(buffer'[p][k]) = ToSet(buffer[p][k]) \cup {e}
  BY <1>3, <1>5, DistinctAppend
<1>7. Hands(W(p, k), buffer'[p][k]) = Hands(W(p, k), buffer[p][k]) \cup {e}
  BY <1>6 DEF Hands
<1>8. OneHand(W(p, k), buffer'[p][k])
  <2>1. OneHand(W(p, k), buffer[p][k]) /\ e \notin Hands(W(p, k), buffer[p][k])
    BY DEF HoldInv
  <2> QED
    BY <1>6, <2>1 DEF OneHand, Hands
<1>9. \A q \in Process, l \in Key : OneHand(W(q, l)', buffer'[q][l])
  BY <1>3, <1>4, <1>8 DEF HoldInv
<1>10. ASSUME NEW q \in Process, NEW o \in Process, NEW l \in Key, NEW n \in Key, q # o \/ l # n
       PROVE  Hands(W(q, l)', buffer'[q][l]) \cap Hands(W(o, n)', buffer'[o][n]) = {}
  <2>1. Hands(W(q, l), buffer[q][l]) \cap Hands(W(o, n), buffer[o][n]) = {}
    BY <1>10 DEF HoldInv
  <2>2. e \notin Hands(W(q, l), buffer[q][l]) /\ e \notin Hands(W(o, n), buffer[o][n])
    OBVIOUS
  <2>3. CASE q = p /\ l = k
    <3>1. buffer'[o][n] = buffer[o][n]
      BY <1>3, <1>10, <2>3
    <3> QED
      BY <1>4, <1>7, <2>1, <2>2, <2>3, <3>1
  <2>4. CASE o = p /\ n = k
    <3>1. buffer'[q][l] = buffer[q][l]
      BY <1>3, <1>10, <2>4
    <3> QED
      BY <1>4, <1>7, <2>1, <2>2, <2>4, <3>1
  <2>5. CASE ~ (q = p /\ l = k) /\ ~ (o = p /\ n = k)
    BY <1>3, <1>4, <2>1, <2>5
  <2> QED
    BY <2>3, <2>4, <2>5
<1> QED
  BY <1>9, <1>10 DEF HoldInv

LEMMA HandsRead ==
  ASSUME TInv, NEW p \in Process, NEW k \in Key
  PROVE  Hands(W(p, k), buffer[p][k]) \subseteq 1..toRedis.read
<1>1. WorkOK(W(p, k), toRedis.read) /\ \A i \in DOMAIN buffer[p][k] : buffer[p][k][i] \in 1..toRedis.read
  BY WorkFacts DEF TInv, ProcessesOK
<1> QED
  BY <1>1 DEF WorkOK, Hands, ToSet

LEMMA HoldDeliver ==
  ASSUME TInv, HoldInv, NEW p \in Process, Deliver(p)
  PROVE  HoldInv'
<1>1. PICK e : e = NextEntry(toRedis)
  OBVIOUS
<1>2. /\ toRedis'.log = toRedis.log /\ e \in DOMAIN toRedis.log /\ toRedis.read \in Nat
      /\ toRedis.log \in Seq(Msg)
  BY <1>1, ReadFacts, QueueFacts DEF TInv, TopicsOK, Deliver
<1>3. e = toRedis.read + 1 /\ e \in Nat /\ e \notin 1..toRedis.read
  BY <1>1, <1>2 DEF NextEntry
<1>4. MsgAt(e) \in Msg
  BY <1>2 DEF MsgAt
<1>5. \A q \in Process, l \in Key : e \notin Hands(W(q, l), buffer[q][l])
  BY <1>3, HandsRead
<1>6. Buffer(p, e) /\ work' = work
  BY <1>1 DEF Deliver
<1> QED
  BY <1>2, <1>3, <1>4, <1>5, <1>6, HoldTake

LEMMA HoldClaim ==
  ASSUME SentOnce, TInv, HoldInv, NEW p \in Process, NEW e \in toRedis.pending, Claim(p, e)
  PROVE  HoldInv'
<1>1. e \in DOMAIN toRedis.log /\ toRedis.log \in Seq(Msg)
  BY QueueFacts DEF TInv, TopicsOK
<1>2. e \in Nat /\ MsgAt(e) \in Msg
  BY <1>1 DEF MsgAt
<1>3. ~ Held(e)
  BY DEF Claim, SentOnce
<1>4. ASSUME NEW q \in Process, NEW l \in Key PROVE e \notin Hands(W(q, l), buffer[q][l])
  <2>1. W(q, l) = Idle <=> W(q, l).pc = "idle"
    BY WorkFacts DEF TInv
  <2>2. e \notin ToSet(buffer[q][l]) /\ ~ (W(q, l) # Idle /\ e \in ToSet(W(q, l).batch))
    BY <1>3 DEF Held, W
  <2> QED
    BY <2>1, <2>2 DEF Hands
<1>5. Buffer(p, e) /\ work' = work /\ toRedis'.log = toRedis.log
  BY DEF Claim
<1> QED
  BY <1>2, <1>4, <1>5, HoldTake

\* A client sends a message that is not in the queue yet.
LEMMA NotSent ==
  ASSUME SentOnce, TInv, NEW m \in Msg, Sent(m) < Sends
  PROVE  \A e \in DOMAIN toRedis.log : MsgAt(e) # m
<1> DEFINE S == {e \in DOMAIN toRedis.log : MsgAt(e) = m}
<1>1. S \in SUBSET DOMAIN toRedis.log /\ toRedis.log \in Seq(Msg)
  BY QueueFacts DEF TInv, TopicsOK
<1> HIDE DEF S
<1>2. IsFiniteSet(S)
  BY <1>1, Positions
<1>3. Cardinality(S) \in Nat /\ (Cardinality(S) = 0 <=> S = {})
  BY <1>2, FS_CardinalityType, FS_EmptySet
<1>4. Cardinality(S) < Sends
  BY DEF Sent, S
<1>5. S = {}
  <2>1. CASE Sends = 0
    BY <1>3, <1>4, <2>1
  <2>2. CASE Sends = 1
    BY <1>3, <1>4, <2>2
  <2> QED
    BY <2>1, <2>2 DEF SentOnce
<1> QED
  BY <1>5 DEF S

LEMMA HoldSend ==
  ASSUME SentOnce, TInv, HoldInv, NEW m \in Msg, ClientSend(m) \/ SendReceipt(m)
  PROVE  HoldInv'
<1>1. toRedis' = Send(toRedis, m) /\ Sent(m) < Sends /\ work' = work /\ buffer' = buffer
  BY DEF ClientSend, SendReceipt
<1>2. /\ DOMAIN toRedis'.log = DOMAIN toRedis.log \cup {Len(toRedis.log) + 1}
      /\ toRedis'.log[Len(toRedis.log) + 1] = m
      /\ \A e \in DOMAIN toRedis.log : toRedis'.log[e] = toRedis.log[e]
  BY <1>1, SendFacts DEF TInv, TopicsOK, Grown
<1>3. \A e \in DOMAIN toRedis.log : toRedis.log[e] # m
  BY <1>1, NotSent DEF MsgAt
<1>4. Distinct(toRedis.log)
  BY DEF HoldInv
<1>5. Distinct(toRedis'.log)
  BY <1>2, <1>3, <1>4 DEF Distinct
<1>6. \A p \in Process, k \in Key : W(p, k)' = W(p, k)
  BY <1>1 DEF W
<1>7. \A p \in Process, k \in Key : OneHand(W(p, k)', buffer'[p][k])
  BY <1>1, <1>6 DEF HoldInv
<1> QED
  BY <1>1, <1>5, <1>6, <1>7, HoldKept

LEMMA DistinctSlices ==
  ASSUME NEW s \in Seq(Nat), Distinct(s), NEW n \in 1..Len(s)
  PROVE  /\ Distinct(SubSeq(s, 1, n)) /\ Distinct(SubSeq(s, n + 1, Len(s)))
         /\ ToSet(SubSeq(s, 1, n)) \subseteq ToSet(s) /\ ToSet(SubSeq(s, n + 1, Len(s))) \subseteq ToSet(s)
         /\ ToSet(SubSeq(s, 1, n)) \cap ToSet(SubSeq(s, n + 1, Len(s))) = {}
<1>1. PICK a : a = SubSeq(s, 1, n)
  OBVIOUS
<1>2. PICK b : b = SubSeq(s, n + 1, Len(s))
  OBVIOUS
<1>3. a \in Seq(Nat) /\ b \in Seq(Nat) /\ Len(s) \in Nat /\ n \in Nat /\ DOMAIN s = 1..Len(s)
  BY <1>1, <1>2, SliceFacts
<1>4. DOMAIN a = 1..n
  <2>1. Len(a) = n
    BY <1>1, <1>3, SubSeqProperties
  <2> QED
    BY <1>3, <2>1
<1>5. /\ \A i \in DOMAIN a : i \in DOMAIN s /\ a[i] = s[i]
      /\ \A i \in DOMAIN b : i + n \in DOMAIN s /\ b[i] = s[i + n]
  BY <1>1, <1>2, SliceFacts
<1>6. \A i \in DOMAIN b : i \in Nat /\ i >= 1
  BY <1>3
<1>7. Distinct(a)
  BY <1>5 DEF Distinct
<1>8. Distinct(b)
  <2> SUFFICES ASSUME NEW i \in DOMAIN b, NEW j \in DOMAIN b, b[i] = b[j] PROVE i = j
    BY DEF Distinct
  <2>1. i + n = j + n
    BY <1>5 DEF Distinct
  <2> QED
    BY <1>3, <1>6, <2>1
<1>9. \A i \in DOMAIN a : \A j \in DOMAIN b : a[i] # b[j]
  <2> SUFFICES ASSUME NEW i \in DOMAIN a, NEW j \in DOMAIN b, a[i] = b[j] PROVE FALSE
    OBVIOUS
  <2>1. i = j + n
    BY <1>5 DEF Distinct
  <2> QED
    BY <1>3, <1>4, <1>6, <2>1
<1>10. ToSet(a) \subseteq ToSet(s) /\ ToSet(b) \subseteq ToSet(s)
  BY <1>5 DEF ToSet
<1>11. ToSet(a) \cap ToSet(b) = {}
  BY <1>9 DEF ToSet
<1> QED
  BY <1>1, <1>2, <1>7, <1>8, <1>10, <1>11

LEMMA HoldFlush ==
  ASSUME TInv, HoldInv, NEW p \in Process, NEW k \in Key, Flush(p, k)
  PROVE  HoldInv'
<1>1. PICK b \in Seq(Nat) : b = buffer[p][k] /\ Distinct(b) /\ buffer \in [Process -> [Key -> Seq(Nat)]]
  BY DEF HoldInv, OneHand, TInv, ProcessesOK
<1>2. PICK n \in 1..BatchSize :
        /\ n <= Len(b)
        /\ work' = [work EXCEPT ![p][k] = [pc |-> "receipts", batch |-> SubSeq(b, 1, n)]]
        /\ buffer' = [buffer EXCEPT ![p][k] = SubSeq(@, n + 1, Len(@))]
  BY <1>1 DEF Flush
<1>3. n \in 1..Len(b)
  BY <1>1, <1>2, BoundAssumption
<1>4. PICK v : v = [pc |-> "receipts", batch |-> SubSeq(b, 1, n)]
  OBVIOUS
<1>5. v \in Works /\ v.pc # "idle" /\ v.batch = SubSeq(b, 1, n)
  BY <1>3, <1>4, SliceFacts DEF Works, Collected
<1>6. W(p, k)' = v /\ \A q \in Process, l \in Key : q # p \/ l # k => W(q, l)' = W(q, l)
  BY <1>2, <1>4, <1>5, GoFacts DEF Go, TInv, ProcessesOK
<1>7. /\ buffer'[p][k] = SubSeq(b, n + 1, Len(b))
      /\ \A q \in Process, l \in Key : q # p \/ l # k => buffer'[q][l] = buffer[q][l]
  BY <1>1, <1>2
<1>8. OneHand(v, buffer'[p][k]) /\ Hands(v, buffer'[p][k]) \subseteq Hands(W(p, k), buffer[p][k])
  BY <1>1, <1>3, <1>5, <1>7, DistinctSlices DEF OneHand, Hands
<1>9. ASSUME NEW q \in Process, NEW l \in Key
      PROVE  /\ OneHand(W(q, l)', buffer'[q][l])
             /\ Hands(W(q, l)', buffer'[q][l]) \subseteq Hands(W(q, l), buffer[q][l])
  <2>1. CASE q = p /\ l = k
    BY <1>6, <1>8, <2>1
  <2>2. CASE q # p \/ l # k
    BY <1>6, <1>7, <2>2 DEF HoldInv
  <2> QED
    BY <2>1, <2>2
<1>10. toRedis' = toRedis
  BY DEF Flush
<1> QED
  BY <1>9, <1>10, HoldKept DEF HoldInv

LEMMA HoldCrash ==
  ASSUME TInv, HoldInv, NEW p \in Process, Crash(p)
  PROVE  HoldInv'
<1>1. /\ work \in [Process -> [Key -> Works]] /\ buffer \in [Process -> [Key -> Seq(Nat)]]
      /\ work' = [work EXCEPT ![p] = [k \in Key |-> Idle]]
      /\ buffer' = [buffer EXCEPT ![p] = [k \in Key |-> <<>>]]
      /\ toRedis' = toRedis
  BY DEF TInv, ProcessesOK, Crash
<1>2. OneHand(Idle, <<>>) /\ Hands(Idle, <<>>) = {}
  BY DEF OneHand, Hands, Idle, Distinct, ToSet
<1>3. ASSUME NEW q \in Process, NEW l \in Key
      PROVE  /\ OneHand(W(q, l)', buffer'[q][l])
             /\ Hands(W(q, l)', buffer'[q][l]) \subseteq Hands(W(q, l), buffer[q][l])
  <2>1. CASE q = p
    <3>1. W(q, l)' = Idle /\ buffer'[q][l] = <<>>
      BY <1>1, <2>1 DEF W
    <3> QED
      BY <1>2, <3>1
  <2>2. CASE q # p
    <3>1. W(q, l)' = W(q, l) /\ buffer'[q][l] = buffer[q][l]
      BY <1>1, <2>2 DEF W
    <3> QED
      BY <3>1 DEF HoldInv
  <2> QED
    BY <2>1, <2>2
<1> QED
  BY <1>1, <1>3, HoldKept DEF HoldInv

LEMMA HoldWork ==
  ASSUME TInv, HoldInv, NEW p \in Process, NEW k \in Key, WorkerStep(p, k) \/ DropBatch(p, k)
  PROVE  HoldInv'
<1>1. PICK w : w = W(p, k)
  OBVIOUS
<1>2. buffer' = buffer /\ toRedis'.log = toRedis.log
  <2>1. CASE AckEntry(p, k)
    <3>1. buffer' = buffer /\ toRedis' = Ack(toRedis, w.batch[w.at])
      BY <1>1, <2>1 DEF AckEntry
    <3>2. DOMAIN toRedis = {"log", "read", "pending"}
      BY DEF TInv, TopicsOK, QueueOK
    <3> QED
      BY <3>1, <3>2 DEF Ack
  <2>2. CASE DropBatch(p, k) \/ (WorkerStep(p, k) /\ ~ AckEntry(p, k))
    BY <2>2 DEF WorkerStep, DropBatch, ApplyReadReceipts, LookupClient, Reserve, Remember, FillCache,
       SaveMax, Ensure, PublishMySQL, PublishPush
  <2> QED
    BY <2>1, <2>2
<1>3. CASE LookupClient(p, k)
  <2>1. PICK j : j = Job(p, k)
    OBVIOUS
  <2>2. PICK v \in Works : Go(p, k, v) /\ SameJob(v, w) /\ w.pc = "lookup"
    BY <1>1, <1>3, <2>1, LookupEffect DEF TInv, Leaves
  <2> QED
    BY <1>1, <1>2, <2>2, HoldMove DEF SameJob
<1>4. CASE Reserve(p, k)
  <2>1. PICK c : c = Job(p, k).conv
    OBVIOUS
  <2>2. PICK v \in Works : Go(p, k, v) /\ SameJob(v, w) /\ w.pc = "malloc"
    BY <1>1, <1>4, <2>1, ReserveEffect DEF TInv, Leaves
  <2> QED
    BY <1>1, <1>2, <2>2, HoldMove DEF SameJob
<1>5. CASE Remember(p, k)
  <2>1. PICK c : c = Job(p, k).conv
    OBVIOUS
  <2>2. PICK v \in Works : Go(p, k, v) /\ SameJob(v, w) /\ w.pc = "remember"
    BY <1>1, <1>5, <2>1, RememberEffect DEF TInv, Leaves
  <2> QED
    BY <1>1, <1>2, <2>2, HoldMove DEF SameJob
<1>6. CASE FillCache(p, k) \/ SaveMax(p, k) \/ Ensure(p, k) \/ PublishMySQL(p, k)
  <2>1. w.pc \in {"cache", "save", "ensure", "mysql"} /\ Go(p, k, [w EXCEPT !.pc = After(w.pc)])
    BY <1>1, <1>6 DEF FillCache, SaveMax, Ensure, PublishMySQL, At, After
  <2>2. PICK v \in Works : Go(p, k, v) /\ SameJob(v, w)
    BY <1>1, <2>1, CallEffect DEF TInv, Leaves
  <2>3. w.pc # "idle"
    BY <2>1
  <2> QED
    BY <1>1, <1>2, <2>2, <2>3, HoldMove DEF SameJob
<1>7. CASE ApplyReadReceipts(p, k)
  <2>1. w.batch \in Seq(Nat) /\ w.pc = "receipts"
    BY <1>1, <1>7, ReceiptsEffect DEF TInv, Collected
  <2>2. PICK ms \in Seq(Msg), v \in Works : v = Begin(w.batch, Jobs(ms)) /\ Go(p, k, v)
    BY <1>1, <1>7, ReceiptsEffect DEF TInv
  <2>3. v.batch = w.batch
    BY <2>1, <2>2, JobsFacts, BeginFacts
  <2> QED
    BY <1>1, <1>2, <2>1, <2>2, <2>3, HoldMove
<1>8. CASE PublishPush(p, k)
  <2>1. w.batch \in Seq(Nat) /\ w.pc = "push"
    BY <1>1, <1>8, PushEffect DEF TInv
  <2>2. PICK v \in Works : /\ Go(p, k, v)
                           /\ \/ v = Begin(w.batch, Tail(w.jobs)) /\ Tail(w.jobs) \in Seq(JobSet)
                              \/ SameJob(v, w)
    BY <1>1, <1>8, PushEffect DEF TInv
  <2>3. CASE v = Begin(w.batch, Tail(w.jobs)) /\ Tail(w.jobs) \in Seq(JobSet)
    <3>1. v.batch = w.batch
      BY <2>1, <2>3, BeginFacts
    <3> QED
      BY <1>1, <1>2, <2>1, <2>2, <3>1, HoldMove
  <2>4. CASE SameJob(v, w)
    <3>1. v.batch = w.batch
      BY <2>4 DEF SameJob
    <3> QED
      BY <1>1, <1>2, <2>1, <2>2, <3>1, HoldMove
  <2> QED
    BY <2>2, <2>3, <2>4
<1>9. CASE AckEntry(p, k)
  <2>1. PICK v \in Works : Go(p, k, v) /\ (v = Idle \/ v.batch = w.batch) /\ w.pc = "ack"
    BY <1>1, <1>9, AckEffect DEF TInv
  <2> QED
    BY <1>1, <1>2, <2>1, HoldMove DEF Idle
<1>10. CASE DropBatch(p, k)
  <2>1. Go(p, k, Idle) /\ Idle \in Works /\ Idle.pc = "idle"
    BY <1>10 DEF DropBatch, Works, Idle
  <2> QED
    BY <1>2, <2>1, HoldMove
<1> QED
  BY <1>3, <1>4, <1>5, <1>6, <1>7, <1>8, <1>9, <1>10 DEF WorkerStep

LEMMA HoldStep == ASSUME SentOnce PROVE TInv /\ HoldInv /\ [Next]_vars => HoldInv'
<1> SUFFICES ASSUME TInv, HoldInv, [Next]_vars PROVE HoldInv'
  OBVIOUS
<1>1. ASSUME UNCHANGED <<toRedis, buffer, work>> PROVE HoldInv'
  BY <1>1 DEF HoldInv, W
<1>2. CASE \E p \in Process : WriteReadSeq(p)
  BY <1>1, <1>2 DEF WriteReadSeq
<1>3. CASE \E e \in DOMAIN toMySQL.log : StoreBatch(e)
  BY <1>1, <1>3 DEF StoreBatch
<1>4. CASE UNCHANGED vars
  BY <1>1, <1>4 DEF vars
<1> QED
  BY <1>2, <1>3, <1>4, HoldSend, HoldDeliver, HoldClaim, HoldFlush, HoldCrash, HoldWork DEF Next

-----------------------------------------------------------------------------
(* What a batch knows of its messages stays true while it works.            *)
LEMMA KeepAtStart == Init => KeepInv
BY DEF Init, KeepInv, Good, Draws, Fresh, Agrees, W, Idle, JobPcs, EmptyQueue

LEMMA GoodAtRest ==
  ASSUME NEW v, v.pc \notin JobPcs, NEW entries, NEW seen
  PROVE  Good(v, entries, seen)
BY DEF Good, Draws, Fresh, Agrees, JobPcs

LEMMA GoodKept ==
  ASSUME NEW w, NEW read, WorkOK(w, read), NEW entries, NEW more, NEW seen,
         \A e \in 1..read : more[e] = entries[e], Good(w, entries, seen)
  PROVE  Good(w, more, seen)
<1>1. w.pc \in JobPcs => \A b \in DOMAIN w.batch : more[w.batch[b]] = entries[w.batch[b]]
  BY DEF WorkOK, JobPcs
<1>2. Draws(w, more)
  BY <1>1 DEF Good, Draws, Drawn
<1> QED
  BY <1>2 DEF Good

LEMMA BeginGood ==
  ASSUME NEW batch \in Seq(Nat), NEW jobs \in Seq(JobSet), NEW entries, NEW seen,
         \A r \in DOMAIN jobs : Drawn(jobs[r], batch, entries)
  PROVE  Good(Begin(batch, jobs), entries, seen)
<1>1. PICK v : v = Begin(batch, jobs)
  OBVIOUS
<1>2. CASE jobs = <<>>
  <2>1. v.pc \notin JobPcs
    BY <1>1, <1>2, BeginFacts DEF JobPcs
  <2> QED
    BY <1>1, <2>1, GoodAtRest
<1>3. CASE jobs # <<>>
  <2>1. /\ v \in Working /\ v.jobs = jobs /\ v.batch = batch /\ v.pc \in {"lookup", "push"}
        /\ JobOK(v) /\ v.at = 1 /\ v.fresh = <<>>
        /\ \A i \in DOMAIN v.seqs : v.seqs[i] = 0
    BY <1>1, <1>3, BeginFacts
  <2>2. Draws(v, entries)
    BY <2>1 DEF Draws
  <2>3. Fresh(v)
    BY <2>1 DEF Fresh, Distinct
  <2>4. ASSUME NEW i \in DOMAIN v.seqs PROVE ~ Unknown(v, i) /\ ~ Settled(v, i)
    <3>1. ~ Unknown(v, i)
      BY <2>1 DEF Unknown
    <3>2. CASE v.pc = "lookup"
      <4>1. DOMAIN v.seqs = 1..Len(v.seqs)
        BY <2>1, JobFacts
      <4>2. ~ (i < v.at)
        BY <2>1, <4>1
      <4> QED
        BY <3>1, <3>2, <4>2 DEF Settled
    <3>3. CASE v.pc = "push"
      <4>1. v.seqs[i] = 0 /\ ~ (v.seqs[i] > 0)
        BY <2>1
      <4>2. ~ Head(v.jobs).store
        BY <2>1, <3>3, <4>1 DEF JobOK, Numbered
      <4> QED
        BY <3>1, <4>2 DEF Settled
    <3> QED
      BY <2>1, <3>1, <3>2, <3>3
  <2>5. Agrees(v, seen)
    BY <2>4 DEF Agrees
  <2> QED
    BY <1>1, <2>2, <2>3, <2>5 DEF Good
<1> QED
  BY <1>2, <1>3

\* One batch moves to a record that is good.
LEMMA GoodMove ==
  ASSUME TInv, KeepInv, NEW p \in Process, NEW k \in Key, NEW v \in Works, Go(p, k, v),
         toRedis'.log = toRedis.log, Good(v, toRedis.log, clientSeq)
  PROVE  \A q \in Process, l \in Key : Good(W(q, l)', toRedis'.log, clientSeq)
<1>1. W(p, k)' = v /\ \A q \in Process, l \in Key : q # p \/ l # k => W(q, l)' = W(q, l)
  BY GoFacts DEF TInv, ProcessesOK
<1> SUFFICES ASSUME NEW q \in Process, NEW l \in Key PROVE Good(W(q, l)', toRedis'.log, clientSeq)
  OBVIOUS
<1>2. CASE q = p /\ l = k
  BY <1>1, <1>2
<1>3. CASE q # p \/ l # k
  BY <1>1, <1>3 DEF KeepInv
<1> QED
  BY <1>2, <1>3

LEMMA KeepMove ==
  ASSUME TInv, KeepInv, NEW p \in Process, NEW k \in Key, NEW v \in Works, Go(p, k, v),
         UNCHANGED <<clientSeq, toPush, toMySQL>>, toRedis'.log = toRedis.log,
         Good(v, toRedis.log, clientSeq)
  PROVE  KeepInv'
<1>1. \A q \in Process, l \in Key : Good(W(q, l)', toRedis'.log, clientSeq)
  BY GoodMove
<1> QED
  BY <1>1 DEF KeepInv

LEMMA KeepSend ==
  ASSUME TInv, KeepInv, NEW m \in Msg, ClientSend(m) \/ SendReceipt(m)
  PROVE  KeepInv'
<1>1. toRedis' = Send(toRedis, m) /\ UNCHANGED <<work, clientSeq, toMySQL, toPush>>
  BY DEF ClientSend, SendReceipt, redis, topics
<1>2. \A e \in DOMAIN toRedis.log : toRedis'.log[e] = toRedis.log[e]
  BY <1>1, SendFacts DEF TInv, TopicsOK, Grown
<1>3. toRedis.read <= Len(toRedis.log) /\ toRedis.read \in Nat /\ DOMAIN toRedis.log = 1..Len(toRedis.log)
      /\ Len(toRedis.log) \in Nat
  BY QueueFacts DEF TInv, TopicsOK, QueueOK
<1>4. \A e \in 1..toRedis.read : toRedis'.log[e] = toRedis.log[e]
  BY <1>2, <1>3
<1>5. ASSUME NEW p \in Process, NEW k \in Key PROVE Good(W(p, k)', toRedis'.log, clientSeq)
  <2>1. PICK w : w = W(p, k)
    OBVIOUS
  <2>2. WorkOK(w, toRedis.read) /\ Good(w, toRedis.log, clientSeq)
    BY <2>1, WorkFacts DEF TInv, KeepInv
  <2>3. Good(w, toRedis'.log, clientSeq)
    BY <1>4, <2>2, GoodKept
  <2>4. W(p, k)' = w
    BY <1>1, <2>1 DEF W
  <2> QED
    BY <2>3, <2>4
<1> QED
  BY <1>1, <1>5 DEF KeepInv

LEMMA KeepReceipts ==
  ASSUME TInv, HoldInv, KeepInv, NEW p \in Process, NEW k \in Key, ApplyReadReceipts(p, k)
  PROVE  KeepInv'
<1>1. PICK w : w = W(p, k)
  OBVIOUS
<1>2. w \in Collected /\ w.pc = "receipts" /\ w.batch \in Seq(Nat) /\ WorkOK(w, toRedis.read)
  BY <1>1, ReceiptsEffect DEF TInv, Collected
<1>3. PICK ms \in Seq(Msg), v \in Works :
        /\ ms = [i \in DOMAIN w.batch |-> MsgAt(w.batch[i])] /\ v = Begin(w.batch, Jobs(ms)) /\ Go(p, k, v)
  BY <1>1, ReceiptsEffect DEF TInv
<1>4. DOMAIN ms = DOMAIN w.batch /\ \A i \in DOMAIN ms : ms[i] = toRedis.log[w.batch[i]]
  BY <1>3 DEF MsgAt
<1>5. \A i \in DOMAIN w.batch : w.batch[i] \in DOMAIN toRedis.log
  <2>1. toRedis.read <= Len(toRedis.log) /\ toRedis.read \in Nat /\ DOMAIN toRedis.log = 1..Len(toRedis.log)
        /\ Len(toRedis.log) \in Nat
    BY QueueFacts DEF TInv, TopicsOK, QueueOK
  <2>2. \A i \in DOMAIN w.batch : w.batch[i] \in 1..toRedis.read
    BY <1>2 DEF WorkOK
  <2> QED
    BY <2>1, <2>2
<1>6. Distinct(w.batch) /\ Distinct(toRedis.log)
  BY <1>1, <1>2 DEF HoldInv, OneHand
<1>7. Distinct(ms)
  BY <1>4, <1>5, <1>6 DEF Distinct
<1>8. PICK jobs \in Seq(JobSet) : jobs = Jobs(ms)
  BY JobsFacts
<1>9. ASSUME NEW r \in DOMAIN jobs PROVE Drawn(jobs[r], w.batch, toRedis.log)
  <2>1. PICK j \in ToSet(Jobs(ms)) : j = jobs[r]
    BY <1>8 DEF ToSet
  <2>2. Distinct(j.msgs)
    BY <1>7, JobsDistinct
  <2>3. \A x \in ToSet(Jobs(ms)) : \A i \in DOMAIN x.msgs :
          \E n \in DOMAIN ms : x.msgs[i] = ms[n] /\ Wants(ms[n], x.conv, x.store)
    BY JobsFacts
  <2>4. ASSUME NEW i \in DOMAIN j.msgs
        PROVE  Wants(j.msgs[i], j.conv, j.store) /\ \E b \in DOMAIN w.batch : j.msgs[i] = toRedis.log[w.batch[b]]
    <3>1. PICK n \in DOMAIN ms : j.msgs[i] = ms[n] /\ Wants(ms[n], j.conv, j.store)
      BY <2>3
    <3> QED
      BY <1>4, <3>1
  <2> QED
    BY <2>1, <2>2, <2>4 DEF Drawn
<1>10. Good(v, toRedis.log, clientSeq)
  BY <1>2, <1>3, <1>8, <1>9, BeginGood
<1>11. UNCHANGED <<clientSeq, toPush, toMySQL>> /\ toRedis'.log = toRedis.log
  BY DEF ApplyReadReceipts, redis, topics
<1> QED
  BY <1>3, <1>10, <1>11, KeepMove

LEMMA LookupGood ==
  ASSUME NEW w \in Working, JobOK(w), NEW v \in Working, SameJob(v, w), NEW entries, NEW seen,
         w.pc = "lookup", v.pc \in {"lookup", "malloc", "cache"}, DOMAIN v.seqs = DOMAIN w.seqs,
         NEW c, c = Head(w.jobs).conv, Looked(w, v, seen[c]), Good(w, entries, seen)
  PROVE  Good(v, entries, seen)
<1> DEFINE msgs == Head(w.jobs).msgs
<1>1. /\ DOMAIN w.seqs = 1..Len(w.seqs) /\ Len(w.seqs) \in Nat /\ w.fresh \in Seq(Nat)
      /\ DOMAIN w.fresh = 1..Len(w.fresh) /\ Len(w.fresh) \in Nat
      /\ w.at \in Nat /\ w.at \in DOMAIN w.seqs /\ Head(w.jobs).store
  BY JobFacts DEF Working, JobOK
<1>2. Draws(v, entries)
  BY DEF Good, Draws, SameJob, JobPcs
<1>3. Distinct(w.fresh) /\ \A f \in DOMAIN w.fresh : w.fresh[f] < w.at
  BY DEF Good, Fresh
<1>4. w.at \notin ToSet(w.fresh)
  <2>1. \A f \in DOMAIN w.fresh : w.fresh[f] # w.at
    BY <1>1, <1>3
  <2> QED
    BY <2>1 DEF ToSet
<1>5. CASE msgs[w.at] \in DOMAIN seen[c]
  <2>1. v.seqs[w.at] = seen[c][msgs[w.at]] /\ v.fresh = w.fresh
    BY <1>5 DEF Looked
  <2>2. Fresh(v)
    <3>1. v.pc = "lookup" => \A f \in DOMAIN w.fresh : w.fresh[f] < v.at
      BY <1>1, <1>3 DEF Looked
    <3> QED
      BY <1>3, <2>1, <3>1 DEF Fresh
  <2>3. ASSUME NEW i \in DOMAIN v.seqs, Unknown(v, i) PROVE msgs[i] \notin DOMAIN seen[c]
    <3>1. Unknown(w, i)
      BY <2>1, <2>3 DEF Unknown
    <3> QED
      BY <3>1 DEF Good, Agrees, JobPcs
  <2>4. ASSUME NEW i \in DOMAIN v.seqs, Settled(v, i) PROVE msgs[i] \in DOMAIN seen[c] /\ seen[c][msgs[i]] = v.seqs[i]
    <3>1. CASE i = w.at
      BY <1>5, <2>1, <3>1
    <3>2. CASE i # w.at
      <4>1. i < w.at
        BY <1>1, <2>4, <3>2 DEF Settled, Looked
      <4>2. ~ Unknown(w, i)
        <5>1. ASSUME NEW f \in DOMAIN w.fresh, w.fresh[f] = i PROVE FALSE
          <6>1. v.pc # "cache"
            BY <2>1, <5>1 DEF Looked
          <6>2. Unknown(v, i)
            BY <2>1, <5>1, <6>1 DEF Unknown
          <6> QED
            BY <2>4, <6>2 DEF Settled
        <5> QED
          BY <5>1 DEF Unknown
      <4>3. Settled(w, i)
        BY <1>1, <4>1, <4>2 DEF Settled
      <4>4. msgs[i] \in DOMAIN seen[c] /\ seen[c][msgs[i]] = w.seqs[i]
        BY <4>3 DEF Good, Agrees, JobPcs
      <4> QED
        BY <3>2, <4>4 DEF Looked
    <3> QED
      BY <3>1, <3>2
  <2>5. Agrees(v, seen)
    BY <2>3, <2>4 DEF Agrees, SameJob
  <2> QED
    BY <1>2, <2>2, <2>5 DEF Good
<1>6. CASE msgs[w.at] \notin DOMAIN seen[c]
  <2>1. v.fresh = Append(w.fresh, w.at)
    BY <1>6 DEF Looked
  <2>2. /\ \A f \in DOMAIN v.fresh : v.fresh[f] = w.at \/ (f \in DOMAIN w.fresh /\ v.fresh[f] = w.fresh[f])
        /\ \A f \in DOMAIN w.fresh : f \in DOMAIN v.fresh /\ v.fresh[f] = w.fresh[f]
        /\ w.at \in ToSet(v.fresh)
    BY <1>1, <2>1, Appended
  <2>3. Distinct(v.fresh)
    BY <1>1, <1>3, <1>4, <2>1, DistinctAppend
  <2>4. v.pc # "cache"
    BY <2>2 DEF Looked, ToSet
  <2>5. Fresh(v)
    <3>1. ASSUME v.pc = "lookup", NEW f \in DOMAIN v.fresh PROVE v.fresh[f] < v.at
      <4>1. v.at = w.at + 1
        BY <3>1 DEF Looked
      <4>2. CASE v.fresh[f] = w.at
        BY <1>1, <4>1, <4>2
      <4>3. CASE f \in DOMAIN w.fresh /\ v.fresh[f] = w.fresh[f]
        <5>1. w.fresh[f] \in Nat /\ w.fresh[f] < w.at
          BY <1>1, <1>3, <4>3
        <5> QED
          BY <1>1, <4>1, <4>3, <5>1
      <4> QED
        BY <2>2, <4>2, <4>3
    <3> QED
      BY <2>3, <3>1 DEF Fresh
  <2>6. ASSUME NEW i \in DOMAIN v.seqs, Unknown(v, i) PROVE msgs[i] \notin DOMAIN seen[c]
    <3>1. PICK f \in DOMAIN v.fresh : v.fresh[f] = i
      BY <2>6 DEF Unknown
    <3>2. CASE i = w.at
      BY <1>6, <3>2
    <3>3. CASE i # w.at
      <4>1. Unknown(w, i)
        BY <2>2, <3>1, <3>3 DEF Unknown
      <4> QED
        BY <4>1 DEF Good, Agrees, JobPcs
    <3> QED
      BY <3>2, <3>3
  <2>7. ASSUME NEW i \in DOMAIN v.seqs, Settled(v, i) PROVE msgs[i] \in DOMAIN seen[c] /\ seen[c][msgs[i]] = v.seqs[i]
    <3>1. \A f \in DOMAIN v.fresh : v.fresh[f] # i
      BY <2>4, <2>7 DEF Settled, Unknown
    <3>2. i # w.at
      BY <2>2, <3>1 DEF ToSet
    <3>3. i < w.at
      BY <1>1, <2>7, <3>2 DEF Settled, Looked
    <3>4. ~ Unknown(w, i)
      BY <2>2, <3>1 DEF Unknown
    <3>5. Settled(w, i)
      BY <1>1, <3>3, <3>4 DEF Settled
    <3>6. msgs[i] \in DOMAIN seen[c] /\ seen[c][msgs[i]] = w.seqs[i]
      BY <3>5 DEF Good, Agrees, JobPcs
    <3> QED
      BY <3>2, <3>6 DEF Looked
  <2>8. Agrees(v, seen)
    BY <2>6, <2>7 DEF Agrees, SameJob
  <2> QED
    BY <1>2, <2>5, <2>8 DEF Good
<1> QED
  BY <1>5, <1>6

LEMMA ReserveGood ==
  ASSUME NEW w \in Working, JobOK(w), NEW v \in Working, SameJob(v, w), NEW entries, NEW seen,
         w.pc = "malloc", v.pc = "remember", v.at = w.at, v.fresh = w.fresh, DOMAIN v.seqs = DOMAIN w.seqs,
         \A i \in DOMAIN v.seqs : i \notin ToSet(w.fresh) => v.seqs[i] = w.seqs[i],
         Good(w, entries, seen)
  PROVE  Good(v, entries, seen)
<1>1. w.at = 1 /\ DOMAIN w.fresh = 1..Len(w.fresh) /\ Len(w.fresh) \in Nat
  BY JobFacts DEF JobOK
<1>2. Draws(v, entries)
  BY DEF Good, Draws, SameJob, JobPcs
<1>3. Fresh(v)
  BY DEF Good, Fresh
<1>4. ASSUME NEW i \in DOMAIN v.seqs PROVE Unknown(v, i) <=> Unknown(w, i)
  <2>1. \A f \in DOMAIN w.fresh : f >= w.at
    BY <1>1
  <2> QED
    BY <2>1 DEF Unknown
<1>5. ASSUME NEW i \in DOMAIN v.seqs, Settled(v, i) PROVE Settled(w, i) /\ v.seqs[i] = w.seqs[i]
  <2>1. ~ Unknown(w, i) /\ Settled(w, i)
    BY <1>4, <1>5 DEF Settled, SameJob
  <2>2. i \notin ToSet(w.fresh)
    BY <2>1 DEF Unknown, ToSet
  <2> QED
    BY <2>1, <2>2
<1>6. Agrees(v, seen)
  <2>1. Agrees(w, seen) /\ w.pc \in JobPcs
    BY DEF Good, JobPcs
  <2> QED
    BY <1>4, <1>5, <2>1 DEF Agrees, SameJob
<1> QED
  BY <1>2, <1>3, <1>6 DEF Good

LEMMA CallGood ==
  ASSUME NEW w, NEW v, SameJob(v, w), NEW entries, NEW seen,
         w.pc \in {"cache", "save", "ensure", "mysql", "push"}, v.pc \in {"save", "ensure", "mysql", "push"},
         v.seqs = w.seqs, Good(w, entries, seen)
  PROVE  Good(v, entries, seen)
<1>1. Draws(v, entries)
  BY DEF Good, Draws, SameJob, JobPcs
<1>2. Fresh(v)
  BY DEF Fresh
<1>3. \A i : ~ Unknown(v, i) /\ ~ Unknown(w, i) /\ (Settled(v, i) <=> Settled(w, i))
  BY DEF Unknown, Settled, SameJob
<1>4. Agrees(v, seen)
  BY <1>3 DEF Good, Agrees, SameJob, JobPcs
<1> QED
  BY <1>1, <1>2, <1>4 DEF Good

\* The messages of the job in hand.
LEMMA HandJob ==
  ASSUME NEW w \in Working, JobOK(w), NEW entries, NEW seen, Good(w, entries, seen)
  PROVE  Drawn(Head(w.jobs), w.batch, entries)
<1>1. w.jobs \in Seq(JobSet) /\ w.jobs # <<>> /\ w.pc \in JobPcs
  BY DEF Working, JobOK
<1>2. 1 \in DOMAIN w.jobs /\ Head(w.jobs) = w.jobs[1]
  BY <1>1
<1> QED
  BY <1>1, <1>2 DEF Good, Draws

LEMMA RememberGood ==
  ASSUME NEW w \in Working, JobOK(w), NEW v \in Working, SameJob(v, w), NEW entries,
         w.pc = "remember", v.pc \in {"remember", "cache"}, v.seqs = w.seqs, v.fresh = w.fresh,
         w.at \in DOMAIN w.fresh, v.pc = "remember" => v.at = w.at + 1, v.pc = "cache" => w.at = Len(w.fresh),
         NEW i \in DOMAIN w.seqs, i = w.fresh[w.at], NEW c, c = Head(w.jobs).conv,
         NEW m, m = Head(w.jobs).msgs[i], Remembered(c, m, w.seqs[i]), Good(w, entries, clientSeq)
  PROVE  Good(v, entries, clientSeq') /\ m \notin DOMAIN clientSeq[c]
<1> DEFINE msgs == Head(w.jobs).msgs
<1>1. /\ DOMAIN w.fresh = 1..Len(w.fresh) /\ Len(w.fresh) \in Nat /\ w.at \in 1..Len(w.fresh)
      /\ DOMAIN msgs = DOMAIN w.seqs /\ Head(w.jobs).store
  BY JobFacts DEF JobOK
<1>2. Distinct(msgs)
  BY <1>1, HandJob DEF Drawn
<1>3. Distinct(w.fresh) /\ Agrees(w, clientSeq) /\ w.pc \in JobPcs
  BY DEF Good, Fresh, JobPcs
<1>4. Unknown(w, i)
  BY <1>1 DEF Unknown
<1>5. m \notin DOMAIN clientSeq[c]
  BY <1>3, <1>4 DEF Agrees
<1>6. \A l \in DOMAIN w.seqs : l # i => msgs[l] # m
  BY <1>1, <1>2 DEF Distinct
<1>7. Draws(v, entries)
  BY DEF Good, Draws, SameJob, JobPcs
<1>8. Fresh(v)
  BY <1>3 DEF Fresh
<1>9. ASSUME NEW l \in DOMAIN v.seqs, Unknown(v, l) PROVE msgs[l] \notin DOMAIN clientSeq'[c]
  <2>1. PICK f \in DOMAIN w.fresh : f >= v.at /\ w.fresh[f] = l /\ v.at = w.at + 1
    BY <1>9 DEF Unknown
  <2>2. f # w.at /\ f >= w.at
    BY <1>1, <2>1
  <2>3. l # i
    BY <1>3, <2>1, <2>2 DEF Distinct
  <2>4. Unknown(w, l)
    BY <2>1, <2>2 DEF Unknown
  <2>5. msgs[l] \notin DOMAIN clientSeq[c]
    BY <1>3, <2>4 DEF Agrees
  <2> QED
    BY <1>6, <2>3, <2>5 DEF Remembered
<1>10. ASSUME NEW l \in DOMAIN v.seqs, Settled(v, l)
       PROVE  msgs[l] \in DOMAIN clientSeq'[c] /\ clientSeq'[c][msgs[l]] = v.seqs[l]
  <2>1. CASE l = i
    BY <2>1 DEF Remembered
  <2>2. CASE l # i
    <3>1. ~ Unknown(w, l)
      <4>1. ASSUME NEW f \in DOMAIN w.fresh, f >= w.at, w.fresh[f] = l PROVE FALSE
        <5>1. f # w.at
          BY <2>2, <4>1
        <5>2. f >= w.at + 1 /\ w.at # Len(w.fresh)
          BY <1>1, <4>1, <5>1
        <5>3. v.pc = "remember"
          BY <5>2
        <5>4. Unknown(v, l)
          BY <4>1, <5>2, <5>3 DEF Unknown
        <5> QED
          BY <1>10, <5>4 DEF Settled
      <4> QED
        BY <4>1 DEF Unknown
    <3>2. Settled(w, l)
      BY <1>1, <3>1 DEF Settled
    <3>3. msgs[l] \in DOMAIN clientSeq[c] /\ clientSeq[c][msgs[l]] = w.seqs[l]
      BY <1>3, <3>2 DEF Agrees
    <3> QED
      BY <1>6, <2>2, <3>3 DEF Remembered
  <2> QED
    BY <2>1, <2>2
<1>11. Agrees(v, clientSeq')
  BY <1>9, <1>10 DEF Agrees, SameJob
<1> QED
  BY <1>5, <1>7, <1>8, <1>11 DEF Good

\* What another batch knows is untouched: the message is not one of its own.
LEMMA OthersGood ==
  ASSUME NEW u \in Working, JobOK(u), NEW entries, Good(u, entries, clientSeq),
         NEW c \in Conv, NEW m, NEW n, Remembered(c, m, n), m \notin DOMAIN clientSeq[c],
         \A b \in DOMAIN u.batch : entries[u.batch[b]] # m
  PROVE  Good(u, entries, clientSeq')
<1>1. Head(u.jobs).conv \in Conv /\ DOMAIN Head(u.jobs).msgs = DOMAIN u.seqs
  BY JobFacts
<1>2. \A i \in DOMAIN u.seqs : Head(u.jobs).msgs[i] # m
  BY <1>1, HandJob DEF Drawn
<1>3. Agrees(u, clientSeq) /\ Draws(u, entries) /\ Fresh(u)
  BY DEF Good
<1>4. CASE Head(u.jobs).conv = c
  <2>1. \A i \in DOMAIN u.seqs : /\ Head(u.jobs).msgs[i] \in DOMAIN clientSeq'[c] <=> Head(u.jobs).msgs[i] \in DOMAIN clientSeq[c]
                                 /\ Head(u.jobs).msgs[i] \in DOMAIN clientSeq[c]
                                      => clientSeq'[c][Head(u.jobs).msgs[i]] = clientSeq[c][Head(u.jobs).msgs[i]]
    BY <1>2 DEF Remembered
  <2>2. Agrees(u, clientSeq')
    BY <1>3, <1>4, <2>1 DEF Agrees
  <2> QED
    BY <1>3, <2>2 DEF Good
<1>5. CASE Head(u.jobs).conv # c
  <2>1. clientSeq'[Head(u.jobs).conv] = clientSeq[Head(u.jobs).conv]
    BY <1>1, <1>5 DEF Remembered
  <2>2. Agrees(u, clientSeq')
    BY <1>3, <2>1 DEF Agrees
  <2> QED
    BY <1>3, <2>2 DEF Good
<1> QED
  BY <1>4, <1>5

LEMMA GivenKept ==
  ASSUME NEW c \in Conv, NEW m, NEW n, Remembered(c, m, n), m \notin DOMAIN clientSeq[c],
         NEW d \in Conv, NEW x, NEW i, Given(d, x, i, clientSeq)
  PROVE  Given(d, x, i, clientSeq')
<1>1. CASE d = c
  BY <1>1 DEF Given, Remembered
<1>2. CASE d # c
  BY <1>2 DEF Given, Remembered
<1> QED
  BY <1>1, <1>2

LEMMA KeepRemember ==
  ASSUME TInv, HoldInv, KeepInv, NEW p \in Process, NEW k \in Key, Remember(p, k)
  PROVE  KeepInv'
<1>1. PICK w, c : w = W(p, k) /\ c = Job(p, k).conv
  OBVIOUS
<1>2. PICK v \in Works, i \in DOMAIN w.seqs, m \in Msg :
        /\ Leaves(p, k, w, v) /\ v \in Working /\ SameJob(v, w) /\ w.pc = "remember" /\ v.pc \in {"remember", "cache"}
        /\ v.seqs = w.seqs /\ v.fresh = w.fresh
        /\ c = Head(w.jobs).conv /\ c \in Conv /\ m = Head(w.jobs).msgs[i]
        /\ Remembered(c, m, w.seqs[i])
        /\ w.at \in DOMAIN w.fresh /\ i = w.fresh[w.at]
        /\ v.pc = "remember" => v.at = w.at + 1
        /\ v.pc = "cache" => w.at = Len(w.fresh)
  BY <1>1, RememberEffect DEF TInv, Leaves
<1>3. Go(p, k, v) /\ w \in Working /\ JobOK(w) /\ WorkOK(w, toRedis.read)
  BY <1>2 DEF Leaves
<1>4. Good(w, toRedis.log, clientSeq)
  BY <1>1 DEF KeepInv
<1>5. Good(v, toRedis.log, clientSeq') /\ m \notin DOMAIN clientSeq[c]
  BY <1>2, <1>3, <1>4, RememberGood
<1>6. UNCHANGED <<toRedis, toMySQL, toPush>>
  BY DEF Remember, topics
<1>7. PICK b \in DOMAIN w.batch : m = toRedis.log[w.batch[b]]
  <2>1. i \in DOMAIN Head(w.jobs).msgs
    BY <1>3, JobFacts
  <2> QED
    BY <1>2, <1>3, <1>4, <2>1, HandJob DEF Drawn
<1>8. toRedis.read <= Len(toRedis.log) /\ toRedis.read \in Nat /\ DOMAIN toRedis.log = 1..Len(toRedis.log)
      /\ Len(toRedis.log) \in Nat
  BY QueueFacts DEF TInv, TopicsOK, QueueOK
<1>9. W(p, k)' = v /\ \A q \in Process, l \in Key : q # p \/ l # k => W(q, l)' = W(q, l)
  BY <1>3, GoFacts DEF TInv, ProcessesOK
<1>10. ASSUME NEW q \in Process, NEW l \in Key, q # p \/ l # k PROVE Good(W(q, l), toRedis.log, clientSeq')
  <2>1. PICK u : u = W(q, l)
    OBVIOUS
  <2>2. Good(u, toRedis.log, clientSeq) /\ WorkOK(u, toRedis.read) /\ u \in Works
    BY <2>1, WorkFacts DEF KeepInv, TInv
  <2>3. CASE u.pc \notin JobPcs
    BY <2>1, <2>3, GoodAtRest
  <2>4. CASE u.pc \in JobPcs
    <3>1. u \in Working /\ JobOK(u) /\ u.pc # "idle" /\ w.pc # "idle"
      BY <1>2, <2>1, <2>2, <2>4, WorkFacts DEF WorkOK, TInv, JobPcs
    <3>2. ASSUME NEW x \in DOMAIN u.batch, toRedis.log[u.batch[x]] = m PROVE FALSE
      <4>1. u.batch[x] \in 1..toRedis.read /\ w.batch[b] \in 1..toRedis.read
        BY <1>2, <1>3, <2>2, <3>1 DEF WorkOK
      <4>2. u.batch[x] = w.batch[b]
        BY <1>7, <1>8, <3>2, <4>1 DEF HoldInv, Distinct
      <4>3. u.batch[x] \in Hands(u, buffer[q][l]) /\ w.batch[b] \in Hands(w, buffer[p][k])
        BY <3>1 DEF Hands, ToSet
      <4>4. Hands(u, buffer[q][l]) \cap Hands(w, buffer[p][k]) = {}
        BY <1>1, <1>10, <2>1 DEF HoldInv
      <4> QED
        BY <4>2, <4>3, <4>4
    <3>3. Good(u, toRedis.log, clientSeq')
      BY <1>2, <1>5, <2>2, <3>1, <3>2, OthersGood
    <3> QED
      BY <2>1, <3>3
  <2> QED
    BY <2>3, <2>4
<1>11. ASSUME NEW q \in Process, NEW l \in Key PROVE Good(W(q, l)', toRedis'.log, clientSeq')
  <2>1. CASE q = p /\ l = k
    BY <1>5, <1>6, <1>9, <2>1
  <2>2. CASE q # p \/ l # k
    BY <1>6, <1>9, <1>10, <2>2
  <2> QED
    BY <2>1, <2>2
<1>12. ASSUME NEW x \in DOMAIN toPush PROVE Given(toPush[x].conv, toPush[x].msg, toPush[x].seq, clientSeq')
  <2>1. Given(toPush[x].conv, toPush[x].msg, toPush[x].seq, clientSeq)
    BY DEF KeepInv
  <2>2. toPush[x] \in Pushes
    BY DEF TInv, TopicsOK
  <2>3. toPush[x].conv \in Conv
    BY <2>2 DEF Pushes
  <2> QED
    BY <1>2, <1>5, <2>1, <2>3, GivenKept
<1>13. ASSUME NEW e \in DOMAIN toMySQL.log, NEW x \in DOMAIN toMySQL.log[e].seqs
       PROVE  Given(toMySQL.log[e].conv, toMySQL.log[e].msgs[x], toMySQL.log[e].seqs[x], clientSeq')
  <2>1. Given(toMySQL.log[e].conv, toMySQL.log[e].msgs[x], toMySQL.log[e].seqs[x], clientSeq)
    BY DEF KeepInv
  <2>2. toMySQL.log[e].conv \in Conv
    BY BatchDomain DEF TInv, TopicsOK
  <2> QED
    BY <1>2, <1>5, <2>1, <2>2, GivenKept
<1> QED
  BY <1>6, <1>11, <1>12, <1>13 DEF KeepInv

LEMMA KeepCall ==
  ASSUME TInv, KeepInv, NEW p \in Process, NEW k \in Key,
         LookupClient(p, k) \/ Reserve(p, k) \/ FillCache(p, k) \/ SaveMax(p, k) \/ Ensure(p, k)
  PROVE  KeepInv'
<1>1. PICK w, j, c : w = W(p, k) /\ j = Job(p, k) /\ c = Job(p, k).conv
  OBVIOUS
<1>2. UNCHANGED <<toRedis, clientSeq, toPush, toMySQL>>
  BY DEF LookupClient, Reserve, FillCache, SaveMax, Ensure, redis, mysql, topics
<1>3. Good(w, toRedis.log, clientSeq)
  BY <1>1 DEF KeepInv
<1>4. CASE LookupClient(p, k)
  <2>1. PICK v \in Works :
          /\ Leaves(p, k, w, v) /\ v \in Working /\ SameJob(v, w)
          /\ w.pc = "lookup" /\ v.pc \in {"lookup", "malloc", "cache"} /\ j = Head(w.jobs)
          /\ DOMAIN v.seqs = DOMAIN w.seqs /\ Looked(w, v, clientSeq[j.conv])
    BY <1>1, <1>4, LookupEffect DEF TInv, Leaves
  <2>2. Go(p, k, v) /\ w \in Working /\ JobOK(w) /\ c = Head(w.jobs).conv /\ Looked(w, v, clientSeq[c])
    BY <1>1, <2>1 DEF Leaves
  <2>3. Good(v, toRedis.log, clientSeq)
    BY <1>3, <2>1, <2>2, LookupGood
  <2> QED
    BY <1>2, <2>2, <2>3, KeepMove
<1>5. CASE Reserve(p, k)
  <2>1. PICK v \in Works :
          /\ Leaves(p, k, w, v) /\ v \in Working /\ SameJob(v, w) /\ w.pc = "malloc" /\ v.pc = "remember"
          /\ v.fresh = w.fresh /\ DOMAIN v.seqs = DOMAIN w.seqs /\ v.at = w.at
          /\ \A i \in DOMAIN v.seqs :
               IF i \in ToSet(w.fresh) THEN v.seqs[i] > counter[c] /\ v.seqs[i] <= counter'[c]
               ELSE v.seqs[i] = w.seqs[i]
    BY <1>1, <1>5, ReserveEffect DEF TInv, Leaves
  <2>2. Go(p, k, v) /\ w \in Working /\ JobOK(w)
    BY <2>1 DEF Leaves
  <2>3. \A i \in DOMAIN v.seqs : i \notin ToSet(w.fresh) => v.seqs[i] = w.seqs[i]
    BY <2>1
  <2>4. Good(v, toRedis.log, clientSeq)
    BY <1>3, <2>1, <2>2, <2>3, ReserveGood
  <2> QED
    BY <1>2, <2>2, <2>4, KeepMove
<1>6. CASE FillCache(p, k) \/ SaveMax(p, k) \/ Ensure(p, k)
  <2>1. w.pc \in {"cache", "save", "ensure"} /\ Go(p, k, [w EXCEPT !.pc = After(w.pc)])
    BY <1>1, <1>6 DEF FillCache, SaveMax, Ensure, At, After
  <2>2. PICK v \in Works : Go(p, k, v) /\ SameJob(v, w) /\ v.seqs = w.seqs /\ v.pc = After(w.pc)
    BY <1>1, <2>1, CallEffect DEF TInv, Leaves
  <2>3. v.pc \in {"save", "ensure", "mysql", "push"}
    BY <2>1, <2>2 DEF After
  <2>4. Good(v, toRedis.log, clientSeq)
    BY <1>3, <2>1, <2>2, <2>3, CallGood
  <2> QED
    BY <1>2, <2>2, <2>4, KeepMove
<1> QED
  BY <1>4, <1>5, <1>6

\* A numbered job in hand past the reservation.
LEMMA SettledGiven ==
  ASSUME NEW w \in Working, JobOK(w), w.pc \in {"mysql", "push"}, Head(w.jobs).store,
         NEW entries, NEW seen, Good(w, entries, seen), NEW i \in DOMAIN w.seqs
  PROVE  Given(Head(w.jobs).conv, Head(w.jobs).msgs[i], w.seqs[i], seen)
<1>1. w.seqs[i] > 0 /\ w.seqs[i] \in Nat /\ DOMAIN Head(w.jobs).msgs = DOMAIN w.seqs /\ Head(w.jobs) \in JobSet
  BY JobFacts DEF JobOK, Numbered
<1>2. Head(w.jobs).store = Storing
  BY <1>1 DEF JobSet, Storing
<1>3. Wants(Head(w.jobs).msgs[i], Head(w.jobs).conv, Storing)
  <2>1. Wants(Head(w.jobs).msgs[i], Head(w.jobs).conv, Head(w.jobs).store)
    BY <1>1, HandJob DEF Drawn
  <2> QED
    BY <1>2, <2>1
<1>4. Settled(w, i)
  BY DEF Settled, Unknown
<1>5. Head(w.jobs).msgs[i] \in DOMAIN seen[Head(w.jobs).conv] /\ seen[Head(w.jobs).conv][Head(w.jobs).msgs[i]] = w.seqs[i]
  BY <1>4 DEF Good, Agrees, JobPcs
<1> QED
  BY <1>1, <1>3, <1>5 DEF Given

LEMMA PassedGiven ==
  ASSUME NEW w \in Working, JobOK(w), w.pc = "push", ~ Head(w.jobs).store,
         NEW entries, NEW seen, Good(w, entries, seen), NEW i \in DOMAIN w.seqs
  PROVE  Given(Head(w.jobs).conv, Head(w.jobs).msgs[i], w.seqs[i], seen)
<1>1. w.seqs[i] = 0 /\ DOMAIN Head(w.jobs).msgs = DOMAIN w.seqs /\ Head(w.jobs) \in JobSet
  BY JobFacts DEF JobOK
<1>2. Head(w.jobs).store = Passing
  BY <1>1 DEF JobSet, Passing
<1>3. Wants(Head(w.jobs).msgs[i], Head(w.jobs).conv, Head(w.jobs).store)
  BY <1>1, HandJob DEF Drawn
<1> QED
  BY <1>1, <1>2, <1>3 DEF Given

LEMMA KeepPublish ==
  ASSUME TInv, KeepInv, NEW p \in Process, NEW k \in Key, PublishMySQL(p, k)
  PROVE  KeepInv'
<1>1. PICK w : w = W(p, k)
  OBVIOUS
<1>2. w.pc = "mysql" /\ Go(p, k, [w EXCEPT !.pc = "push"])
  BY <1>1 DEF PublishMySQL, At
<1>3. PICK v \in Works : Leaves(p, k, w, v) /\ SameJob(v, w) /\ v.seqs = w.seqs /\ v.pc = "push" /\ Head(w.jobs).store
  BY <1>1, <1>2, CallEffect DEF TInv, Leaves, After
<1>4. PICK b \in Batches : /\ b.conv = Head(w.jobs).conv /\ b.msgs = Head(w.jobs).msgs /\ b.seqs = w.seqs
                           /\ toMySQL' = Send(toMySQL, b)
  BY <1>1, PublishEffect DEF TInv
<1>5. Good(w, toRedis.log, clientSeq) /\ Go(p, k, v) /\ w \in Working /\ JobOK(w)
  BY <1>1, <1>3 DEF KeepInv, Leaves
<1>6. Good(v, toRedis.log, clientSeq)
  BY <1>2, <1>3, <1>5, CallGood
<1>7. UNCHANGED <<toRedis, clientSeq, toPush>>
  BY DEF PublishMySQL, redis
<1>8. \A q \in Process, l \in Key : Good(W(q, l)', toRedis'.log, clientSeq)
  BY <1>5, <1>6, <1>7, GoodMove
<1>9. \A i \in DOMAIN b.seqs : Given(b.conv, b.msgs[i], b.seqs[i], clientSeq)
  BY <1>2, <1>3, <1>4, <1>5, SettledGiven
<1>10. \A e \in DOMAIN toMySQL'.log : toMySQL'.log[e] = b \/ (e \in DOMAIN toMySQL.log /\ toMySQL'.log[e] = toMySQL.log[e])
  BY <1>4, SendFacts DEF TInv, TopicsOK, Grown
<1>11. ASSUME NEW e \in DOMAIN toMySQL'.log, NEW i \in DOMAIN toMySQL'.log[e].seqs
       PROVE  Given(toMySQL'.log[e].conv, toMySQL'.log[e].msgs[i], toMySQL'.log[e].seqs[i], clientSeq)
  <2>1. CASE toMySQL'.log[e] = b
    BY <1>9, <2>1
  <2>2. CASE e \in DOMAIN toMySQL.log /\ toMySQL'.log[e] = toMySQL.log[e]
    BY <2>2 DEF KeepInv
  <2> QED
    BY <1>10, <2>1, <2>2
<1> QED
  BY <1>7, <1>8, <1>11 DEF KeepInv

LEMMA KeepPush ==
  ASSUME TInv, KeepInv, NEW p \in Process, NEW k \in Key, PublishPush(p, k)
  PROVE  KeepInv'
<1>1. PICK w : w = W(p, k)
  OBVIOUS
<1>2. w.pc = "push" /\ w \in Working /\ JobOK(w) /\ w.at \in DOMAIN w.seqs /\ w.batch \in Seq(Nat)
  BY <1>1, PushEffect DEF TInv
<1>3. PICK x \in Pushes : /\ toPush' = Append(toPush, x)
                          /\ x.conv = Head(w.jobs).conv /\ x.msg = Head(w.jobs).msgs[w.at] /\ x.seq = w.seqs[w.at]
  BY <1>1, PushEffect DEF TInv
<1>4. PICK v \in Works : /\ Go(p, k, v)
                         /\ \/ v = Begin(w.batch, Tail(w.jobs)) /\ Tail(w.jobs) \in Seq(JobSet)
                            \/ SameJob(v, w) /\ v.pc = "push" /\ v.seqs = w.seqs
  BY <1>1, PushEffect DEF TInv
<1>5. Good(w, toRedis.log, clientSeq)
  BY <1>1 DEF KeepInv
<1>6. Good(v, toRedis.log, clientSeq)
  <2>1. ASSUME v = Begin(w.batch, Tail(w.jobs)) /\ Tail(w.jobs) \in Seq(JobSet) PROVE Good(v, toRedis.log, clientSeq)
    <3>1. PICK jobs \in Seq(JobSet) : jobs = Tail(w.jobs)
      BY <2>1
    <3>2. w.jobs \in Seq(JobSet) /\ w.jobs # <<>>
      BY <1>2 DEF Working, JobOK
    <3>3. \A r \in DOMAIN jobs : r + 1 \in DOMAIN w.jobs /\ jobs[r] = w.jobs[r + 1]
      BY <3>1, <3>2
    <3>4. \A r \in DOMAIN jobs : Drawn(jobs[r], w.batch, toRedis.log)
      BY <1>2, <1>5, <3>3 DEF Good, Draws, JobPcs
    <3> QED
      BY <1>2, <2>1, <3>1, <3>4, BeginGood
  <2>2. ASSUME SameJob(v, w) /\ v.pc = "push" /\ v.seqs = w.seqs PROVE Good(v, toRedis.log, clientSeq)
    BY <1>2, <1>5, <2>2, CallGood
  <2> QED
    BY <1>4, <2>1, <2>2
<1>7. UNCHANGED <<toRedis, clientSeq, toMySQL>>
  BY DEF PublishPush, redis
<1>8. \A q \in Process, l \in Key : Good(W(q, l)', toRedis'.log, clientSeq)
  BY <1>4, <1>6, <1>7, GoodMove
<1>9. Given(x.conv, x.msg, x.seq, clientSeq)
  <2>1. CASE Head(w.jobs).store
    BY <1>2, <1>3, <1>5, <2>1, SettledGiven
  <2>2. CASE ~ Head(w.jobs).store
    BY <1>2, <1>3, <1>5, <2>2, PassedGiven
  <2> QED
    BY <2>1, <2>2
<1>10. \A i \in DOMAIN toPush' : toPush'[i] = x \/ (i \in DOMAIN toPush /\ toPush'[i] = toPush[i])
  BY <1>3, Appended DEF TInv, TopicsOK
<1>11. \A i \in DOMAIN toPush' : Given(toPush'[i].conv, toPush'[i].msg, toPush'[i].seq, clientSeq)
  BY <1>9, <1>10 DEF KeepInv
<1> QED
  BY <1>7, <1>8, <1>11 DEF KeepInv

LEMMA KeepRest ==
  ASSUME TInv, KeepInv, NEW p \in Process, NEW k \in Key, Flush(p, k) \/ AckEntry(p, k) \/ DropBatch(p, k)
  PROVE  KeepInv'
<1>1. UNCHANGED <<clientSeq, toPush, toMySQL>>
  BY DEF Flush, AckEntry, DropBatch, redis, topics
<1>2. CASE Flush(p, k)
  <2>1. PICK v \in Collected : Go(p, k, v) /\ v \in Works
    BY <1>2, FlushEffect DEF TInv
  <2>2. Good(v, toRedis.log, clientSeq)
    BY <2>1, GoodAtRest DEF Collected, JobPcs
  <2>3. toRedis' = toRedis
    BY <1>2 DEF Flush
  <2> QED
    BY <1>1, <2>1, <2>2, <2>3, KeepMove
<1>3. CASE AckEntry(p, k)
  <2>1. PICK w : w = W(p, k)
    OBVIOUS
  <2>2. PICK v \in Works : Go(p, k, v) /\ (v = Idle \/ v \in Acking)
    BY <1>3, <2>1, AckEffect DEF TInv
  <2>3. Good(v, toRedis.log, clientSeq)
    <3>1. v.pc \notin JobPcs
      BY <2>2 DEF Idle, Acking, JobPcs
    <3> QED
      BY <3>1, GoodAtRest
  <2>4. toRedis'.log = toRedis.log
    <3>1. toRedis' = Ack(toRedis, w.batch[w.at]) /\ DOMAIN toRedis = {"log", "read", "pending"}
      BY <1>3, <2>1 DEF AckEntry, TInv, TopicsOK, QueueOK
    <3> QED
      BY <3>1 DEF Ack
  <2> QED
    BY <1>1, <2>2, <2>3, <2>4, KeepMove
<1>4. CASE DropBatch(p, k)
  <2>1. Go(p, k, Idle) /\ Idle \in Works /\ toRedis' = toRedis
    BY <1>4 DEF DropBatch, Works
  <2>2. Good(Idle, toRedis.log, clientSeq)
    BY GoodAtRest DEF Idle, JobPcs
  <2> QED
    BY <1>1, <2>1, <2>2, KeepMove
<1> QED
  BY <1>2, <1>3, <1>4

LEMMA KeepCrash ==
  ASSUME TInv, KeepInv, NEW p \in Process, Crash(p)
  PROVE  KeepInv'
<1>1. /\ work \in [Process -> [Key -> Works]] /\ work' = [work EXCEPT ![p] = [k \in Key |-> Idle]]
      /\ UNCHANGED <<toRedis, clientSeq, toMySQL, toPush>>
  BY DEF TInv, ProcessesOK, Crash, redis, topics
<1>2. Good(Idle, toRedis.log, clientSeq)
  BY GoodAtRest DEF Idle, JobPcs
<1>3. \A q \in Process, l \in Key : W(q, l)' = W(q, l) \/ W(q, l)' = Idle
  BY <1>1 DEF W
<1>4. \A q \in Process, l \in Key : Good(W(q, l)', toRedis'.log, clientSeq)
  BY <1>1, <1>2, <1>3 DEF KeepInv
<1> QED
  BY <1>1, <1>4 DEF KeepInv

LEMMA KeepOutside ==
  ASSUME TInv, KeepInv,
         \/ \E p \in Process : Deliver(p) \/ WriteReadSeq(p)
         \/ \E p \in Process, e \in toRedis.pending : Claim(p, e)
         \/ \E e \in DOMAIN toMySQL.log : StoreBatch(e)
         \/ UNCHANGED vars
  PROVE  KeepInv'
<1>1. ASSUME UNCHANGED <<work, clientSeq, toPush>>, toRedis'.log = toRedis.log, toMySQL'.log = toMySQL.log PROVE KeepInv'
  BY <1>1 DEF KeepInv, W
<1>2. CASE \E p \in Process : Deliver(p)
  <2>1. toRedis'.log = toRedis.log
    BY <1>2, ReadFacts DEF Deliver, TInv, TopicsOK
  <2> QED
    BY <1>1, <1>2, <2>1 DEF Deliver, redis, topics
<1>3. CASE \E p \in Process : WriteReadSeq(p)
  BY <1>1, <1>3 DEF WriteReadSeq, redis, topics
<1>4. CASE \E p \in Process, e \in toRedis.pending : Claim(p, e)
  BY <1>1, <1>4 DEF Claim, redis, topics
<1>5. CASE \E e \in DOMAIN toMySQL.log : StoreBatch(e)
  <2>1. toMySQL'.log = toMySQL.log
    BY <1>5, StoreEffect DEF TInv
  <2> QED
    BY <1>1, <1>5, <2>1 DEF StoreBatch, redis
<1>6. CASE UNCHANGED vars
  BY <1>1, <1>6 DEF vars, redis, topics
<1> QED
  BY <1>2, <1>3, <1>4, <1>5, <1>6

LEMMA KeepStep == TInv /\ HoldInv /\ KeepInv /\ [Next]_vars => KeepInv'
<1> SUFFICES ASSUME TInv, HoldInv, KeepInv, [Next]_vars PROVE KeepInv'
  OBVIOUS
<1>1. CASE \E p \in Process, k \in Key : WorkerStep(p, k)
  BY <1>1, KeepReceipts, KeepCall, KeepRemember, KeepPublish, KeepPush, KeepRest DEF WorkerStep
<1>2. CASE \E p \in Process, k \in Key : Flush(p, k) \/ DropBatch(p, k)
  BY <1>2, KeepRest
<1>3. CASE \E p \in Process : Crash(p)
  BY <1>3, KeepCrash
<1>4. CASE \E m \in Msg : ClientSend(m) \/ SendReceipt(m)
  BY <1>4, KeepSend
<1> QED
  BY <1>1, <1>2, <1>3, <1>4, KeepOutside DEF Next

(* A message keeps its number through every retry of its batch: whatever    *)
(* fails or crashes between the lookup of its client id, the reservation    *)
(* and the two topics, all copies of it in a conversation bear one number.  *)
(* Without SentOnce this is not so, which is what the runs show.            *)
THEOREM TransferRetryKeepsSeq ==
  ASSUME SentOnce
  PROVE  Spec => []RetryKeepsSeq
<1>1. Init => TInv /\ HoldInv /\ KeepInv
  BY TypesAtStart, HoldAtStart, KeepAtStart
<1>2. TInv /\ HoldInv /\ KeepInv /\ [Next]_vars => (TInv /\ HoldInv /\ KeepInv)'
  BY StepKeepsTypes, HoldStep, KeepStep
<1>3. TInv /\ KeepInv => RetryKeepsSeq
  <2> SUFFICES ASSUME TInv, KeepInv, NEW x \in Copies, NEW y \in Copies, x.conv = y.conv, x.msg = y.msg
               PROVE  x.seq = y.seq
    BY DEF RetryKeepsSeq
  <2>1. ASSUME NEW z \in Copies PROVE z.msg \in Msg /\ Given(z.conv, z.msg, z.seq, clientSeq)
    <3>1. CASE \E i \in DOMAIN toPush : z = [conv |-> toPush[i].conv, msg |-> toPush[i].msg, seq |-> toPush[i].seq]
      <4>1. PICK i \in DOMAIN toPush : z = [conv |-> toPush[i].conv, msg |-> toPush[i].msg, seq |-> toPush[i].seq]
        BY <3>1
      <4>2. toPush[i] \in Pushes
        BY DEF TInv, TopicsOK
      <4>3. z.conv = toPush[i].conv /\ z.msg = toPush[i].msg /\ z.seq = toPush[i].seq
        BY <4>1
      <4> QED
        BY <4>2, <4>3 DEF Pushes, KeepInv
    <3>2. CASE \E b \in ToSet(toMySQL.log) : \E i \in DOMAIN b.msgs : z = [conv |-> b.conv, msg |-> b.msgs[i], seq |-> b.seqs[i]]
      <4>1. PICK e \in DOMAIN toMySQL.log : \E i \in DOMAIN toMySQL.log[e].msgs :
              z = [conv |-> toMySQL.log[e].conv, msg |-> toMySQL.log[e].msgs[i], seq |-> toMySQL.log[e].seqs[i]]
        BY <3>2 DEF ToSet
      <4>2. PICK i \in DOMAIN toMySQL.log[e].msgs :
              z = [conv |-> toMySQL.log[e].conv, msg |-> toMySQL.log[e].msgs[i], seq |-> toMySQL.log[e].seqs[i]]
        BY <4>1
      <4>3. z.conv = toMySQL.log[e].conv /\ z.msg = toMySQL.log[e].msgs[i] /\ z.seq = toMySQL.log[e].seqs[i]
        BY <4>2
      <4>4. /\ i \in DOMAIN toMySQL.log[e].seqs /\ toMySQL.log[e].msgs[i] \in Msg
        BY BatchDomain DEF TInv, TopicsOK
      <4> QED
        BY <4>3, <4>4 DEF KeepInv
    <3> QED
      BY <3>1, <3>2 DEF Copies
  <2>2. PICK m, c : m \in Msg /\ m = x.msg /\ m = y.msg /\ c = x.conv /\ c = y.conv
    BY <2>1
  <2>3. Given(c, m, x.seq, clientSeq) /\ Given(c, m, y.seq, clientSeq)
    BY <2>1, <2>2
  <2>4. ~ (Wants(m, c, Passing) /\ Wants(m, c, Storing))
    BY <2>2 DEF Wants, Passing, Storing, SentOnce
  <2> QED
    BY <2>3, <2>4 DEF Given
<1> QED
  BY <1>1, <1>2, <1>3, PTL DEF Spec

-----------------------------------------------------------------------------
(***************************************************************************)
(* NumberedInOrder.  While nothing fails and one process reads the queue,  *)
(* the entries of a key pass through its buffer and its batch in line:     *)
(* who is ahead is done or in the batch, nobody comes back, and a batch    *)
(* numbers its messages in their order, above every number given before.   *)
(***************************************************************************)
\* Chats and notifications have conversations of their own.
Apart == \A m, n \in Msg : Chat[m] # Notice[n]
\* One process reads.
Alone == \A p, q \in Process : p = q

Ranked(s) == \A i, j \in DOMAIN s : i < j => s[i] < s[j]

\* A key's hands hold its entries in order, the batch first, and of what was
\* delivered everything after the first of them.
InLine(k, w, held, entries, read) ==
  /\ Ranked(held)
  /\ w.pc # "idle" => Ranked(w.batch) /\ \A e \in ToSet(w.batch), f \in ToSet(held) : e < f
  /\ \A e \in Hands(w, held) : Shape[entries[e]].key = k
  /\ \A e \in Hands(w, held), f \in 1..read :
       e < f /\ Shape[entries[f]].key = k => f \in Hands(w, held)

\* Acknowledgements are in order, and only what is held is pending.
AcksInLine(w, pending) == w.pc = "ack" => \A b \in DOMAIN w.batch : b < w.at => w.batch[b] \notin pending
PendingHeld(pending, entries) ==
  \A e \in pending, p \in Process, k \in Key :
    Shape[entries[e]].key = k => e \in Hands(W(p, k), buffer[p][k])

\* No conversation is stored to by two jobs of a batch.
Sole(jobs) == \A r, s \in DOMAIN jobs :
  jobs[r].store /\ jobs[s].store /\ jobs[r].conv = jobs[s].conv => r = s

\* A job has its messages in the order of the batch.
Follows(msgs, batch, entries) == \A i, l \in DOMAIN msgs : i < l =>
  \E x, y \in DOMAIN batch : x < y /\ msgs[i] = entries[batch[x]] /\ msgs[l] = entries[batch[y]]

\* Nothing that a batch has yet to number is numbered.
Untouched(batch, entries, seen) == \A b \in DOMAIN batch : entries[batch[b]] \notin DOMAIN seen
Ahead(w, entries, seen) ==
  /\ w.pc = "receipts" => \A c \in Conv : Untouched(w.batch, entries, seen[c])
  /\ w.pc \in JobPcs =>
       /\ Sole(w.jobs)
       /\ \A r \in DOMAIN w.jobs :
            /\ Follows(w.jobs[r].msgs, w.batch, entries)
            /\ w.jobs[r].store /\ (r # 1 \/ w.pc \in {"lookup", "malloc"})
                 => Untouched(w.batch, entries, seen[w.jobs[r].conv])
  /\ w.pc \in {"lookup", "malloc", "remember"} => Ranked(w.fresh)

\* The numbers reserved rise with the messages, above those given before.
Rising(k, w, entries, seen) ==
  /\ \A x, y \in DOMAIN w.fresh : x < y => w.seqs[w.fresh[x]] < w.seqs[w.fresh[y]]
  /\ \A b \in DOMAIN w.batch : entries[w.batch[b]] \in DOMAIN seen =>
       \E x \in DOMAIN w.fresh : x < w.at /\ Head(w.jobs).msgs[w.fresh[x]] = entries[w.batch[b]]
  /\ \A m \in DOMAIN seen :
       Shape[m].key = k /\ (\A b \in DOMAIN w.batch : entries[w.batch[b]] # m)
         => \A x \in DOMAIN w.fresh : seen[m] < w.seqs[w.fresh[x]]
Climbs(k, w, entries, seen) ==
  w.pc = "remember" => Rising(k, w, entries, seen[Head(w.jobs).conv])

\* Who has a number was delivered and waits no more.
Known(seen, entries, read, held) ==
  \A c \in Conv : \A m \in DOMAIN seen[c] : \E e \in 1..read :
    entries[e] = m /\ \A p \in Process, k \in Key : e \notin ToSet(held[p][k])

Sorted(seen, entries) ==
  \A e, f \in DOMAIN entries : \A c \in Conv :
    (/\ e < f /\ Shape[entries[e]].key = Shape[entries[f]].key
     /\ entries[e] \in DOMAIN seen[c] /\ entries[f] \in DOMAIN seen[c])
      => seen[c][entries[e]] <= seen[c][entries[f]]

Orderly(k, w, held) ==
  /\ InLine(k, w, held, toRedis.log, toRedis.read)
  /\ AcksInLine(w, toRedis.pending)
  /\ Ahead(w, toRedis.log, clientSeq)
  /\ Climbs(k, w, toRedis.log, clientSeq)

Lined ==
  /\ \A p \in Process, k \in Key : Orderly(k, W(p, k), buffer[p][k])
  /\ PendingHeld(toRedis.pending, toRedis.log)
  /\ Known(clientSeq, toRedis.log, toRedis.read, buffer)
  /\ Sorted(clientSeq, toRedis.log)

LineInv == Alone /\ faults = 0 => Lined

-----------------------------------------------------------------------------
(* A batch stores to a conversation in one job.                             *)
LEMMA StoredSole ==
  ASSUME NEW ms \in Seq(Msg), NEW at \in SUBSET DOMAIN ms, NEW conv \in [Msg -> Conv]
  PROVE  Sole(Stored(ms, at, conv))
<1> DEFINE firsts == {n \in at : \A k \in at : k < n => conv[ms[k]] # conv[ms[n]]}
           N == Cardinality(firsts)
           P == Stored(ms, at, conv)
<1>1. at \in SUBSET Nat
  BY Positions
<1>2. firsts \in SUBSET DOMAIN ms /\ firsts \in SUBSET at
  OBVIOUS
<1>3. \A n \in firsts, k \in at : k < n => conv[ms[k]] # conv[ms[n]]
  OBVIOUS
<1>4. DOMAIN P = 1..N /\ \A i \in 1..N : P[i].conv = conv[ms[Nth(firsts, i)]]
  BY DEF Stored
<1> HIDE DEF firsts, N, P
<1>5. firsts \in SUBSET Nat /\ IsFiniteSet(firsts) /\ Cardinality(firsts) \in Nat
  BY <1>2, Positions
<1>6. ASSUME NEW i \in 1..N, NEW l \in 1..N, i < l PROVE P[i].conv # P[l].conv
  <2>1. Nth(firsts, i) \in firsts /\ Nth(firsts, l) \in firsts
    BY <1>5, NthPosition DEF N
  <2>2. Nth(firsts, i) < Nth(firsts, l)
    BY <1>5, <1>6, NthIncreases DEF N
  <2>3. conv[ms[Nth(firsts, i)]] # conv[ms[Nth(firsts, l)]]
    BY <1>2, <1>3, <2>1, <2>2
  <2> QED
    BY <1>4, <2>3
<1>7. \A i, l \in 1..N : i < l \/ l < i \/ i = l
  BY <1>5 DEF N
<1>8. Sole(P)
  BY <1>4, <1>6, <1>7 DEF Sole
<1> QED
  BY <1>8 DEF P

LEMMA SoleConcat ==
  ASSUME NEW s \in Seq(JobSet), NEW t \in Seq(JobSet), Sole(s), Sole(t),
         \A x \in ToSet(s), y \in ToSet(t) : x.store /\ y.store => x.conv # y.conv
  PROVE  Sole(s \o t)
<1> DEFINE u == s \o t
<1>1. /\ DOMAIN s = 1..Len(s) /\ DOMAIN t = 1..Len(t) /\ Len(s) \in Nat /\ Len(t) \in Nat
      /\ DOMAIN u = 1..Len(s) + Len(t)
      /\ \A i \in 1..Len(s) + Len(t) : u[i] = IF i <= Len(s) THEN s[i] ELSE t[i - Len(s)]
  OBVIOUS
<1> HIDE DEF u
<1>2. ASSUME NEW i \in DOMAIN u
      PROVE  \/ i <= Len(s) /\ i \in DOMAIN s /\ u[i] = s[i]
             \/ ~ (i <= Len(s)) /\ i - Len(s) \in DOMAIN t /\ u[i] = t[i - Len(s)]
  BY <1>1
<1> SUFFICES ASSUME NEW i \in DOMAIN u, NEW l \in DOMAIN u, u[i].store, u[l].store, u[i].conv = u[l].conv
             PROVE  i = l
  BY DEF Sole, u
<1>3. \A x \in DOMAIN s, y \in DOMAIN t : s[x].store /\ t[y].store => s[x].conv # t[y].conv
  BY DEF ToSet
<1>4. CASE i <= Len(s) /\ l <= Len(s)
  BY <1>2, <1>4 DEF Sole
<1>5. CASE ~ (i <= Len(s)) /\ ~ (l <= Len(s))
  <2>1. i - Len(s) = l - Len(s)
    BY <1>2, <1>5 DEF Sole
  <2> QED
    BY <1>1, <2>1
<1>6. CASE i <= Len(s) /\ ~ (l <= Len(s))
  BY <1>2, <1>3, <1>6
<1>7. CASE ~ (i <= Len(s)) /\ l <= Len(s)
  <2>1. s[l].conv # t[i - Len(s)].conv
    BY <1>2, <1>3, <1>7
  <2> QED
    BY <1>2, <1>7, <2>1
<1> QED
  BY <1>4, <1>5, <1>6, <1>7

LEMMA PartMember ==
  ASSUME NEW jobs, NEW ms, NEW at, NEW conv, NEW st, Part(jobs, ms, at, conv, st), NEW j \in ToSet(jobs)
  PROVE  j.store = st /\ \E n \in at : j.conv = conv[ms[n]]
<1>1. PICK r \in DOMAIN jobs : j = jobs[r]
  BY DEF ToSet
<1>2. jobs \in Seq(JobSet)
  BY DEF Part
<1>3. jobs[r] \in JobSet
  BY <1>2
<1>4. PICK s \in Seq(Msg) : s = j.msgs /\ s # <<>>
  BY <1>1, <1>3 DEF JobSet
<1>5. 1 \in DOMAIN j.msgs
  BY <1>4
<1> QED
  BY <1>5, PartWants

LEMMA PassingSole ==
  ASSUME NEW jobs, NEW ms, NEW at, NEW conv, Part(jobs, ms, at, conv, Passing)
  PROVE  Sole(jobs) /\ \A x \in ToSet(jobs) : ~ x.store
BY PartMember DEF Sole, Part, Passing, ToSet

LEMMA JobsSole ==
  ASSUME Apart, NEW ms \in Seq(Msg)
  PROVE  Sole(Jobs(ms))
<1> DEFINE chats == {n \in DOMAIN ms : IF Shape[ms[n]].notice THEN Shape[ms[n]].sendMsg ELSE Shape[ms[n]].history}
           transient == {n \in DOMAIN ms : ~Shape[ms[n]].notice /\ ~Shape[ms[n]].history}
           notices == {n \in DOMAIN ms : Shape[ms[n]].notice /\ Shape[ms[n]].history}
           alerts == {n \in DOMAIN ms : Shape[ms[n]].notice /\ ~Shape[ms[n]].history}
<1>1. /\ chats \in SUBSET DOMAIN ms /\ transient \in SUBSET DOMAIN ms
      /\ notices \in SUBSET DOMAIN ms /\ alerts \in SUBSET DOMAIN ms
  OBVIOUS
<1>2. Jobs(ms) = PushOnly(ms, transient, Chat) \o Stored(ms, chats, Chat)
                   \o PushOnly(ms, alerts, Notice) \o Stored(ms, notices, Notice)
  BY DEF Jobs
<1> HIDE DEF chats, transient, notices, alerts
<1>3. PICK A : A = PushOnly(ms, transient, Chat) /\ Part(A, ms, transient, Chat, Passing)
  BY <1>1, PushOnlyPart, ConversationTypes
<1>4. PICK B : B = Stored(ms, chats, Chat) /\ Part(B, ms, chats, Chat, Storing) /\ Sole(B)
  BY <1>1, StoredPart, StoredSole, ConversationTypes
<1>5. PICK C : C = PushOnly(ms, alerts, Notice) /\ Part(C, ms, alerts, Notice, Passing)
  BY <1>1, PushOnlyPart, ConversationTypes
<1>6. PICK D : D = Stored(ms, notices, Notice) /\ Part(D, ms, notices, Notice, Storing) /\ Sole(D)
  BY <1>1, StoredPart, StoredSole, ConversationTypes
<1>7. /\ A \in Seq(JobSet) /\ B \in Seq(JobSet)
      /\ C \in Seq(JobSet) /\ D \in Seq(JobSet)
  BY <1>3, <1>4, <1>5, <1>6 DEF Part
<1>8. Sole(A) /\ Sole(C) /\ \A x \in ToSet(A) \cup ToSet(C) : ~ x.store
  BY <1>3, <1>5, PassingSole
<1>9. PICK AB \in Seq(JobSet) : AB = A \o B /\ ToSet(AB) = ToSet(A) \cup ToSet(B) /\ Sole(AB)
  <2>1. Sole(A \o B)
    BY <1>4, <1>7, <1>8, SoleConcat
  <2>2. A \o B \in Seq(JobSet) /\ ToSet(A \o B) = ToSet(A) \cup ToSet(B)
    BY <1>7, ConcatMembers
  <2> QED
    BY <2>1, <2>2
<1>10. PICK ABC \in Seq(JobSet) : ABC = AB \o C /\ ToSet(ABC) = ToSet(AB) \cup ToSet(C) /\ Sole(ABC)
  <2>1. Sole(AB \o C)
    BY <1>7, <1>8, <1>9, SoleConcat
  <2>2. AB \o C \in Seq(JobSet) /\ ToSet(AB \o C) = ToSet(AB) \cup ToSet(C)
    BY <1>7, ConcatMembers
  <2> QED
    BY <2>1, <2>2
<1>11. ASSUME NEW x \in ToSet(ABC), NEW y \in ToSet(D), x.store, y.store PROVE x.conv # y.conv
  <2>1. x \in ToSet(B)
    BY <1>8, <1>9, <1>10, <1>11
  <2>2. PICK n \in chats : x.conv = Chat[ms[n]]
    BY <1>4, <2>1, PartMember
  <2>3. PICK l \in notices : y.conv = Notice[ms[l]]
    BY <1>6, <1>11, PartMember
  <2>4. ms[n] \in Msg /\ ms[l] \in Msg
    BY <1>1
  <2> QED
    BY <2>2, <2>3, <2>4 DEF Apart
<1>12. Sole(ABC \o D)
  BY <1>6, <1>7, <1>10, <1>11, SoleConcat
<1> QED
  BY <1>2, <1>3, <1>4, <1>5, <1>6, <1>9, <1>10, <1>12

LEMMA LineAtStart == Init => LineInv
<1> SUFFICES ASSUME Init PROVE Lined
  BY DEF LineInv
<1>1. ASSUME NEW p \in Process, NEW k \in Key PROVE W(p, k).pc = "idle" /\ buffer[p][k] = <<>>
  BY DEF Init, W, Idle
<1>2. ASSUME NEW p \in Process, NEW k \in Key PROVE Orderly(k, W(p, k), buffer[p][k])
  BY <1>1 DEF Orderly, InLine, AcksInLine, Ahead, Climbs, Hands, Ranked, ToSet, JobPcs
<1>3. toRedis.pending = {} /\ DOMAIN toRedis.log = {} /\ \A c \in Conv : DOMAIN clientSeq[c] = {}
  BY DEF Init, EmptyQueue
<1> QED
  BY <1>2, <1>3 DEF Lined, PendingHeld, Known, Sorted

LEMMA LineHands ==
  ASSUME NEW k, NEW v, NEW w, v.pc # "idle", w.pc # "idle", v.batch = w.batch, NEW held, NEW entries, NEW read
  PROVE  /\ Hands(v, held) = Hands(w, held)
         /\ InLine(k, w, held, entries, read) => InLine(k, v, held, entries, read)
<1>1. Hands(v, held) = Hands(w, held)
  BY DEF Hands
<1> QED
  BY <1>1 DEF InLine

\* A batch goes on with what it holds.
LEMMA LineMove ==
  ASSUME TInv, Lined, NEW p \in Process, NEW k \in Key, NEW v \in Works, Go(p, k, v), UNCHANGED <<toRedis, buffer>>,
         v.pc # "idle", W(p, k).pc # "idle", v.batch = W(p, k).batch, AcksInLine(v, toRedis.pending)
  PROVE  /\ \A q \in Process, l \in Key :
              /\ InLine(l, W(q, l)', buffer'[q][l], toRedis'.log, toRedis'.read)
              /\ AcksInLine(W(q, l)', toRedis'.pending)
         /\ PendingHeld(toRedis.pending, toRedis.log)'
<1>1. W(p, k)' = v /\ \A q \in Process, l \in Key : q # p \/ l # k => W(q, l)' = W(q, l)
  BY GoFacts DEF TInv, ProcessesOK
<1>2. ASSUME NEW q \in Process, NEW l \in Key
      PROVE  /\ Hands(W(q, l)', buffer'[q][l]) = Hands(W(q, l), buffer[q][l])
             /\ InLine(l, W(q, l)', buffer'[q][l], toRedis'.log, toRedis'.read)
             /\ AcksInLine(W(q, l)', toRedis'.pending)
  <2>1. InLine(l, W(q, l), buffer[q][l], toRedis.log, toRedis.read) /\ AcksInLine(W(q, l), toRedis.pending)
    BY DEF Lined, Orderly
  <2>2. CASE q = p /\ l = k
    BY <1>1, <2>1, <2>2, LineHands
  <2>3. CASE q # p \/ l # k
    BY <1>1, <2>1, <2>3
  <2> QED
    BY <2>2, <2>3
<1>3. PendingHeld(toRedis.pending, toRedis.log)
  BY DEF Lined
<1>4. PendingHeld(toRedis.pending, toRedis.log)'
  BY <1>2, <1>3 DEF PendingHeld
<1> QED
  BY <1>2, <1>4

LEMMA LineGo ==
  ASSUME TInv, Lined, NEW p \in Process, NEW k \in Key, NEW v \in Works, Go(p, k, v),
         UNCHANGED <<toRedis, buffer, clientSeq>>,
         v.pc # "idle", W(p, k).pc # "idle", v.batch = W(p, k).batch, AcksInLine(v, toRedis.pending),
         Ahead(v, toRedis.log, clientSeq), Climbs(k, v, toRedis.log, clientSeq)
  PROVE  Lined'
<1>1. W(p, k)' = v /\ \A q \in Process, l \in Key : q # p \/ l # k => W(q, l)' = W(q, l)
  BY GoFacts DEF TInv, ProcessesOK
<1>2. /\ \A q \in Process, l \in Key :
           /\ InLine(l, W(q, l)', buffer'[q][l], toRedis'.log, toRedis'.read)
           /\ AcksInLine(W(q, l)', toRedis'.pending)
      /\ PendingHeld(toRedis.pending, toRedis.log)'
  BY LineMove
<1>3. ASSUME NEW q \in Process, NEW l \in Key
      PROVE  Ahead(W(q, l)', toRedis'.log, clientSeq') /\ Climbs(l, W(q, l)', toRedis'.log, clientSeq')
  <2>1. CASE q = p /\ l = k
    BY <1>1, <2>1
  <2>2. CASE q # p \/ l # k
    BY <1>1, <2>2 DEF Lined, Orderly
  <2> QED
    BY <2>1, <2>2
<1>4. Known(clientSeq', toRedis'.log, toRedis'.read, buffer') /\ Sorted(clientSeq', toRedis'.log)
  BY DEF Lined
<1> QED
  BY <1>2, <1>3, <1>4 DEF Lined, Orderly

\* Which holds when a batch begins its jobs.
LEMMA LineBegin ==
  ASSUME NEW batch \in Seq(Nat), NEW jobs \in Seq(JobSet), NEW entries, NEW seen, NEW pending, NEW k, Sole(jobs),
         \A r \in DOMAIN jobs : /\ Follows(jobs[r].msgs, batch, entries)
                                /\ jobs[r].store => Untouched(batch, entries, seen[jobs[r].conv])
  PROVE  /\ Ahead(Begin(batch, jobs), entries, seen) /\ Climbs(k, Begin(batch, jobs), entries, seen)
         /\ AcksInLine(Begin(batch, jobs), pending)
<1>1. PICK v : v = Begin(batch, jobs)
  OBVIOUS
<1>2. \A b \in DOMAIN batch : ~ (b < 1)
  OBVIOUS
<1>3. CASE jobs = <<>>
  <2>1. v.pc = "ack" /\ v.at = 1 /\ v.batch = batch
    BY <1>1, <1>3, BeginFacts
  <2> QED
    BY <1>1, <1>2, <2>1 DEF Ahead, Climbs, AcksInLine, JobPcs
<1>4. CASE jobs # <<>>
  <2>1. v.jobs = jobs /\ v.batch = batch /\ v.pc \in {"lookup", "push"} /\ v.fresh = <<>>
    BY <1>1, <1>4, BeginFacts
  <2>2. Ranked(v.fresh)
    BY <2>1 DEF Ranked
  <2> QED
    BY <1>1, <2>1, <2>2 DEF Ahead, Climbs, AcksInLine
<1> QED
  BY <1>3, <1>4

LEMMA RankedAppend ==
  ASSUME NEW s \in Seq(Nat), Ranked(s), NEW x \in Nat, \A i \in DOMAIN s : s[i] < x
  PROVE  Ranked(Append(s, x))
<1>1. /\ DOMAIN Append(s, x) = 1..Len(s) + 1 /\ DOMAIN s = 1..Len(s) /\ Len(s) \in Nat
      /\ Append(s, x)[Len(s) + 1] = x /\ \A i \in 1..Len(s) : Append(s, x)[i] = s[i]
  BY AppendProperties
<1>2. \A i, j \in 1..Len(s) + 1 : i < j => i \in 1..Len(s) /\ (j = Len(s) + 1 \/ j \in 1..Len(s))
  BY <1>1
<1> QED
  BY <1>1, <1>2 DEF Ranked

\* What a delivered entry is.
LEMMA LineEntries ==
  ASSUME TInv, NEW p \in Process, NEW k \in Key, NEW w, w = W(p, k), w.pc # "idle"
  PROVE  /\ w.batch \in Seq(Nat) /\ toRedis.log \in Seq(Msg)
         /\ \A b \in DOMAIN w.batch : w.batch[b] \in 1..toRedis.read /\ w.batch[b] \in DOMAIN toRedis.log
         /\ \A b \in DOMAIN w.batch : w.batch[b] \in Hands(w, buffer[p][k])
<1>1. WorkOK(w, toRedis.read) /\ w.batch \in Seq(Nat)
  <2>1. W(p, k) # Idle
    BY DEF Idle
  <2> QED
    BY <2>1, WorkFacts DEF TInv
<1>2. toRedis.read <= Len(toRedis.log) /\ toRedis.read \in Nat /\ DOMAIN toRedis.log = 1..Len(toRedis.log)
      /\ Len(toRedis.log) \in Nat /\ toRedis.log \in Seq(Msg)
  BY QueueFacts DEF TInv, TopicsOK, QueueOK
<1>3. \A b \in DOMAIN w.batch : w.batch[b] \in 1..toRedis.read
  BY <1>1 DEF WorkOK
<1>4. \A e \in 1..toRedis.read : e \in DOMAIN toRedis.log
  BY <1>2
<1> QED
  BY <1>1, <1>2, <1>3, <1>4 DEF Hands, ToSet

LEMMA LineReceipts ==
  ASSUME Apart, TInv, Lined, NEW p \in Process, NEW k \in Key, ApplyReadReceipts(p, k)
  PROVE  Lined'
<1>1. PICK w : w = W(p, k)
  OBVIOUS
<1>2. w \in Collected /\ w.pc = "receipts" /\ w.batch \in Seq(Nat)
  BY <1>1, ReceiptsEffect DEF TInv, Collected
<1>3. PICK ms \in Seq(Msg), v \in Works :
        /\ ms = [i \in DOMAIN w.batch |-> MsgAt(w.batch[i])] /\ v = Begin(w.batch, Jobs(ms)) /\ Go(p, k, v)
  BY <1>1, ReceiptsEffect DEF TInv
<1>4. DOMAIN ms = DOMAIN w.batch /\ \A i \in DOMAIN ms : ms[i] = toRedis.log[w.batch[i]]
  BY <1>3 DEF MsgAt
<1>5. PICK jobs \in Seq(JobSet) : jobs = Jobs(ms)
  BY JobsFacts
<1>6. Sole(jobs)
  BY <1>5, JobsSole
<1>7. \A c \in Conv : Untouched(w.batch, toRedis.log, clientSeq[c])
  BY <1>1, <1>2 DEF Lined, Orderly, Ahead
<1>8. ASSUME NEW r \in DOMAIN jobs
      PROVE  /\ Follows(jobs[r].msgs, w.batch, toRedis.log)
             /\ jobs[r].store => Untouched(w.batch, toRedis.log, clientSeq[jobs[r].conv])
  <2>1. PICK j \in ToSet(Jobs(ms)) : j = jobs[r] /\ j \in JobSet
    BY <1>5 DEF ToSet
  <2>2. InOrder(j.msgs, ms)
    <3>1. \A x \in ToSet(Jobs(ms)) : InOrder(x.msgs, ms)
      BY JobsFacts
    <3> QED
      BY <3>1
  <2>3. ASSUME NEW i \in DOMAIN j.msgs, NEW l \in DOMAIN j.msgs, i < l
        PROVE  \E x, y \in DOMAIN w.batch : x < y /\ j.msgs[i] = toRedis.log[w.batch[x]] /\ j.msgs[l] = toRedis.log[w.batch[y]]
    <3>1. PICK x \in DOMAIN ms, y \in DOMAIN ms : x < y /\ j.msgs[i] = ms[x] /\ j.msgs[l] = ms[y]
      BY <2>2, <2>3 DEF InOrder
    <3> QED
      BY <1>4, <3>1
  <2>4. j.conv \in Conv
    BY <2>1 DEF JobSet
  <2> QED
    BY <1>7, <2>1, <2>3, <2>4 DEF Follows
<1>9. Ahead(v, toRedis.log, clientSeq) /\ Climbs(k, v, toRedis.log, clientSeq) /\ AcksInLine(v, toRedis.pending)
  BY <1>2, <1>3, <1>5, <1>6, <1>8, LineBegin
<1>10. v.batch = w.batch /\ v.pc # "idle"
  BY <1>2, <1>3, <1>5, BeginFacts DEF JobPcs
<1>11. UNCHANGED <<toRedis, buffer, clientSeq>>
  BY DEF ApplyReadReceipts, redis
<1> QED
  BY <1>1, <1>2, <1>3, <1>9, <1>10, <1>11, LineGo

LEMMA LineLookup ==
  ASSUME TInv, KeepInv, Lined, NEW p \in Process, NEW k \in Key, LookupClient(p, k)
  PROVE  Lined'
<1>1. PICK w, j : w = W(p, k) /\ j = Job(p, k)
  OBVIOUS
<1>2. PICK v :
        /\ Leaves(p, k, w, v) /\ SameJob(v, w) /\ w.pc = "lookup" /\ v.pc \in {"lookup", "malloc", "cache"}
        /\ j = Head(w.jobs) /\ Looked(w, v, clientSeq[j.conv])
  BY <1>1, LookupEffect DEF TInv
<1>3. Ahead(w, toRedis.log, clientSeq) /\ Fresh(w)
  BY <1>1 DEF Lined, Orderly, KeepInv, Good
<1>4. w.fresh \in Seq(Nat) /\ w.at \in Nat
  BY <1>2 DEF Leaves, Working
<1>5. Ranked(w.fresh) /\ \A f \in DOMAIN w.fresh : w.fresh[f] < w.at
  BY <1>2, <1>3 DEF Ahead, Fresh
<1>6. Ranked(v.fresh)
  <2>1. CASE v.fresh = w.fresh
    BY <1>5, <2>1
  <2>2. CASE v.fresh = Append(w.fresh, w.at)
    BY <1>4, <1>5, <2>2, RankedAppend
  <2> QED
    BY <1>2, <2>1, <2>2 DEF Looked
<1>7. Ahead(v, toRedis.log, clientSeq)
  BY <1>2, <1>3, <1>6 DEF Ahead, SameJob, JobPcs
<1>8. Climbs(k, v, toRedis.log, clientSeq) /\ AcksInLine(v, toRedis.pending)
  BY <1>2 DEF Climbs, AcksInLine
<1>9. UNCHANGED <<toRedis, buffer, clientSeq>>
  BY DEF LookupClient, redis
<1> QED
  BY <1>1, <1>2, <1>7, <1>8, <1>9, LineGo DEF Leaves, SameJob

LEMMA LineReserve ==
  ASSUME TInv, UseInv, KeepInv, Lined, NEW p \in Process, NEW k \in Key, Reserve(p, k)
  PROVE  Lined'
<1>1. PICK w, c : w = W(p, k) /\ c = Job(p, k).conv
  OBVIOUS
<1>2. PICK v :
        /\ Leaves(p, k, w, v) /\ SameJob(v, w) /\ w.pc = "malloc" /\ v.pc = "remember"
        /\ v.fresh = w.fresh /\ DOMAIN v.seqs = DOMAIN w.seqs
        /\ c = Head(w.jobs).conv /\ c \in Conv
        /\ Places(w, v, counter[c])
  BY <1>1, ReserveEffect DEF TInv
<1>3. Ahead(w, toRedis.log, clientSeq) /\ Distinct(w.fresh)
  BY <1>1, <1>2 DEF Lined, Orderly, KeepInv, Good, Fresh
<1>4. w \in Working /\ JobOK(w) /\ w.jobs \in Seq(JobSet) /\ w.jobs # <<>> /\ Head(w.jobs).store
  BY <1>2 DEF Leaves, Working, JobOK
<1>5. 1 \in DOMAIN w.jobs /\ w.jobs[1] = Head(w.jobs)
  BY <1>4
<1>6. Untouched(w.batch, toRedis.log, clientSeq[c])
  BY <1>2, <1>3, <1>4, <1>5 DEF Ahead, JobPcs
<1>7. PICK n \in Nat : n = counter[c]
  BY <1>2 DEF TInv, StoresOK
<1>8. ASSUME NEW x \in DOMAIN w.fresh PROVE v.seqs[w.fresh[x]] = n + x /\ x \in Nat /\ x >= 1
  <2>1. Place(w.fresh, w.fresh[x]) = x
    BY <1>3 DEF Place, Distinct
  <2>2. w.fresh[x] \in DOMAIN v.seqs /\ w.fresh[x] \in ToSet(w.fresh)
    BY <1>2, <1>4 DEF JobOK, ToSet
  <2>3. x \in Nat /\ x >= 1
    BY <1>4, JobFacts
  <2> QED
    BY <1>2, <1>7, <2>1, <2>2, <2>3 DEF Places
<1>9. \A x, y \in DOMAIN w.fresh : x < y => v.seqs[w.fresh[x]] < v.seqs[w.fresh[y]]
  BY <1>8
<1>10. ASSUME NEW m \in DOMAIN clientSeq[c], NEW x \in DOMAIN w.fresh PROVE clientSeq[c][m] < v.seqs[w.fresh[x]]
  <2>1. clientSeq[c][m] \in Nat \ {0}
    BY <1>2 DEF TInv, StoresOK
  <2>2. Used(c, m, clientSeq[c][m])
    BY DEF Used
  <2>3. clientSeq[c][m] <= n
    BY <1>2, <1>7, <2>1, <2>2 DEF UseInv
  <2> QED
    BY <1>8, <2>1, <2>3
<1>11. Climbs(k, v, toRedis.log, clientSeq)
  <2>1. Head(v.jobs).conv = c /\ v.batch = w.batch
    BY <1>2 DEF SameJob
  <2> QED
    BY <1>2, <1>6, <1>9, <1>10, <2>1 DEF Climbs, Rising, Untouched
<1>12. Ahead(v, toRedis.log, clientSeq)
  BY <1>2, <1>3 DEF Ahead, SameJob, JobPcs
<1>13. UNCHANGED <<toRedis, buffer, clientSeq>> /\ AcksInLine(v, toRedis.pending)
  BY <1>2 DEF Reserve, AcksInLine
<1> QED
  BY <1>1, <1>2, <1>11, <1>12, <1>13, LineGo DEF Leaves, SameJob

LEMMA LineCalls ==
  ASSUME TInv, Lined, NEW p \in Process, NEW k \in Key,
         FillCache(p, k) \/ SaveMax(p, k) \/ Ensure(p, k) \/ PublishMySQL(p, k)
  PROVE  Lined'
<1>1. PICK w : w = W(p, k)
  OBVIOUS
<1>2. w.pc \in {"cache", "save", "ensure", "mysql"} /\ Go(p, k, [w EXCEPT !.pc = After(w.pc)])
  BY <1>1 DEF FillCache, SaveMax, Ensure, PublishMySQL, At, After
<1>3. PICK v \in Works : Go(p, k, v) /\ SameJob(v, w) /\ v.pc = After(w.pc)
  BY <1>1, <1>2, CallEffect DEF TInv, Leaves
<1>4. v.pc \in {"save", "ensure", "mysql", "push"}
  BY <1>2, <1>3 DEF After
<1>5. Ahead(w, toRedis.log, clientSeq)
  BY <1>1 DEF Lined, Orderly
<1>6. Ahead(v, toRedis.log, clientSeq)
  BY <1>2, <1>3, <1>4, <1>5 DEF Ahead, SameJob, JobPcs
<1>7. Climbs(k, v, toRedis.log, clientSeq) /\ AcksInLine(v, toRedis.pending)
  BY <1>4 DEF Climbs, AcksInLine
<1>8. UNCHANGED <<toRedis, buffer, clientSeq>>
  BY DEF FillCache, SaveMax, Ensure, PublishMySQL, redis
<1> QED
  BY <1>1, <1>2, <1>3, <1>4, <1>6, <1>7, <1>8, LineGo DEF SameJob

LEMMA LinePush ==
  ASSUME TInv, Lined, NEW p \in Process, NEW k \in Key, PublishPush(p, k)
  PROVE  Lined'
<1>1. PICK w : w = W(p, k)
  OBVIOUS
<1>2. w.pc = "push" /\ w \in Working /\ w.batch \in Seq(Nat) /\ JobOK(w)
  BY <1>1, PushEffect DEF TInv
<1>3. PICK v \in Works :
        /\ Go(p, k, v)
        /\ \/ v = Begin(w.batch, Tail(w.jobs)) /\ Tail(w.jobs) \in Seq(JobSet)
           \/ SameJob(v, w) /\ v.pc = "push"
  BY <1>1, PushEffect DEF TInv
<1>4. Ahead(w, toRedis.log, clientSeq)
  BY <1>1 DEF Lined, Orderly
<1>5. UNCHANGED <<toRedis, buffer, clientSeq>>
  BY DEF PublishPush, redis
<1>6. CASE SameJob(v, w) /\ v.pc = "push"
  <2>1. Ahead(v, toRedis.log, clientSeq)
    BY <1>2, <1>4, <1>6 DEF Ahead, SameJob, JobPcs
  <2>2. Climbs(k, v, toRedis.log, clientSeq) /\ AcksInLine(v, toRedis.pending)
    BY <1>6 DEF Climbs, AcksInLine
  <2> QED
    BY <1>1, <1>2, <1>3, <1>5, <1>6, <2>1, <2>2, LineGo DEF SameJob
<1>7. CASE v = Begin(w.batch, Tail(w.jobs)) /\ Tail(w.jobs) \in Seq(JobSet)
  <2>1. w.jobs \in Seq(JobSet) /\ w.jobs # <<>>
    BY <1>2 DEF Working, JobOK
  <2>2. PICK rest \in Seq(JobSet) : rest = Tail(w.jobs)
    BY <1>7
  <2>3. ASSUME NEW r \in DOMAIN rest PROVE r \in Nat /\ r + 1 \in DOMAIN w.jobs /\ r + 1 # 1 /\ rest[r] = w.jobs[r + 1]
    BY <2>1, <2>2
  <2>4. Sole(rest)
    <3> SUFFICES ASSUME NEW r \in DOMAIN rest, NEW s \in DOMAIN rest,
                        rest[r].store, rest[s].store, rest[r].conv = rest[s].conv
                 PROVE  r = s
      BY DEF Sole
    <3>1. Sole(w.jobs)
      BY <1>2, <1>4 DEF Ahead, JobPcs
    <3>2. /\ r + 1 \in DOMAIN w.jobs /\ w.jobs[r + 1] = rest[r]
          /\ s + 1 \in DOMAIN w.jobs /\ w.jobs[s + 1] = rest[s]
      BY <2>3
    <3>3. r + 1 = s + 1
      BY <3>1, <3>2 DEF Sole
    <3> QED
      BY <2>3, <3>3
  <2>5. ASSUME NEW r \in DOMAIN rest
        PROVE  /\ Follows(rest[r].msgs, w.batch, toRedis.log)
               /\ rest[r].store => Untouched(w.batch, toRedis.log, clientSeq[rest[r].conv])
    BY <1>2, <1>4, <2>3 DEF Ahead, JobPcs
  <2>6. Ahead(v, toRedis.log, clientSeq) /\ Climbs(k, v, toRedis.log, clientSeq) /\ AcksInLine(v, toRedis.pending)
    BY <1>2, <1>7, <2>2, <2>4, <2>5, LineBegin
  <2>7. v.batch = w.batch /\ v.pc # "idle"
    BY <1>2, <1>7, BeginFacts DEF JobPcs
  <2> QED
    BY <1>1, <1>2, <1>3, <1>5, <2>6, <2>7, LineGo
<1> QED
  BY <1>3, <1>6, <1>7

\* A job comes first in its batch's list.
LEMMA FirstJob ==
  ASSUME NEW w \in Working, JobOK(w)
  PROVE  /\ w.jobs \in Seq(JobSet) /\ 1 \in DOMAIN w.jobs /\ w.jobs[1] = Head(w.jobs)
         /\ \A r \in DOMAIN w.jobs : w.jobs[r].conv \in Conv
<1>1. w.jobs \in Seq(JobSet) /\ w.jobs # <<>>
  BY DEF Working, JobOK
<1>2. \A r \in DOMAIN w.jobs : w.jobs[r] \in JobSet
  BY <1>1
<1> QED
  BY <1>1, <1>2 DEF JobSet

\* What the batch remembered before has its number, and a lower one.
LEMMA LowerNumber ==
  ASSUME NEW w \in Working, JobOK(w), w.pc = "remember", NEW k, NEW entries, NEW seen,
         Good(w, entries, seen), Climbs(k, w, entries, seen),
         NEW x \in DOMAIN w.fresh, x < w.at, NEW c, c = Head(w.jobs).conv
  PROVE  /\ seen[c][Head(w.jobs).msgs[w.fresh[x]]] = w.seqs[w.fresh[x]]
         /\ w.seqs[w.fresh[x]] < w.seqs[w.fresh[w.at]]
<1>1. /\ w.fresh[x] \in DOMAIN w.seqs /\ w.at \in DOMAIN w.fresh /\ Head(w.jobs).store
      /\ DOMAIN w.fresh = 1..Len(w.fresh) /\ Len(w.fresh) \in Nat
  BY JobFacts DEF JobOK
<1>2. Distinct(w.fresh) /\ Agrees(w, seen) /\ w.pc \in JobPcs
  BY DEF Good, Fresh, JobPcs
<1>3. ~ Unknown(w, w.fresh[x])
  <2> SUFFICES ASSUME NEW f \in DOMAIN w.fresh, f >= w.at, w.fresh[f] = w.fresh[x] PROVE FALSE
    BY DEF Unknown
  <2>1. f = x
    BY <1>2 DEF Distinct
  <2> QED
    BY <1>1, <2>1
<1>4. Settled(w, w.fresh[x])
  BY <1>1, <1>3 DEF Settled
<1>5. seen[c][Head(w.jobs).msgs[w.fresh[x]]] = w.seqs[w.fresh[x]]
  BY <1>1, <1>2, <1>4 DEF Agrees
<1> QED
  BY <1>1, <1>5 DEF Climbs, Rising

\* What the batch remembered before came before.
LEMMA EarlierEntry ==
  ASSUME NEW w \in Working, JobOK(w), w.pc = "remember", NEW k, NEW entries, NEW seen,
         Ahead(w, entries, seen), Ranked(w.batch), \A b \in DOMAIN w.batch : w.batch[b] \in DOMAIN entries,
         Distinct(entries), NEW x \in DOMAIN w.fresh, x < w.at,
         NEW e \in DOMAIN entries, entries[e] = Head(w.jobs).msgs[w.fresh[w.at]],
         NEW f \in DOMAIN entries, entries[f] = Head(w.jobs).msgs[w.fresh[x]]
  PROVE  f < e
<1>1. /\ w.fresh[x] \in DOMAIN w.seqs /\ w.at \in DOMAIN w.fresh /\ w.fresh[w.at] \in DOMAIN w.seqs
      /\ DOMAIN Head(w.jobs).msgs = DOMAIN w.seqs
  BY JobFacts DEF JobOK
<1>2. w.fresh[x] < w.fresh[w.at]
  BY <1>1 DEF Ahead, Ranked
<1>3. Follows(Head(w.jobs).msgs, w.batch, entries)
  BY FirstJob DEF Ahead, JobPcs
<1>4. PICK a \in DOMAIN w.batch, b \in DOMAIN w.batch :
        a < b /\ entries[f] = entries[w.batch[a]] /\ entries[e] = entries[w.batch[b]]
  BY <1>1, <1>2, <1>3 DEF Follows
<1>5. f = w.batch[a] /\ e = w.batch[b]
  BY <1>4 DEF Distinct
<1> QED
  BY <1>4, <1>5 DEF Ranked

\* Another key's batch is not concerned.
LEMMA OthersLined ==
  ASSUME NEW u, NEW l, NEW entries, Ahead(u, entries, clientSeq), Climbs(l, u, entries, clientSeq),
         u.pc \in JobPcs => u \in Working /\ JobOK(u),
         NEW c \in Conv, NEW m \in Msg, NEW n, Remembered(c, m, n), Shape[m].key # l,
         u.pc # "idle" => \A b \in DOMAIN u.batch : entries[u.batch[b]] # m
  PROVE  Ahead(u, entries, clientSeq') /\ Climbs(l, u, entries, clientSeq')
<1>1. ASSUME NEW d \in Conv, u.pc # "idle", Untouched(u.batch, entries, clientSeq[d])
      PROVE  Untouched(u.batch, entries, clientSeq'[d])
  <2>1. CASE d = c
    BY <1>1, <2>1 DEF Untouched, Remembered
  <2>2. CASE d # c
    BY <1>1, <2>2 DEF Remembered
  <2> QED
    BY <2>1, <2>2
<1>2. u.pc \in JobPcs => Head(u.jobs).conv \in Conv /\ \A r \in DOMAIN u.jobs : u.jobs[r].conv \in Conv
  BY FirstJob, JobFacts
<1>3. Ahead(u, entries, clientSeq')
  BY <1>1, <1>2 DEF Ahead, JobPcs
<1>4. ASSUME u.pc = "remember" PROVE Rising(l, u, entries, clientSeq'[Head(u.jobs).conv])
  <2>1. Rising(l, u, entries, clientSeq[Head(u.jobs).conv]) /\ Head(u.jobs).conv \in Conv
    BY <1>2, <1>4 DEF Climbs, JobPcs
  <2>2. CASE Head(u.jobs).conv # c
    BY <2>1, <2>2 DEF Remembered
  <2>3. CASE Head(u.jobs).conv = c
    <3>1. \A b \in DOMAIN u.batch : entries[u.batch[b]] # m
      BY <1>4
    <3>2. \A x \in DOMAIN clientSeq'[c] : x # m => x \in DOMAIN clientSeq[c] /\ clientSeq'[c][x] = clientSeq[c][x]
      BY DEF Remembered
    <3> QED
      BY <2>1, <2>3, <3>1, <3>2 DEF Rising
  <2> QED
    BY <2>2, <2>3
<1> QED
  BY <1>3, <1>4 DEF Climbs

LEMMA LineRemember ==
  ASSUME Alone, TInv, HoldInv, KeepInv, Lined, NEW p \in Process, NEW k \in Key, Remember(p, k)
  PROVE  Lined'
<1>1. PICK w, c : w = W(p, k) /\ c = Job(p, k).conv
  OBVIOUS
<1>2. PICK v \in Works, i \in DOMAIN w.seqs, m \in Msg :
        /\ Leaves(p, k, w, v) /\ v \in Working /\ SameJob(v, w) /\ w.pc = "remember" /\ v.pc \in {"remember", "cache"}
        /\ v.seqs = w.seqs /\ v.fresh = w.fresh
        /\ c = Head(w.jobs).conv /\ c \in Conv /\ m = Head(w.jobs).msgs[i]
        /\ Remembered(c, m, w.seqs[i])
        /\ w.at \in DOMAIN w.fresh /\ i = w.fresh[w.at]
        /\ v.pc = "remember" => v.at = w.at + 1
        /\ v.pc = "cache" => w.at = Len(w.fresh)
  BY <1>1, RememberEffect DEF TInv, Leaves
<1>3. Go(p, k, v) /\ w \in Working /\ JobOK(w) /\ UNCHANGED <<toRedis, buffer>>
  BY <1>2 DEF Leaves, Remember
<1>4. /\ Good(w, toRedis.log, clientSeq) /\ Ahead(w, toRedis.log, clientSeq) /\ Climbs(k, w, toRedis.log, clientSeq)
      /\ InLine(k, w, buffer[p][k], toRedis.log, toRedis.read)
  BY <1>1 DEF KeepInv, Lined, Orderly
<1>5. Rising(k, w, toRedis.log, clientSeq[c])
  BY <1>2, <1>4 DEF Climbs
<1>6. m \notin DOMAIN clientSeq[c]
  BY <1>2, <1>3, <1>4, RememberGood
<1>7. /\ toRedis.log \in Seq(Msg)
      /\ \A b \in DOMAIN w.batch : w.batch[b] \in 1..toRedis.read /\ w.batch[b] \in DOMAIN toRedis.log
      /\ \A b \in DOMAIN w.batch : w.batch[b] \in Hands(w, buffer[p][k])
  BY <1>1, <1>2, LineEntries
<1>8. PICK home \in DOMAIN w.batch : m = toRedis.log[w.batch[home]]
  <2>1. Drawn(Head(w.jobs), w.batch, toRedis.log) /\ DOMAIN Head(w.jobs).msgs = DOMAIN w.seqs
    BY <1>3, <1>4, HandJob, JobFacts
  <2> QED
    BY <1>2, <2>1 DEF Drawn
<1>9. PICK e \in 1..toRedis.read :
        e = w.batch[home] /\ e \in DOMAIN toRedis.log /\ toRedis.log[e] = m /\ e \in Hands(w, buffer[p][k])
  BY <1>7, <1>8
<1>10. Shape[m].key = k /\ Ranked(w.batch)
  BY <1>2, <1>4, <1>9 DEF InLine
<1>11. Distinct(toRedis.log) /\ \A f \in DOMAIN toRedis.log : toRedis.log[f] = m => f = e
  BY <1>9 DEF HoldInv, Distinct
<1>12. ASSUME NEW q \in Process, NEW l \in Key PROVE e \notin ToSet(buffer[q][l])
  <2>1. CASE q = p /\ l = k
    <3>1. OneHand(w, buffer[p][k])
      BY <1>1 DEF HoldInv
    <3>2. ToSet(w.batch) \cap ToSet(buffer[p][k]) = {}
      BY <1>2, <3>1 DEF OneHand
    <3>3. e \in ToSet(w.batch)
      BY <1>8, <1>9 DEF ToSet
    <3> QED
      BY <2>1, <3>2, <3>3
  <2>2. CASE q # p \/ l # k
    <3>1. Hands(W(p, k), buffer[p][k]) \cap Hands(W(q, l), buffer[q][l]) = {}
      BY <2>2 DEF HoldInv
    <3> QED
      BY <1>1, <1>9, <3>1 DEF Hands
  <2> QED
    BY <2>1, <2>2
<1>13. \A d \in Conv : d # c => clientSeq'[d] = clientSeq[d]
  BY <1>2 DEF Remembered
<1>14. /\ clientSeq'[c][m] = w.seqs[w.fresh[w.at]]
       /\ \A x \in DOMAIN clientSeq'[c] : x # m => x \in DOMAIN clientSeq[c] /\ clientSeq'[c][x] = clientSeq[c][x]
  BY <1>2 DEF Remembered
<1>15. Ahead(v, toRedis.log, clientSeq')
  <2>1. /\ w.jobs \in Seq(JobSet) /\ 1 \in DOMAIN w.jobs /\ w.jobs[1] = Head(w.jobs) /\ Head(w.jobs).store
        /\ \A r \in DOMAIN w.jobs : w.jobs[r].conv \in Conv
    BY <1>2, <1>3, FirstJob DEF JobOK
  <2>2. Sole(w.jobs) /\ w.pc \in JobPcs
    BY <1>2, <1>4 DEF Ahead, JobPcs
  <2>3. ASSUME NEW r \in DOMAIN w.jobs, w.jobs[r].store, r # 1
        PROVE  Untouched(w.batch, toRedis.log, clientSeq'[w.jobs[r].conv])
    <3>1. w.jobs[r].conv # c
      BY <1>2, <2>1, <2>2, <2>3 DEF Sole
    <3>2. Untouched(w.batch, toRedis.log, clientSeq[w.jobs[r].conv])
      BY <1>4, <2>2, <2>3 DEF Ahead
    <3> QED
      BY <1>13, <2>1, <3>1, <3>2
  <2> QED
    BY <1>2, <1>4, <2>2, <2>3 DEF Ahead, SameJob
<1>16. ASSUME v.pc = "remember" PROVE Rising(k, v, toRedis.log, clientSeq'[c])
  <2>1. v.at = w.at + 1 /\ v.batch = w.batch /\ v.jobs = w.jobs /\ v.seqs = w.seqs /\ v.fresh = w.fresh
    BY <1>2, <1>16 DEF SameJob
  <2>2. \A x \in DOMAIN w.fresh : x < w.at => x < w.at + 1
    BY <1>2, <1>3, JobFacts
  <2>3. w.at < w.at + 1
    BY <1>2, <1>3, JobFacts
  <2>4. ASSUME NEW b \in DOMAIN w.batch, toRedis.log[w.batch[b]] \in DOMAIN clientSeq'[c]
        PROVE  \E x \in DOMAIN w.fresh : x < w.at + 1 /\ Head(w.jobs).msgs[w.fresh[x]] = toRedis.log[w.batch[b]]
    <3>1. CASE toRedis.log[w.batch[b]] = m
      BY <1>2, <2>3, <3>1
    <3>2. CASE toRedis.log[w.batch[b]] # m
      BY <1>5, <1>14, <2>2, <2>4, <3>2 DEF Rising
    <3> QED
      BY <3>1, <3>2
  <2>5. ASSUME NEW x \in DOMAIN clientSeq'[c], Shape[x].key = k, \A b \in DOMAIN w.batch : toRedis.log[w.batch[b]] # x,
               NEW y \in DOMAIN w.fresh
        PROVE  clientSeq'[c][x] < w.seqs[w.fresh[y]]
    BY <1>5, <1>8, <1>14, <2>5 DEF Rising
  <2>6. \A x, y \in DOMAIN w.fresh : x < y => w.seqs[w.fresh[x]] < w.seqs[w.fresh[y]]
    BY <1>5 DEF Rising
  <2> QED
    BY <2>1, <2>4, <2>5, <2>6 DEF Rising
<1>17. Climbs(k, v, toRedis.log, clientSeq')
  BY <1>2, <1>16 DEF Climbs, SameJob
<1>18. W(p, k)' = v /\ \A q \in Process, l \in Key : q # p \/ l # k => W(q, l)' = W(q, l)
  BY <1>3, GoFacts DEF TInv, ProcessesOK
<1>19. ASSUME NEW q \in Process, NEW l \in Key, q # p \/ l # k
       PROVE  Ahead(W(q, l)', toRedis.log, clientSeq') /\ Climbs(l, W(q, l)', toRedis.log, clientSeq')
  <2>1. PICK u : u = W(q, l) /\ u = W(q, l)'
    BY <1>18, <1>19
  <2>2. l # k
    BY <1>19 DEF Alone
  <2>3. Ahead(u, toRedis.log, clientSeq) /\ Climbs(l, u, toRedis.log, clientSeq)
    BY <2>1 DEF Lined, Orderly
  <2>4. u.pc \in JobPcs => u \in Working /\ JobOK(u)
    BY <2>1, WorkFacts DEF TInv, WorkOK
  <2>5. ASSUME u.pc # "idle", NEW b \in DOMAIN u.batch PROVE toRedis.log[u.batch[b]] # m
    <3>1. u.batch[b] \in DOMAIN toRedis.log /\ u.batch[b] \in Hands(u, buffer[q][l])
      BY <2>1, <2>5, LineEntries
    <3>2. Hands(W(p, k), buffer[p][k]) \cap Hands(W(q, l), buffer[q][l]) = {}
      BY <1>19 DEF HoldInv
    <3> QED
      BY <1>1, <1>9, <1>11, <2>1, <3>1, <3>2
  <2>6. Shape[m].key # l /\ (u.pc # "idle" => \A b \in DOMAIN u.batch : toRedis.log[u.batch[b]] # m)
    BY <1>10, <2>2, <2>5
  <2>7. c \in Conv /\ Remembered(c, m, w.seqs[w.fresh[w.at]])
    BY <1>2
  <2>8. Ahead(u, toRedis.log, clientSeq') /\ Climbs(l, u, toRedis.log, clientSeq')
    BY <2>3, <2>4, <2>6, <2>7, OthersLined
  <2> QED
    BY <2>1, <2>8
<1>20. Known(clientSeq', toRedis.log, toRedis.read, buffer)
  <2> SUFFICES ASSUME NEW d \in Conv, NEW x \in DOMAIN clientSeq'[d]
               PROVE  \E f \in 1..toRedis.read : toRedis.log[f] = x /\ \A q \in Process, l \in Key : f \notin ToSet(buffer[q][l])
    BY DEF Known
  <2>1. CASE d = c /\ x = m
    BY <1>9, <1>12, <2>1
  <2>2. CASE ~ (d = c /\ x = m)
    <3>1. x \in DOMAIN clientSeq[d]
      BY <1>13, <1>14, <2>2
    <3> QED
      BY <3>1 DEF Lined, Known
  <2> QED
    BY <2>1, <2>2
<1>21. ASSUME NEW f \in DOMAIN toRedis.log, f < e, Shape[toRedis.log[f]].key = k, toRedis.log[f] \in DOMAIN clientSeq[c]
       PROVE  clientSeq[c][toRedis.log[f]] <= w.seqs[w.fresh[w.at]]
  <2>1. clientSeq[c][toRedis.log[f]] \in Nat /\ w.seqs[w.fresh[w.at]] \in Nat
    <3>1. clientSeq[c][toRedis.log[f]] \in Nat
      BY <1>2, <1>21 DEF TInv, StoresOK
    <3>2. w.seqs[i] \in Nat
      BY <1>2, <1>3, JobFacts
    <3> QED
      BY <1>2, <3>1, <3>2
  <2>2. CASE \E b \in DOMAIN w.batch : toRedis.log[w.batch[b]] = toRedis.log[f]
    <3>1. PICK x \in DOMAIN w.fresh : x < w.at /\ Head(w.jobs).msgs[w.fresh[x]] = toRedis.log[f]
      BY <1>5, <1>21, <2>2 DEF Rising
    <3>2. /\ clientSeq[c][Head(w.jobs).msgs[w.fresh[x]]] = w.seqs[w.fresh[x]]
          /\ w.seqs[w.fresh[x]] < w.seqs[w.fresh[w.at]]
      <4>1. w.pc = "remember" /\ c = Head(w.jobs).conv /\ x < w.at
        BY <1>2, <3>1
      <4>2. Good(w, toRedis.log, clientSeq) /\ Climbs(k, w, toRedis.log, clientSeq) /\ w \in Working /\ JobOK(w)
        BY <1>3, <1>4
      <4> QED
        BY <4>1, <4>2, LowerNumber
    <3> QED
      BY <2>1, <3>1, <3>2
  <2>3. CASE \A b \in DOMAIN w.batch : toRedis.log[w.batch[b]] # toRedis.log[f]
    <3>1. clientSeq[c][toRedis.log[f]] < w.seqs[w.fresh[w.at]]
      BY <1>2, <1>5, <1>21, <2>3 DEF Rising
    <3> QED
      BY <2>1, <3>1
  <2> QED
    BY <2>2, <2>3
<1>22. ASSUME NEW f \in DOMAIN toRedis.log, e < f, Shape[toRedis.log[f]].key = k, toRedis.log[f] \in DOMAIN clientSeq[c]
       PROVE  FALSE
  <2>1. f \in 1..toRedis.read /\ \A q \in Process, l \in Key : f \notin ToSet(buffer[q][l])
    <3>1. PICK g \in 1..toRedis.read : toRedis.log[g] = toRedis.log[f] /\ \A q \in Process, l \in Key : g \notin ToSet(buffer[q][l])
      BY <1>2, <1>22 DEF Lined, Known
    <3>2. \A g2 \in 1..toRedis.read : g2 \in DOMAIN toRedis.log
      <4>1. toRedis.read <= Len(toRedis.log) /\ toRedis.read \in Nat /\ DOMAIN toRedis.log = 1..Len(toRedis.log)
            /\ Len(toRedis.log) \in Nat
        BY QueueFacts DEF TInv, TopicsOK, QueueOK
      <4> QED
        BY <4>1
    <3>3. g = f
      BY <1>11, <3>1, <3>2 DEF Distinct
    <3> QED
      BY <3>1, <3>3
  <2>2. f \in Hands(w, buffer[p][k])
    BY <1>4, <1>9, <1>22, <2>1 DEF InLine
  <2>3. PICK b \in DOMAIN w.batch : f = w.batch[b]
    BY <2>1, <2>2 DEF Hands, ToSet
  <2>4. PICK x \in DOMAIN w.fresh : x < w.at /\ Head(w.jobs).msgs[w.fresh[x]] = toRedis.log[f]
    BY <1>5, <1>22, <2>3 DEF Rising
  <2>5. f < e
    <3>1. w.pc = "remember" /\ x < w.at /\ toRedis.log[e] = Head(w.jobs).msgs[w.fresh[w.at]]
      BY <1>2, <1>9, <2>4
    <3>2. Ahead(w, toRedis.log, clientSeq) /\ Ranked(w.batch) /\ w \in Working /\ JobOK(w)
      BY <1>3, <1>4, <1>10
    <3>3. Distinct(toRedis.log) /\ e \in DOMAIN toRedis.log /\ \A a \in DOMAIN w.batch : w.batch[a] \in DOMAIN toRedis.log
      BY <1>7, <1>9, <1>11
    <3> QED
      BY <2>4, <3>1, <3>2, <3>3, EarlierEntry
  <2> QED
    BY <1>22, <2>1, <2>5
<1>23. Sorted(clientSeq', toRedis.log)
  <2> SUFFICES ASSUME NEW a \in DOMAIN toRedis.log, NEW f \in DOMAIN toRedis.log, NEW d \in Conv, a < f,
                      Shape[toRedis.log[a]].key = Shape[toRedis.log[f]].key,
                      toRedis.log[a] \in DOMAIN clientSeq'[d], toRedis.log[f] \in DOMAIN clientSeq'[d]
               PROVE  clientSeq'[d][toRedis.log[a]] <= clientSeq'[d][toRedis.log[f]]
    BY DEF Sorted
  <2>1. Sorted(clientSeq, toRedis.log)
    BY DEF Lined
  <2>2. CASE d # c
    BY <1>13, <2>1, <2>2 DEF Sorted
  <2>3. CASE d = c /\ a # e /\ f # e
    <3>1. toRedis.log[a] # m /\ toRedis.log[f] # m
      BY <1>11, <2>3
    <3> QED
      BY <1>14, <2>1, <2>3, <3>1 DEF Sorted
  <2>4. CASE d = c /\ f = e
    <3>1. toRedis.log[a] # m
      <4>1. a # e
        BY <1>9, <2>4
      <4> QED
        BY <1>11, <4>1
    <3>2. toRedis.log[a] \in DOMAIN clientSeq[c] /\ clientSeq'[c][toRedis.log[a]] = clientSeq[c][toRedis.log[a]]
      BY <1>14, <2>4, <3>1
    <3> QED
      BY <1>9, <1>10, <1>14, <1>21, <2>4, <3>2
  <2>5. CASE d = c /\ a = e
    <3>1. toRedis.log[f] # m
      <4>1. f # e
        BY <1>9, <2>5
      <4> QED
        BY <1>11, <4>1
    <3>2. toRedis.log[f] \in DOMAIN clientSeq[c]
      BY <1>14, <2>5, <3>1
    <3> QED
      BY <1>9, <1>10, <1>22, <2>5, <3>2
  <2> QED
    BY <2>2, <2>3, <2>4, <2>5
<1>24. /\ \A q \in Process, l \in Key :
            /\ InLine(l, W(q, l)', buffer'[q][l], toRedis'.log, toRedis'.read)
            /\ AcksInLine(W(q, l)', toRedis'.pending)
       /\ PendingHeld(toRedis.pending, toRedis.log)'
  <2>1. v.pc # "idle" /\ W(p, k).pc # "idle" /\ v.batch = W(p, k).batch /\ AcksInLine(v, toRedis.pending)
    BY <1>1, <1>2 DEF SameJob, AcksInLine
  <2> QED
    BY <1>3, <2>1, LineMove
<1>25. ASSUME NEW q \in Process, NEW l \in Key
       PROVE  Ahead(W(q, l)', toRedis'.log, clientSeq') /\ Climbs(l, W(q, l)', toRedis'.log, clientSeq')
  <2>1. CASE q = p /\ l = k
    BY <1>3, <1>15, <1>17, <1>18, <2>1
  <2>2. CASE q # p \/ l # k
    BY <1>3, <1>19, <2>2
  <2> QED
    BY <2>1, <2>2
<1>26. Known(clientSeq', toRedis'.log, toRedis'.read, buffer') /\ Sorted(clientSeq', toRedis'.log)
  BY <1>3, <1>20, <1>23
<1> QED
  BY <1>24, <1>25, <1>26 DEF Lined, Orderly

LEMMA ReadEntries ==
  ASSUME TInv
  PROVE  /\ \A e \in 1..toRedis.read : e \in DOMAIN toRedis.log /\ e \in Nat
         /\ toRedis.read \in Nat /\ toRedis.log \in Seq(Msg)
         /\ \A p \in Process, k \in Key : \A e \in Hands(W(p, k), buffer[p][k]) : e \in Nat /\ e \in 1..toRedis.read
<1>1. toRedis.read <= Len(toRedis.log) /\ toRedis.read \in Nat /\ DOMAIN toRedis.log = 1..Len(toRedis.log)
      /\ Len(toRedis.log) \in Nat /\ toRedis.log \in Seq(Msg)
  BY QueueFacts DEF TInv, TopicsOK, QueueOK
<1>2. \A e \in 1..toRedis.read : e \in DOMAIN toRedis.log /\ e \in Nat
  BY <1>1
<1> QED
  BY <1>1, <1>2, HandsRead

\* A batch that fills with the first entries of its buffer.
LEMMA LineSlices ==
  ASSUME NEW s \in Seq(Nat), Ranked(s), NEW n \in 1..Len(s)
  PROVE  /\ Ranked(SubSeq(s, 1, n)) /\ Ranked(SubSeq(s, n + 1, Len(s)))
         /\ \A e \in ToSet(SubSeq(s, 1, n)), f \in ToSet(SubSeq(s, n + 1, Len(s))) : e < f
         /\ ToSet(SubSeq(s, 1, n)) \cup ToSet(SubSeq(s, n + 1, Len(s))) = ToSet(s)
<1>1. PICK a : a = SubSeq(s, 1, n)
  OBVIOUS
<1>2. PICK b : b = SubSeq(s, n + 1, Len(s))
  OBVIOUS
<1>3. a \in Seq(Nat) /\ b \in Seq(Nat) /\ Len(s) \in Nat /\ n \in Nat /\ n <= Len(s) /\ DOMAIN s = 1..Len(s)
  BY <1>1, <1>2, SliceFacts
<1>4. PICK m \in Nat : m = Len(s) /\ DOMAIN s = 1..m /\ n <= m
  BY <1>3
<1>5. DOMAIN a = 1..n
  <2>1. Len(a) = n
    BY <1>1, <1>3, SubSeqProperties
  <2> QED
    BY <1>3, <2>1
<1>6. DOMAIN b = 1..m - n
  <2>1. Len(b) = IF n + 1 <= m THEN m - (n + 1) + 1 ELSE 0
    <3>1. \A i \in n + 1..m : s[i] \in Nat
      BY <1>3, <1>4
    <3>2. n + 1 \in Int /\ m \in Int
      BY <1>3, <1>4
    <3>3. Len(SubSeq(s, n + 1, m)) = IF n + 1 <= m THEN m - (n + 1) + 1 ELSE 0
      BY <3>1, <3>2, SubSeqProperties
    <3> QED
      BY <1>2, <1>4, <3>3
  <2>2. Len(b) = m - n
    <3>1. n \in Nat /\ m \in Nat /\ n <= m
      BY <1>3, <1>4
    <3> QED
      BY <2>1, <3>1
  <2> QED
    BY <1>3, <2>2
<1>7. /\ \A i \in DOMAIN a : i \in DOMAIN s /\ a[i] = s[i]
      /\ \A i \in DOMAIN b : i + n \in DOMAIN s /\ b[i] = s[i + n]
  BY <1>1, <1>2, SliceFacts
<1>8. Ranked(a)
  BY <1>7 DEF Ranked
<1>9. Ranked(b)
  <2> SUFFICES ASSUME NEW i \in DOMAIN b, NEW j \in DOMAIN b, i < j PROVE b[i] < b[j]
    BY DEF Ranked
  <2>1. i + n < j + n
    BY <1>3, <1>4, <1>6
  <2> QED
    BY <1>7, <2>1 DEF Ranked
<1>10. \A e \in ToSet(a), f \in ToSet(b) : e < f
  <2> SUFFICES ASSUME NEW i \in DOMAIN a, NEW j \in DOMAIN b PROVE a[i] < b[j]
    BY DEF ToSet
  <2>1. i < j + n
    BY <1>3, <1>4, <1>5, <1>6
  <2> QED
    BY <1>7, <2>1 DEF Ranked
<1>11. ToSet(a) \cup ToSet(b) \subseteq ToSet(s)
  BY <1>7 DEF ToSet
<1>12. ASSUME NEW i \in DOMAIN s PROVE s[i] \in ToSet(a) \cup ToSet(b)
  <2>1. CASE i <= n
    <3>1. i \in DOMAIN a
      BY <1>3, <1>5, <2>1
    <3> QED
      BY <1>7, <3>1 DEF ToSet
  <2>2. CASE ~ (i <= n)
    <3>1. i \in Nat /\ n \in Nat /\ m \in Nat /\ n < i /\ i <= m
      BY <1>3, <1>4, <2>2
    <3>2. i - n \in 1..m - n /\ (i - n) + n = i
      BY <3>1
    <3>3. i - n \in DOMAIN b /\ (i - n) + n = i
      BY <1>6, <3>2
    <3> QED
      BY <1>7, <3>3 DEF ToSet
  <2> QED
    BY <2>1, <2>2
<1>13. ToSet(s) \subseteq ToSet(a) \cup ToSet(b)
  BY <1>12 DEF ToSet
<1> QED
  BY <1>1, <1>2, <1>8, <1>9, <1>10, <1>11, <1>13

LEMMA LineFlush ==
  ASSUME TInv, HoldInv, Lined, NEW p \in Process, NEW k \in Key, Flush(p, k)
  PROVE  Lined'
<1>1. PICK held \in Seq(Nat) : held = buffer[p][k] /\ buffer \in [Process -> [Key -> Seq(Nat)]]
  BY DEF TInv, ProcessesOK
<1>2. PICK n \in 1..BatchSize :
        /\ n <= Len(held)
        /\ work' = [work EXCEPT ![p][k] = [pc |-> "receipts", batch |-> SubSeq(held, 1, n)]]
        /\ buffer' = [buffer EXCEPT ![p][k] = SubSeq(@, n + 1, Len(@))]
  BY <1>1 DEF Flush
<1>3. n \in 1..Len(held)
  BY <1>1, <1>2, BoundAssumption
<1>4. PICK v : v = [pc |-> "receipts", batch |-> SubSeq(held, 1, n)]
  OBVIOUS
<1>5. v \in Works /\ v.pc = "receipts" /\ v.batch = SubSeq(held, 1, n)
  BY <1>3, <1>4, SliceFacts DEF Works, Collected
<1>6. W(p, k)' = v /\ \A q \in Process, l \in Key : q # p \/ l # k => W(q, l)' = W(q, l)
  BY <1>2, <1>4, <1>5, GoFacts DEF Go, TInv, ProcessesOK
<1>7. PICK rest : rest = SubSeq(held, n + 1, Len(held))
  OBVIOUS
<1>8. buffer'[p][k] = rest /\ \A q \in Process, l \in Key : q # p \/ l # k => buffer'[q][l] = buffer[q][l]
  BY <1>1, <1>2, <1>7
<1>9. toRedis' = toRedis /\ clientSeq' = clientSeq /\ W(p, k).pc = "idle"
  BY DEF Flush, redis, W, Idle
<1>10. InLine(k, W(p, k), held, toRedis.log, toRedis.read)
  BY <1>1 DEF Lined, Orderly
<1>11. Ranked(held) /\ Hands(W(p, k), held) = ToSet(held)
  BY <1>9, <1>10 DEF InLine, Hands
<1>12. /\ Ranked(v.batch) /\ Ranked(rest) /\ \A e \in ToSet(v.batch), f \in ToSet(rest) : e < f
       /\ ToSet(v.batch) \cup ToSet(rest) = ToSet(held)
  BY <1>3, <1>5, <1>7, <1>11, LineSlices
<1>13. Hands(v, rest) = Hands(W(p, k), held)
  BY <1>5, <1>11, <1>12 DEF Hands
<1>14. InLine(k, v, rest, toRedis.log, toRedis.read)
  BY <1>10, <1>12, <1>13 DEF InLine
<1>15. ASSUME NEW c \in Conv, NEW b \in DOMAIN v.batch PROVE toRedis.log[v.batch[b]] \notin DOMAIN clientSeq[c]
  <2> SUFFICES ASSUME toRedis.log[v.batch[b]] \in DOMAIN clientSeq[c] PROVE FALSE
    OBVIOUS
  <2>1. PICK e \in 1..toRedis.read :
          toRedis.log[e] = toRedis.log[v.batch[b]] /\ \A q \in Process, l \in Key : e \notin ToSet(buffer[q][l])
    BY DEF Lined, Known
  <2>2. v.batch[b] \in ToSet(held)
    BY <1>12 DEF ToSet
  <2>3. v.batch[b] \in 1..toRedis.read
    BY <1>1, <1>11, <2>2, HandsRead
  <2>4. \A f \in 1..toRedis.read : f \in DOMAIN toRedis.log
    BY ReadEntries
  <2>5. e = v.batch[b]
    BY <2>1, <2>3, <2>4 DEF HoldInv, Distinct
  <2> QED
    BY <1>1, <2>1, <2>2, <2>5
<1>16. /\ Ahead(v, toRedis.log, clientSeq) /\ Climbs(k, v, toRedis.log, clientSeq)
       /\ AcksInLine(v, toRedis.pending)
  BY <1>5, <1>15 DEF Ahead, Untouched, Climbs, AcksInLine, JobPcs
<1>17. ASSUME NEW q \in Process, NEW l \in Key
       PROVE  /\ Orderly(l, W(q, l), buffer[q][l])'
              /\ Hands(W(q, l)', buffer'[q][l]) = Hands(W(q, l), buffer[q][l])
              /\ ToSet(buffer'[q][l]) \subseteq ToSet(buffer[q][l])
  <2>1. CASE q = p /\ l = k
    BY <1>1, <1>6, <1>8, <1>9, <1>12, <1>13, <1>14, <1>16, <2>1 DEF Orderly
  <2>2. CASE q # p \/ l # k
    BY <1>6, <1>8, <1>9, <2>2 DEF Lined, Orderly
  <2> QED
    BY <2>1, <2>2
<1>18. PendingHeld(toRedis.pending, toRedis.log)'
  BY <1>9, <1>17 DEF Lined, PendingHeld
<1>19. Known(clientSeq', toRedis'.log, toRedis'.read, buffer')
  <2> SUFFICES ASSUME NEW c \in Conv, NEW m \in DOMAIN clientSeq[c]
               PROVE  \E e \in 1..toRedis.read : toRedis.log[e] = m /\ \A q \in Process, l \in Key : e \notin ToSet(buffer'[q][l])
    BY <1>9 DEF Known
  <2>1. PICK e \in 1..toRedis.read : toRedis.log[e] = m /\ \A q \in Process, l \in Key : e \notin ToSet(buffer[q][l])
    BY DEF Lined, Known
  <2>2. \A q \in Process, l \in Key : ToSet(buffer'[q][l]) \subseteq ToSet(buffer[q][l])
    BY <1>17
  <2> QED
    BY <2>1, <2>2
<1>20. Sorted(clientSeq', toRedis'.log)
  BY <1>9 DEF Lined
<1> QED
  BY <1>17, <1>18, <1>19, <1>20 DEF Lined

LEMMA LineAck ==
  ASSUME TInv, Lined, NEW p \in Process, NEW k \in Key, AckEntry(p, k)
  PROVE  Lined'
<1>1. PICK w : w = W(p, k)
  OBVIOUS
<1>2. w \in Acking /\ w.pc = "ack" /\ toRedis' = Ack(toRedis, w.batch[w.at])
  BY <1>1, AckEffect DEF TInv
<1>3. PICK v \in Works :
        /\ Go(p, k, v)
        /\ \/ v = Idle /\ w.at = Len(w.batch)
           \/ v \in Acking /\ v.batch = w.batch /\ v.at = w.at + 1
  BY <1>1, AckEffect DEF TInv
<1>4. PICK e : e = w.batch[w.at]
  OBVIOUS
<1>5. toRedis'.log = toRedis.log /\ toRedis'.read = toRedis.read /\ toRedis'.pending = toRedis.pending \ {e}
  <2>1. DOMAIN toRedis = {"log", "read", "pending"}
    BY DEF TInv, TopicsOK, QueueOK
  <2> QED
    BY <1>2, <1>4, <2>1 DEF Ack
<1>6. buffer' = buffer /\ clientSeq' = clientSeq
  BY DEF AckEntry, redis
<1>7. W(p, k)' = v /\ \A q \in Process, l \in Key : q # p \/ l # k => W(q, l)' = W(q, l)
  BY <1>3, GoFacts DEF TInv, ProcessesOK
<1>8. InLine(k, w, buffer[p][k], toRedis.log, toRedis.read) /\ AcksInLine(w, toRedis.pending)
  BY <1>1 DEF Lined, Orderly
<1>9. w.batch \in Seq(Nat) /\ w.at \in Nat /\ DOMAIN w.batch = 1..Len(w.batch) /\ Len(w.batch) \in Nat
  BY <1>2 DEF Acking
<1>10. \A b \in DOMAIN w.batch : b < w.at + 1 => w.batch[b] \notin toRedis'.pending
  <2>1. \A b \in DOMAIN w.batch : b < w.at + 1 => b < w.at \/ b = w.at
    BY <1>9
  <2> QED
    BY <1>2, <1>4, <1>5, <1>8, <2>1 DEF AcksInLine
<1>11. /\ InLine(k, v, buffer[p][k], toRedis.log, toRedis.read) /\ AcksInLine(v, toRedis'.pending)
       /\ Hands(v, buffer[p][k]) \subseteq Hands(w, buffer[p][k])
       /\ \A f \in Hands(w, buffer[p][k]) : f \in Hands(v, buffer[p][k]) \/ f \notin toRedis'.pending
  <2>1. CASE v = Idle /\ w.at = Len(w.batch)
    <3>1. \A b \in DOMAIN w.batch : w.batch[b] \notin toRedis'.pending
      <4>1. \A b \in DOMAIN w.batch : b < w.at + 1
        BY <1>9, <2>1
      <4> QED
        BY <1>10, <4>1
    <3>2. v.pc = "idle" /\ Hands(v, buffer[p][k]) = ToSet(buffer[p][k])
      BY <2>1 DEF Idle, Hands
    <3>3. \A f \in Hands(w, buffer[p][k]) : f \in ToSet(buffer[p][k]) \/ f \notin toRedis'.pending
      BY <1>2, <3>1 DEF Hands, ToSet
    <3>4. ASSUME NEW f \in ToSet(buffer[p][k]), NEW g \in 1..toRedis.read, f < g, Shape[toRedis.log[g]].key = k
          PROVE  g \in ToSet(buffer[p][k])
      <4>1. g \in Hands(w, buffer[p][k])
        BY <1>8, <3>4 DEF InLine, Hands
      <4>2. g \notin ToSet(w.batch)
        <5> SUFFICES ASSUME g \in ToSet(w.batch) PROVE FALSE
          OBVIOUS
        <5>1. g < f
          BY <1>2, <1>8 DEF InLine
        <5>2. f \in Nat /\ g \in Nat
          BY <1>1, ReadEntries DEF Hands
        <5> QED
          BY <3>4, <5>1, <5>2
      <4> QED
        BY <4>1, <4>2 DEF Hands
    <3>5. InLine(k, v, buffer[p][k], toRedis.log, toRedis.read)
      BY <1>8, <3>2, <3>4 DEF InLine, Hands
    <3>6. AcksInLine(v, toRedis'.pending)
      BY <3>2 DEF AcksInLine
    <3> QED
      BY <3>2, <3>3, <3>5, <3>6 DEF Hands
  <2>2. CASE v \in Acking /\ v.batch = w.batch /\ v.at = w.at + 1
    <3>1. v.pc = "ack"
      BY <2>2 DEF Acking
    <3>2. AcksInLine(v, toRedis'.pending)
      BY <1>10, <2>2 DEF AcksInLine
    <3> QED
      BY <1>2, <1>8, <2>2, <3>1, <3>2, LineHands
  <2> QED
    BY <1>3, <2>1, <2>2
<1>12. Ahead(v, toRedis.log, clientSeq) /\ Climbs(k, v, toRedis.log, clientSeq)
  <2>1. v.pc \in {"idle", "ack"}
    BY <1>3 DEF Idle, Acking
  <2> QED
    BY <2>1 DEF Ahead, Climbs, JobPcs
<1>13. ASSUME NEW q \in Process, NEW l \in Key
       PROVE  /\ Orderly(l, W(q, l), buffer[q][l])'
              /\ \A f \in Hands(W(q, l), buffer[q][l]) : f \in Hands(W(q, l), buffer[q][l])' \/ f \notin toRedis'.pending
  <2>1. CASE q = p /\ l = k
    BY <1>1, <1>5, <1>6, <1>7, <1>11, <1>12, <2>1 DEF Orderly
  <2>2. CASE q # p \/ l # k
    <3>1. Orderly(l, W(q, l), buffer[q][l])
      BY DEF Lined
    <3>2. AcksInLine(W(q, l), toRedis.pending) => AcksInLine(W(q, l), toRedis'.pending)
      BY <1>5 DEF AcksInLine
    <3> QED
      BY <1>5, <1>6, <1>7, <2>2, <3>1, <3>2 DEF Orderly
  <2> QED
    BY <2>1, <2>2
<1>14. PendingHeld(toRedis.pending, toRedis.log)'
  BY <1>5, <1>13 DEF Lined, PendingHeld
<1>15. Known(clientSeq', toRedis'.log, toRedis'.read, buffer') /\ Sorted(clientSeq', toRedis'.log)
  BY <1>5, <1>6 DEF Lined
<1> QED
  BY <1>13, <1>14, <1>15 DEF Lined

LEMMA LineDeliver ==
  ASSUME Alone, TInv, Lined, NEW p \in Process, Deliver(p)
  PROVE  Lined'
<1>1. PICK e : e = NextEntry(toRedis)
  OBVIOUS
<1>2. /\ toRedis'.log = toRedis.log /\ e \in DOMAIN toRedis.log /\ toRedis.read \in Nat /\ toRedis.log \in Seq(Msg)
      /\ e = toRedis.read + 1 /\ toRedis'.read = e
  BY <1>1, ReadFacts, QueueFacts DEF TInv, TopicsOK, Deliver, NextEntry
<1>3. toRedis'.pending = toRedis.pending \cup {e}
  <2>1. DOMAIN toRedis = {"log", "read", "pending"}
    BY DEF TInv, TopicsOK, QueueOK
  <2> QED
    BY <1>2, <2>1 DEF Deliver, Read
<1>4. work' = work /\ clientSeq' = clientSeq /\ Buffer(p, e)
  BY <1>1 DEF Deliver, redis
<1>5. PICK k \in Key : k = Shape[toRedis.log[e]].key
  BY <1>2 DEF Key
<1>6. PICK held \in Seq(Nat) : held = buffer[p][k] /\ buffer \in [Process -> [Key -> Seq(Nat)]]
  BY DEF TInv, ProcessesOK
<1>7. buffer'[p][k] = Append(held, e) /\ \A q \in Process, l \in Key : l # k => buffer'[q][l] = buffer[q][l]
  BY <1>4, <1>5, <1>6 DEF Buffer, MsgAt
<1>8. PICK w : w = W(p, k)
  OBVIOUS
<1>9. \A q \in Process : q = p
  BY DEF Alone
<1>10. \A q \in Process, l \in Key : W(q, l)' = W(q, l)
  BY <1>4 DEF W
<1>11. e \in Nat /\ \A f \in 1..toRedis.read : f < e /\ f # e /\ f \in 1..e
  BY <1>2
<1>12. \A f \in 1..e : f = e \/ f \in 1..toRedis.read
  BY <1>2
<1>13. InLine(k, w, held, toRedis.log, toRedis.read)
  BY <1>6, <1>8 DEF Lined, Orderly
<1>14. \A f \in Hands(w, held) : f \in 1..toRedis.read
  BY <1>6, <1>8, HandsRead
<1>15. Ranked(Append(held, e)) /\ ToSet(Append(held, e)) = ToSet(held) \cup {e}
  <2>1. \A f \in ToSet(held) : f < e
    BY <1>11, <1>14 DEF Hands
  <2>2. Ranked(held) /\ \A i \in DOMAIN held : held[i] < e
    BY <1>13, <2>1 DEF InLine, ToSet
  <2>3. Ranked(Append(held, e))
    BY <1>11, <2>2, RankedAppend
  <2>4. ToSet(Append(held, e)) = ToSet(held) \cup {e}
    <3>1. /\ e \in ToSet(Append(held, e)) /\ \A y \in ToSet(held) : y \in ToSet(Append(held, e))
          /\ \A y \in ToSet(Append(held, e)) : y = e \/ y \in ToSet(held)
      BY <1>11, Appended
    <3> QED
      BY <3>1
  <2> QED
    BY <2>3, <2>4
<1>16. Hands(w, Append(held, e)) = Hands(w, held) \cup {e}
  BY <1>15 DEF Hands
<1>17. InLine(k, w, Append(held, e), toRedis.log, e)
  <2>1. ASSUME w.pc # "idle", NEW f \in ToSet(w.batch), NEW g \in ToSet(Append(held, e)) PROVE f < g
    <3>1. CASE g = e
      <4>1. f \in Hands(w, held)
        BY <2>1 DEF Hands
      <4> QED
        BY <1>11, <1>14, <3>1, <4>1
    <3>2. CASE g # e
      BY <1>13, <1>15, <2>1, <3>2 DEF InLine
    <3> QED
      BY <3>1, <3>2
  <2>2. \A f \in Hands(w, Append(held, e)) : Shape[toRedis.log[f]].key = k
    BY <1>5, <1>13, <1>16 DEF InLine
  <2>3. ASSUME NEW f \in Hands(w, Append(held, e)), NEW g \in 1..e, f < g, Shape[toRedis.log[g]].key = k
        PROVE  g \in Hands(w, Append(held, e))
    <3>1. CASE g = e
      BY <1>16, <3>1
    <3>2. CASE g # e
      <4>1. g \in 1..toRedis.read
        BY <1>12, <3>2
      <4>2. f # e
        BY <1>2, <2>3, <4>1
      <4> QED
        BY <1>13, <1>16, <2>3, <4>1, <4>2 DEF InLine
    <3> QED
      BY <3>1, <3>2
  <2> QED
    BY <1>13, <1>15, <2>1, <2>2, <2>3 DEF InLine
<1>18. ASSUME NEW l \in Key, l # k PROVE InLine(l, W(p, l), buffer[p][l], toRedis.log, e)
  <2>1. InLine(l, W(p, l), buffer[p][l], toRedis.log, toRedis.read)
    BY DEF Lined, Orderly
  <2>2. \A f \in 1..e : Shape[toRedis.log[f]].key = l => f \in 1..toRedis.read
    BY <1>5, <1>12, <1>18
  <2> QED
    BY <2>1, <2>2 DEF InLine
<1>19. ASSUME NEW q \in Process, NEW l \in Key
       PROVE  /\ InLine(l, W(q, l)', buffer'[q][l], toRedis'.log, toRedis'.read)
              /\ Hands(W(q, l), buffer[q][l]) \subseteq Hands(W(q, l)', buffer'[q][l])
              /\ l = k => e \in Hands(W(q, l)', buffer'[q][l])
              /\ \A f \in ToSet(buffer'[q][l]) : f = e \/ f \in ToSet(buffer[q][l])
  <2>1. CASE l = k
    BY <1>2, <1>6, <1>7, <1>8, <1>9, <1>10, <1>15, <1>16, <1>17, <2>1
  <2>2. CASE l # k
    BY <1>2, <1>7, <1>9, <1>10, <1>18, <2>2
  <2> QED
    BY <2>1, <2>2
<1>20. ASSUME NEW q \in Process, NEW l \in Key PROVE AcksInLine(W(q, l)', toRedis'.pending)
  <2>1. PICK u : u = W(q, l)
    OBVIOUS
  <2>2. AcksInLine(u, toRedis.pending)
    BY <2>1 DEF Lined, Orderly
  <2>3. u.pc = "ack" => \A b \in DOMAIN u.batch : u.batch[b] # e
    BY <1>11, <2>1, LineEntries
  <2>4. AcksInLine(u, toRedis'.pending)
    BY <1>3, <2>2, <2>3 DEF AcksInLine
  <2> QED
    BY <1>10, <2>1, <2>4
<1>21. PendingHeld(toRedis.pending, toRedis.log)'
  <2> SUFFICES ASSUME NEW f \in toRedis'.pending, NEW q \in Process, NEW l \in Key, Shape[toRedis.log[f]].key = l
               PROVE  f \in Hands(W(q, l)', buffer'[q][l])
    BY <1>2 DEF PendingHeld
  <2>1. CASE f = e
    BY <1>5, <1>19, <2>1
  <2>2. CASE f # e
    <3>1. f \in Hands(W(q, l), buffer[q][l])
      BY <1>3, <2>2 DEF Lined, PendingHeld
    <3> QED
      BY <1>19, <3>1
  <2> QED
    BY <2>1, <2>2
<1>22. Known(clientSeq', toRedis'.log, toRedis'.read, buffer')
  <2> SUFFICES ASSUME NEW c \in Conv, NEW m \in DOMAIN clientSeq[c]
               PROVE  \E f \in 1..e : toRedis.log[f] = m /\ \A q \in Process, l \in Key : f \notin ToSet(buffer'[q][l])
    BY <1>2, <1>4 DEF Known
  <2>1. PICK f \in 1..toRedis.read : toRedis.log[f] = m /\ \A q \in Process, l \in Key : f \notin ToSet(buffer[q][l])
    BY DEF Lined, Known
  <2>2. f \in 1..e /\ f # e
    BY <1>11
  <2>3. \A q \in Process, l \in Key : f \notin ToSet(buffer'[q][l])
    BY <1>19, <2>1, <2>2
  <2> QED
    BY <2>1, <2>2, <2>3
<1>23. ASSUME NEW q \in Process, NEW l \in Key
       PROVE  Ahead(W(q, l)', toRedis'.log, clientSeq') /\ Climbs(l, W(q, l)', toRedis'.log, clientSeq')
  BY <1>2, <1>4, <1>10 DEF Lined, Orderly
<1>24. Sorted(clientSeq', toRedis'.log)
  BY <1>2, <1>4 DEF Lined
<1> QED
  BY <1>19, <1>20, <1>21, <1>22, <1>23, <1>24 DEF Lined, Orderly

\* Entries that are not delivered concern no batch.
LEMMA LineAppend ==
  ASSUME NEW k, NEW w, NEW held, NEW entries, NEW more, NEW read, NEW seen,
         \A e \in 1..read : more[e] = entries[e], \A e \in Hands(w, held) : e \in 1..read,
         InLine(k, w, held, entries, read), Ahead(w, entries, seen), Climbs(k, w, entries, seen)
  PROVE  InLine(k, w, held, more, read) /\ Ahead(w, more, seen) /\ Climbs(k, w, more, seen)
<1>1. InLine(k, w, held, more, read)
  BY DEF InLine
<1>2. w.pc # "idle" => \A b \in DOMAIN w.batch : more[w.batch[b]] = entries[w.batch[b]]
  BY DEF Hands, ToSet
<1>3. w.pc # "idle" => \A s : Untouched(w.batch, entries, s) => Untouched(w.batch, more, s)
  BY <1>2 DEF Untouched
<1>4. w.pc # "idle" => \A s : Follows(s, w.batch, entries) => Follows(s, w.batch, more)
  BY <1>2 DEF Follows
<1>5. Ahead(w, more, seen)
  BY <1>3, <1>4 DEF Ahead, JobPcs
<1>6. Climbs(k, w, more, seen)
  BY <1>2 DEF Climbs, Rising
<1> QED
  BY <1>1, <1>5, <1>6

LEMMA LineSend ==
  ASSUME SentOnce, TInv, Lined, NEW m \in Msg, ClientSend(m) \/ SendReceipt(m)
  PROVE  Lined'
<1>1. toRedis' = Send(toRedis, m) /\ Sent(m) < Sends /\ UNCHANGED <<work, buffer, clientSeq>>
  BY DEF ClientSend, SendReceipt, redis
<1>2. PICK e : e = Len(toRedis.log) + 1
  OBVIOUS
<1>3. /\ DOMAIN toRedis'.log = DOMAIN toRedis.log \cup {e} /\ toRedis'.log[e] = m
      /\ \A f \in DOMAIN toRedis.log : toRedis'.log[f] = toRedis.log[f]
      /\ toRedis'.read = toRedis.read /\ toRedis'.pending = toRedis.pending
  BY <1>1, <1>2, SendFacts DEF TInv, TopicsOK, Grown
<1>4. \A f \in DOMAIN toRedis.log : toRedis.log[f] # m
  BY <1>1, NotSent DEF MsgAt
<1>5. \A f \in 1..toRedis.read : f \in DOMAIN toRedis.log /\ toRedis'.log[f] = toRedis.log[f]
  BY <1>3, ReadEntries
<1>6. \A p \in Process, k \in Key : W(p, k)' = W(p, k)
  BY <1>1 DEF W
<1>7. ASSUME NEW p \in Process, NEW k \in Key PROVE Orderly(k, W(p, k), buffer[p][k])'
  <2>1. PICK w, held : w = W(p, k) /\ held = buffer[p][k]
    OBVIOUS
  <2>2. Orderly(k, w, held)
    BY <2>1 DEF Lined
  <2>3. \A f \in Hands(w, held) : f \in 1..toRedis.read
    BY <2>1, HandsRead
  <2>4. /\ InLine(k, w, held, toRedis'.log, toRedis.read) /\ Ahead(w, toRedis'.log, clientSeq)
        /\ Climbs(k, w, toRedis'.log, clientSeq)
    BY <1>5, <2>2, <2>3, LineAppend DEF Orderly
  <2> QED
    BY <1>1, <1>3, <1>6, <2>1, <2>2, <2>4 DEF Orderly
<1>8. PendingHeld(toRedis.pending, toRedis.log)'
  <2>1. \A f \in toRedis.pending : toRedis'.log[f] = toRedis.log[f]
    BY <1>3, QueueFacts DEF TInv, TopicsOK
  <2> QED
    BY <1>1, <1>3, <1>6, <2>1 DEF Lined, PendingHeld
<1>9. Known(clientSeq', toRedis'.log, toRedis'.read, buffer')
  <2>1. Known(clientSeq, toRedis.log, toRedis.read, buffer)
    BY DEF Lined
  <2> QED
    BY <1>1, <1>3, <1>5, <2>1 DEF Known
<1>10. \A c \in Conv : m \notin DOMAIN clientSeq[c]
  BY <1>4, <1>5 DEF Lined, Known
<1>11. Sorted(clientSeq', toRedis'.log)
  <2>1. ASSUME NEW f \in DOMAIN toRedis'.log, NEW c \in Conv, toRedis'.log[f] \in DOMAIN clientSeq[c]
        PROVE  f \in DOMAIN toRedis.log /\ toRedis'.log[f] = toRedis.log[f]
    BY <1>3, <1>10, <2>1
  <2>2. Sorted(clientSeq, toRedis.log)
    BY DEF Lined
  <2>3. Sorted(clientSeq, toRedis'.log)
    BY <2>1, <2>2 DEF Sorted
  <2> QED
    BY <1>1, <2>3
<1> QED
  BY <1>7, <1>8, <1>9, <1>11 DEF Lined

\* What is pending is held: no claim can come.
LEMMA LineClaim ==
  ASSUME SentOnce, TInv, Lined, NEW p \in Process, NEW e \in toRedis.pending, Claim(p, e)
  PROVE  FALSE
<1>1. ~ Held(e)
  BY DEF Claim, SentOnce
<1>2. PICK k \in Key : k = Shape[toRedis.log[e]].key
  BY QueueFacts DEF TInv, TopicsOK, Key
<1>3. e \in Hands(W(p, k), buffer[p][k])
  BY <1>2 DEF Lined, PendingHeld
<1>4. W(p, k) = Idle <=> W(p, k).pc = "idle"
  BY WorkFacts DEF TInv
<1> QED
  BY <1>1, <1>3, <1>4 DEF Hands, Held, W

LEMMA LineStep ==
  ASSUME SentOnce, Apart
  PROVE  TInv /\ UseInv /\ HoldInv /\ KeepInv /\ LineInv /\ [Next]_vars => LineInv'
<1> SUFFICES ASSUME TInv, UseInv, HoldInv, KeepInv, LineInv, [Next]_vars, Alone, faults' = 0 PROVE Lined'
  BY DEF LineInv
<1>1. faults \in Nat
  BY BoundAssumption DEF TInv
<1>2. ASSUME faults' = faults \/ faults' = faults + 1 PROVE faults' = faults /\ Lined
  BY <1>1, <1>2 DEF LineInv
<1>3. ASSUME UNCHANGED <<toRedis, buffer, work, clientSeq>>, Lined PROVE Lined'
  BY <1>3 DEF Lined, Orderly, PendingHeld, W
<1>4. CASE \E m \in Msg : ClientSend(m) \/ SendReceipt(m)
  BY <1>2, <1>4, LineSend DEF ClientSend, SendReceipt
<1>5. CASE \E p \in Process : Deliver(p)
  BY <1>2, <1>5, LineDeliver DEF Deliver
<1>6. CASE \E p \in Process, e \in toRedis.pending : Claim(p, e)
  BY <1>2, <1>6, LineClaim DEF Claim
<1>7. CASE \E p \in Process, k \in Key : Flush(p, k)
  BY <1>2, <1>7, LineFlush DEF Flush
<1>8. CASE \E p \in Process, k \in Key : WorkerStep(p, k)
  <2>1. faults' = faults
    <3>1. PICK p \in Process, k \in Key : WorkerStep(p, k)
      BY <1>8
    <3>2. CASE ApplyReadReceipts(p, k) \/ LookupClient(p, k)
      BY <3>2 DEF ApplyReadReceipts, LookupClient
    <3>3. CASE Reserve(p, k) \/ Remember(p, k) \/ FillCache(p, k)
      BY <3>3 DEF Reserve, Remember, FillCache
    <3>4. CASE SaveMax(p, k) \/ Ensure(p, k) \/ PublishMySQL(p, k)
      BY <3>4 DEF SaveMax, Ensure, PublishMySQL
    <3>5. CASE PublishPush(p, k) \/ AckEntry(p, k)
      BY <3>5 DEF PublishPush, AckEntry
    <3> QED
      BY <3>1, <3>2, <3>3, <3>4, <3>5 DEF WorkerStep
  <2>2. Lined
    BY <1>2, <2>1
  <2> QED
    BY <1>8, <2>2, LineReceipts, LineLookup, LineReserve, LineRemember, LineCalls, LinePush, LineAck DEF WorkerStep
<1>9. CASE (\E p \in Process, k \in Key : DropBatch(p, k)) \/ \E p \in Process : Crash(p)
  <2>1. faults' = faults + 1
    BY <1>9 DEF DropBatch, Crash
  <2> QED
    BY <1>1, <2>1
<1>10. CASE \E p \in Process : WriteReadSeq(p)
  BY <1>2, <1>3, <1>10 DEF WriteReadSeq, redis
<1>11. CASE \E e \in DOMAIN toMySQL.log : StoreBatch(e)
  BY <1>2, <1>3, <1>11 DEF StoreBatch, redis
<1>12. CASE UNCHANGED vars
  BY <1>2, <1>3, <1>12 DEF vars, redis
<1> QED
  BY <1>4, <1>5, <1>6, <1>7, <1>8, <1>9, <1>10, <1>11, <1>12 DEF Next

(* While nothing fails and one process reads the queue, the messages of a   *)
(* key are numbered in the order in which the msg service accepted them:    *)
(* the batcher keeps their order, a batch works on its own, lookups list    *)
(* the messages without a number in order, and Malloc is above what it gave *)
(* before.  Clients send once (a message sent again keeps its first number) *)
(* and no notification conversation is a chat.                              *)
THEOREM TransferNumberedInOrder ==
  ASSUME SentOnce, Apart
  PROVE  Spec => []NumberedInOrder
<1>1. Init => TInv /\ UseInv /\ HoldInv /\ KeepInv /\ LineInv
  BY TypesAtStart, UseAtStart, HoldAtStart, KeepAtStart, LineAtStart
<1>2. TInv /\ UseInv /\ HoldInv /\ KeepInv /\ LineInv /\ [Next]_vars => (TInv /\ UseInv /\ HoldInv /\ KeepInv /\ LineInv)'
  BY StepKeepsTypes, UseStep, HoldStep, KeepStep, LineStep
<1>3. LineInv => NumberedInOrder
  <2> SUFFICES ASSUME LineInv, faults = 0, Cardinality(Process) = 1,
                      NEW e \in DOMAIN toRedis.log, NEW f \in DOMAIN toRedis.log, NEW c \in Conv,
                      e < f, Shape[MsgAt(e)].key = Shape[MsgAt(f)].key,
                      {MsgAt(e), MsgAt(f)} \subseteq DOMAIN clientSeq[c]
               PROVE  clientSeq[c][MsgAt(e)] <= clientSeq[c][MsgAt(f)]
    BY DEF NumberedInOrder
  <2>1. PICK x : Process = {x}
    BY ProcessAssumption, FS_Singleton
  <2>2. Sorted(clientSeq, toRedis.log)
    BY <2>1 DEF Alone, LineInv, Lined
  <2> QED
    BY <2>2 DEF Sorted, MsgAt
<1> QED
  BY <1>1, <1>2, <1>3, PTL DEF Spec
=============================================================================

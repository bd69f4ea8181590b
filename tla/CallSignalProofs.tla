-------------------------- MODULE CallSignalProofs --------------------------
(***************************************************************************)
(* Proofs about the call board, for any number of people and calls and any *)
(* times to live with RingWait < RingTTL, and about what the devices of    *)
(* two people are told of their calls, for any number of people, devices,  *)
(* calls, requests and replicas, and for every fault the model has.  The   *)
(* service implements the board it runs on, so what is proved of the board *)
(* holds under it.                                                         *)
(***************************************************************************)
EXTENDS CallSignal, TLAPS


IInv == TypeOK /\ LockAgreement /\ RingingIndexed

(* The keys, spelled out field by field. *)
LEMMA HashFields ==
  ASSUME TypeOK, NEW c \in DOMAIN hash
  PROVE  /\ hash[c] \in Hash /\ c \in CallID /\ c \in used
         /\ hash[c].caller \in User /\ hash[c].callee \in User
         /\ hash[c].state \in {"ringing", "accepted"}
         /\ hash[c].ttl \in Nat /\ hash[c].ttl > 0
         /\ Parties(c) = {hash[c].caller, hash[c].callee}
<1>1. hash[c] \in Hash /\ c \in CallID /\ c \in used
  BY DEF TypeOK
<1> QED
  BY <1>1 DEF Hash, Parties

(* The agreement of locks and calls, without sets of participants. *)
LEMMA LockFields ==
  LockAgreement <=>
    /\ \A d \in DOMAIN hash :
         /\ hash[d].caller # hash[d].callee
         /\ hash[d].caller \in DOMAIN busy /\ hash[d].callee \in DOMAIN busy
         /\ busy[hash[d].caller] = [call |-> d, ttl |-> hash[d].ttl]
         /\ busy[hash[d].callee] = [call |-> d, ttl |-> hash[d].ttl]
    /\ \A w \in DOMAIN busy :
         /\ busy[w].call \in DOMAIN hash
         /\ w \in {hash[busy[w].call].caller, hash[busy[w].call].callee}
BY DEF LockAgreement, Parties

(* Two live calls share nobody: a lock names one call. *)
LEMMA DisjointCalls ==
  ASSUME LockAgreement, NEW c \in DOMAIN hash, NEW d \in DOMAIN hash, c # d
  PROVE  {hash[c].caller, hash[c].callee} \cap {hash[d].caller, hash[d].callee} = {}
<1>1. /\ busy[hash[c].caller] = [call |-> c, ttl |-> hash[c].ttl]
      /\ busy[hash[c].callee] = [call |-> c, ttl |-> hash[c].ttl]
  BY LockFields
<1>2. /\ busy[hash[d].caller] = [call |-> d, ttl |-> hash[d].ttl]
      /\ busy[hash[d].callee] = [call |-> d, ttl |-> hash[d].ttl]
  BY LockFields
<1>3. [call |-> c, ttl |-> hash[c].ttl] # [call |-> d, ttl |-> hash[d].ttl]
  OBVIOUS
<1> QED BY <1>1, <1>2, <1>3

LEMMA InitInv == Init => IInv
BY DEF Init, IInv, TypeOK, LockAgreement, RingingIndexed

(* A new call: both people were free, so no lock is overwritten. *)
LEMMA InviteStep ==
  ASSUME IInv, NEW u \in User, NEW v \in User, NEW c \in CallID, Invite(u, v, c)
  PROVE  IInv'
<1> DEFINE h == [caller |-> u, callee |-> v, state |-> "ringing", ttl |-> RingTTL]
           l == [call |-> c, ttl |-> RingTTL]
<1>t. RingTTL \in Nat \ {0} /\ RingWait \in Nat /\ RingWait < RingTTL
  BY Timing
<1>a. u # v /\ c \notin used /\ u \notin DOMAIN busy /\ v \notin DOMAIN busy /\ used' = used \cup {c}
  BY DEF Invite
<1>h. /\ DOMAIN hash' = DOMAIN hash \cup {c}
      /\ hash'[c] = h
      /\ \A d \in DOMAIN hash : d # c => hash'[d] = hash[d]
  <2>1. hash' = Put(hash, c, h)
    BY DEF Invite
  <2> QED BY <2>1 DEF Put
<1>b. /\ DOMAIN busy' = DOMAIN busy \cup {u, v}
      /\ busy'[u] = l /\ busy'[v] = l
      /\ \A w \in DOMAIN busy : busy'[w] = busy[w]
  <2>1. busy' = Put(Put(busy, u, l), v, l)
    BY DEF Invite
  <2> QED BY <2>1, <1>a DEF Put
<1>r. /\ DOMAIN ringing' = DOMAIN ringing \cup {c}
      /\ ringing'[c] = RingWait
      /\ \A d \in DOMAIN ringing : d # c => ringing'[d] = ringing[d]
  <2>1. ringing' = Put(ringing, c, RingWait)
    BY DEF Invite
  <2> QED BY <2>1 DEF Put
<1>f. c \notin DOMAIN hash /\ c \notin DOMAIN ringing
  BY <1>a DEF IInv, TypeOK, RingingIndexed
<1>p. \A d \in DOMAIN hash' : Parties(d)' = IF d = c THEN {u, v} ELSE Parties(d)
  BY <1>h, <1>f DEF Parties
<1>1. TypeOK'
  <2>1. \A d \in DOMAIN hash' : d \in CallID /\ hash'[d] \in Hash
    BY <1>h, <1>t DEF IInv, TypeOK, Hash
  <2>2. \A w \in DOMAIN busy' : w \in User /\ busy'[w] \in Lock
    BY <1>b, <1>t DEF IInv, TypeOK, Lock
  <2>3. \A d \in DOMAIN ringing' : d \in CallID /\ ringing'[d] \in 0..RingWait
    BY <1>r, <1>t DEF IInv, TypeOK
  <2>4. hash' = [d \in DOMAIN hash' |-> hash'[d]] /\ busy' = [w \in DOMAIN busy' |-> busy'[w]]
          /\ ringing' = [d \in DOMAIN ringing' |-> ringing'[d]]
    BY DEF Invite, Put
  <2>5. used' \subseteq CallID /\ DOMAIN hash' \subseteq used'
    BY <1>a, <1>h DEF IInv, TypeOK
  <2> QED BY <2>1, <2>2, <2>3, <2>4, <2>5 DEF TypeOK
<1>2. LockAgreement'
  BY <1>a, <1>h, <1>b, <1>f, <1>p DEF IInv, LockAgreement
<1>3. RingingIndexed'
  BY <1>a, <1>h, <1>r, <1>f, <1>t DEF IInv, RingingIndexed
<1> QED BY <1>1, <1>2, <1>3 DEF IInv

(* A call that ends: only its own participants lose a lock. *)
LEMMA FinishStep ==
  ASSUME IInv, NEW op \in Op, NEW u, NEW c, Reply(op, u, c) = "ok", op # "accept",
         Finish(op, c), used' = used
  PROVE  IInv'
<1>a. c \in DOMAIN hash /\ (op = "hangup" => hash[c].state = "accepted")
  BY DEF Reply, Wanted, Op
<1>h. /\ DOMAIN hash' = DOMAIN hash \ {c}
      /\ \A d \in DOMAIN hash' : hash'[d] = hash[d]
      /\ hash' = [d \in DOMAIN hash' |-> hash'[d]]
  BY DEF Finish, Drop, Restrict
<1>b. /\ DOMAIN busy' = DOMAIN busy \ Parties(c)
      /\ \A w \in DOMAIN busy' : busy'[w] = busy[w]
      /\ busy' = [w \in DOMAIN busy' |-> busy'[w]]
  BY DEF Finish, Drop, Restrict
<1>r. /\ DOMAIN ringing' = DOMAIN ringing \ {c}
      /\ \A d \in DOMAIN ringing' : ringing'[d] = ringing[d]
      /\ ringing' = [d \in DOMAIN ringing' |-> ringing'[d]]
  <2>1. CASE op = "hangup"
    <3>1. c \notin DOMAIN ringing
      BY <1>a, <2>1 DEF IInv, RingingIndexed
    <3>2. ringing = [d \in DOMAIN ringing |-> ringing[d]]
      BY DEF IInv, TypeOK
    <3> QED BY <2>1, <3>1, <3>2 DEF Finish
  <2>2. CASE op # "hangup"
    BY <2>2 DEF Finish, Drop, Restrict
  <2> QED BY <2>1, <2>2
<1>1. TypeOK'
  BY <1>h, <1>b, <1>r DEF IInv, TypeOK
<1>2. LockAgreement'
  <2>0. Parties(c) = {hash[c].caller, hash[c].callee}
    BY DEF Parties
  <2>1. ASSUME NEW d \in DOMAIN hash'
        PROVE  hash[d].caller \notin Parties(c) /\ hash[d].callee \notin Parties(c)
    BY <1>a, <1>h, <2>0, DisjointCalls DEF IInv
  <2>2. ASSUME NEW d \in DOMAIN hash'
        PROVE  /\ hash'[d].caller # hash'[d].callee
               /\ hash'[d].caller \in DOMAIN busy' /\ hash'[d].callee \in DOMAIN busy'
               /\ busy'[hash'[d].caller] = [call |-> d, ttl |-> hash'[d].ttl]
               /\ busy'[hash'[d].callee] = [call |-> d, ttl |-> hash'[d].ttl]
    BY <1>h, <1>b, <2>1, LockFields DEF IInv
  <2>3. ASSUME NEW w \in DOMAIN busy'
        PROVE  /\ busy'[w].call \in DOMAIN hash'
               /\ w \in {hash'[busy'[w].call].caller, hash'[busy'[w].call].callee}
    BY <1>h, <1>b, <2>0, LockFields DEF IInv
  <2> QED BY <2>2, <2>3 DEF LockAgreement, Parties
<1>3. RingingIndexed'
  BY <1>h, <1>r DEF IInv, RingingIndexed
<1> QED BY <1>1, <1>2, <1>3 DEF IInv

(* An answered call: hash and both locks are renewed together. *)
LEMMA AnswerStep ==
  ASSUME IInv, NEW c \in DOMAIN hash, Answer(c), used' = used
  PROVE  IInv'
<1>t. AcceptedTTL \in Nat \ {0}
  BY Timing
<1>h. /\ DOMAIN hash' = DOMAIN hash
      /\ hash'[c] = [hash[c] EXCEPT !.state = "accepted", !.ttl = AcceptedTTL]
      /\ \A d \in DOMAIN hash : d # c => hash'[d] = hash[d]
      /\ hash' = [d \in DOMAIN hash' |-> hash'[d]]
  <2>1. hash = [d \in DOMAIN hash |-> hash[d]]
    BY DEF IInv, TypeOK
  <2> QED BY <2>1 DEF Answer
<1>c. hash[c] \in Hash /\ hash'[c] \in Hash
      /\ hash'[c].caller = hash[c].caller /\ hash'[c].callee = hash[c].callee
      /\ hash'[c].state = "accepted" /\ hash'[c].ttl = AcceptedTTL
  <2>1. hash[c] \in Hash
    BY DEF IInv, TypeOK
  <2> QED BY <2>1, <1>h, <1>t DEF Hash
<1>b. /\ DOMAIN busy' = DOMAIN busy
      /\ \A w \in DOMAIN busy : busy'[w] = IF w \in Parties(c) THEN [busy[w] EXCEPT !.ttl = AcceptedTTL] ELSE busy[w]
      /\ busy' = [w \in DOMAIN busy' |-> busy'[w]]
  BY DEF Answer
<1>r. /\ DOMAIN ringing' = DOMAIN ringing \ {c}
      /\ \A d \in DOMAIN ringing' : ringing'[d] = ringing[d]
      /\ ringing' = [d \in DOMAIN ringing' |-> ringing'[d]]
  BY DEF Answer, Drop, Restrict
<1>l. \A w \in DOMAIN busy : busy[w] \in Lock /\ busy'[w] \in Lock /\ busy'[w].call = busy[w].call
  <2>1. \A w \in DOMAIN busy : busy[w] \in Lock
    BY DEF IInv, TypeOK
  <2> QED BY <2>1, <1>b, <1>t DEF Lock
<1>1. TypeOK'
  BY <1>h, <1>c, <1>b, <1>l, <1>r DEF IInv, TypeOK
<1>2. LockAgreement'
  <2>0. Parties(c) = {hash[c].caller, hash[c].callee}
    BY DEF Parties
  <2>2. ASSUME NEW d \in DOMAIN hash'
        PROVE  /\ hash'[d].caller # hash'[d].callee
               /\ hash'[d].caller \in DOMAIN busy' /\ hash'[d].callee \in DOMAIN busy'
               /\ busy'[hash'[d].caller] = [call |-> d, ttl |-> hash'[d].ttl]
               /\ busy'[hash'[d].callee] = [call |-> d, ttl |-> hash'[d].ttl]
    <3>1. CASE d = c
      <4>1. /\ hash[c].caller \in DOMAIN busy /\ hash[c].callee \in DOMAIN busy
            /\ busy[hash[c].caller] = [call |-> c, ttl |-> hash[c].ttl]
            /\ busy[hash[c].callee] = [call |-> c, ttl |-> hash[c].ttl]
            /\ hash[c].caller # hash[c].callee
        BY LockFields DEF IInv
      <4>2. /\ busy'[hash[c].caller] = [busy[hash[c].caller] EXCEPT !.ttl = AcceptedTTL]
            /\ busy'[hash[c].callee] = [busy[hash[c].callee] EXCEPT !.ttl = AcceptedTTL]
        BY <4>1, <1>b, <2>0
      <4> QED BY <3>1, <4>1, <4>2, <1>c, <1>b
    <3>2. CASE d # c
      <4>1. /\ hash'[d] = hash[d]
            /\ hash[d].caller \in DOMAIN busy /\ hash[d].callee \in DOMAIN busy
            /\ busy[hash[d].caller] = [call |-> d, ttl |-> hash[d].ttl]
            /\ busy[hash[d].callee] = [call |-> d, ttl |-> hash[d].ttl]
            /\ hash[d].caller # hash[d].callee
        BY <3>2, <1>h, LockFields DEF IInv
      <4>2. hash[d].caller \notin Parties(c) /\ hash[d].callee \notin Parties(c)
        BY <3>2, <1>h, <2>0, DisjointCalls DEF IInv
      <4> QED BY <4>1, <4>2, <1>b
    <3> QED BY <3>1, <3>2
  <2>3. ASSUME NEW w \in DOMAIN busy'
        PROVE  /\ busy'[w].call \in DOMAIN hash'
               /\ w \in {hash'[busy'[w].call].caller, hash'[busy'[w].call].callee}
    <3>1. w \in DOMAIN busy /\ busy'[w].call = busy[w].call
      BY <1>b, <1>l
    <3>2. busy[w].call \in DOMAIN hash /\ w \in {hash[busy[w].call].caller, hash[busy[w].call].callee}
      BY <3>1, LockFields DEF IInv
    <3> QED BY <3>1, <3>2, <1>h, <1>c
  <2> QED BY <2>2, <2>3 DEF LockAgreement, Parties
<1>3. RingingIndexed'
  BY <1>h, <1>c, <1>r DEF IInv, RingingIndexed
<1> QED BY <1>1, <1>2, <1>3 DEF IInv

(* Taking a dead or answered call out of the index. *)
LEMMA UnindexStep ==
  ASSUME IInv, NEW c, Unindex(c), used' = used,
         c \notin DOMAIN hash \/ hash[c].state = "accepted"
  PROVE  IInv'
<1>h. hash' = hash /\ busy' = busy
  BY DEF Unindex
<1>r. /\ DOMAIN ringing' = DOMAIN ringing \ {c}
      /\ \A d \in DOMAIN ringing' : ringing'[d] = ringing[d]
      /\ ringing' = [d \in DOMAIN ringing' |-> ringing'[d]]
  BY DEF Unindex, Drop, Restrict
<1>p. \A d : Parties(d)' = Parties(d)
  BY <1>h DEF Parties
<1>1. TypeOK'
  BY <1>h, <1>r DEF IInv, TypeOK
<1>2. LockAgreement'
  BY <1>h, <1>p DEF IInv, LockAgreement
<1>3. RingingIndexed'
  BY <1>h, <1>r DEF IInv, RingingIndexed
<1> QED BY <1>1, <1>2, <1>3 DEF IInv

(* A script that refuses. *)
LEMMA UnchangedStep == IInv /\ UNCHANGED board => IInv'
BY DEF board, IInv, TypeOK, LockAgreement, RingingIndexed, Parties

LEMMA ScriptStep ==
  ASSUME IInv, NEW op \in Op, NEW u, NEW c, RunScript(op, u, c)
  PROVE  IInv'
<1>u. used' = used
  BY DEF RunScript
<1>1. CASE Reply(op, u, c) = "ok" /\ op = "accept" /\ Answer(c)
  <2>1. c \in DOMAIN hash
    BY <1>1 DEF Reply
  <2> QED BY <1>1, <1>u, <2>1, AnswerStep
<1>2. CASE Reply(op, u, c) = "ok" /\ op # "accept" /\ Finish(op, c)
  BY <1>2, <1>u, FinishStep
<1>3. CASE /\ \/ Reply(op, u, c) = "missing" /\ op # "hangup"
              \/ Reply(op, u, c) = "state" /\ op = "timeout"
           /\ Unindex(c)
  <2>1. Reply(op, u, c) = "missing" => c \notin DOMAIN hash
    BY DEF Reply
  <2>2. Reply(op, u, c) = "state" /\ op = "timeout" =>
          c \in DOMAIN hash /\ hash[c].state # "ringing"
    BY DEF Reply, Wanted
  <2>3. c \in DOMAIN hash => hash[c].state \in {"ringing", "accepted"}
    BY DEF IInv, TypeOK, Hash
  <2> QED BY <1>3, <1>u, <2>1, <2>2, <2>3, UnindexStep
<1>4. CASE UNCHANGED <<hash, busy, ringing>>
  BY <1>4, <1>u, UnchangedStep DEF board
<1> QED BY <1>1, <1>2, <1>3, <1>4 DEF RunScript

(* Time: a call and its two locks have the same time to live, so they go together. *)
LEMMA TickStep ==
  ASSUME IInv, Tick
  PROVE  IInv'
<1>t. RingWait \in Nat
  BY Timing
<1>u. used' = used
  BY DEF Tick
<1>h. /\ DOMAIN hash' = {d \in DOMAIN hash : hash[d].ttl > 1}
      /\ \A d \in DOMAIN hash' : hash'[d] = [hash[d] EXCEPT !.ttl = hash[d].ttl - 1]
      /\ hash' = [d \in DOMAIN hash' |-> hash'[d]]
  BY DEF Tick, Age
<1>b. /\ DOMAIN busy' = {w \in DOMAIN busy : busy[w].ttl > 1}
      /\ \A w \in DOMAIN busy' : busy'[w] = [busy[w] EXCEPT !.ttl = busy[w].ttl - 1]
      /\ busy' = [w \in DOMAIN busy' |-> busy'[w]]
  BY DEF Tick, Age
<1>c. \A d \in DOMAIN hash' :
         /\ hash[d] \in Hash /\ hash'[d] \in Hash
         /\ hash'[d].caller = hash[d].caller /\ hash'[d].callee = hash[d].callee
         /\ hash'[d].state = hash[d].state /\ hash'[d].ttl = hash[d].ttl - 1
  <2> TAKE d \in DOMAIN hash'
  <2>1. d \in DOMAIN hash /\ hash[d] \in Hash /\ hash[d].ttl > 1
    BY <1>h DEF IInv, TypeOK
  <2>2. hash[d].ttl \in Nat /\ hash[d].ttl - 1 \in Nat \ {0}
    BY <2>1 DEF Hash
  <2>3. hash'[d] = [hash[d] EXCEPT !.ttl = hash[d].ttl - 1]
    BY <1>h
  <2> QED BY <2>1, <2>2, <2>3 DEF Hash
<1>l. \A w \in DOMAIN busy' :
         /\ busy[w] \in Lock /\ busy'[w] \in Lock
         /\ busy'[w].call = busy[w].call /\ busy'[w].ttl = busy[w].ttl - 1
  <2> TAKE w \in DOMAIN busy'
  <2>1. w \in DOMAIN busy /\ busy[w] \in Lock /\ busy[w].ttl > 1
    BY <1>b DEF IInv, TypeOK
  <2>2. busy[w].ttl \in Nat /\ busy[w].ttl - 1 \in Nat \ {0}
    BY <2>1 DEF Lock
  <2>3. busy'[w] = [busy[w] EXCEPT !.ttl = busy[w].ttl - 1]
    BY <1>b
  <2> QED BY <2>1, <2>2, <2>3 DEF Lock
<1>r. /\ DOMAIN ringing' = DOMAIN ringing
      /\ \A d \in DOMAIN ringing : ringing'[d] \in 0..RingWait
           /\ (ringing'[d] = 0 \/ ringing'[d] = ringing[d] - 1)
      /\ ringing' = [d \in DOMAIN ringing' |-> ringing'[d]]
  <2>1. \A d \in DOMAIN ringing : ringing[d] \in 0..RingWait
    BY DEF IInv, TypeOK
  <2> QED BY <2>1, <1>t DEF Tick
<1>s. \A d \in DOMAIN hash : hash[d].ttl \in Nat
  BY DEF IInv, TypeOK, Hash
<1>1. TypeOK'
  BY <1>u, <1>h, <1>b, <1>c, <1>l, <1>r DEF IInv, TypeOK
<1>2. LockAgreement'
  <2>2. ASSUME NEW d \in DOMAIN hash'
        PROVE  /\ hash'[d].caller # hash'[d].callee
               /\ hash'[d].caller \in DOMAIN busy' /\ hash'[d].callee \in DOMAIN busy'
               /\ busy'[hash'[d].caller] = [call |-> d, ttl |-> hash'[d].ttl]
               /\ busy'[hash'[d].callee] = [call |-> d, ttl |-> hash'[d].ttl]
    <3>1. d \in DOMAIN hash /\ hash[d].ttl > 1
      BY <1>h
    <3>2. /\ hash[d].caller # hash[d].callee
          /\ hash[d].caller \in DOMAIN busy /\ hash[d].callee \in DOMAIN busy
          /\ busy[hash[d].caller] = [call |-> d, ttl |-> hash[d].ttl]
          /\ busy[hash[d].callee] = [call |-> d, ttl |-> hash[d].ttl]
      BY <3>1, LockFields DEF IInv
    <3>3. hash[d].caller \in DOMAIN busy' /\ hash[d].callee \in DOMAIN busy'
      BY <3>1, <3>2, <1>b
    <3> QED BY <3>2, <3>3, <1>b, <1>c
  <2>3. ASSUME NEW w \in DOMAIN busy'
        PROVE  /\ busy'[w].call \in DOMAIN hash'
               /\ w \in {hash'[busy'[w].call].caller, hash'[busy'[w].call].callee}
    <3>1. PICK d : d = busy[w].call
      OBVIOUS
    <3>2. w \in DOMAIN busy /\ busy[w].ttl > 1 /\ busy'[w].call = d
      BY <3>1, <1>b, <1>l
    <3>3. d \in DOMAIN hash /\ w \in {hash[d].caller, hash[d].callee}
      BY <3>1, <3>2, LockFields DEF IInv
    <3>4. busy[w] = [call |-> d, ttl |-> hash[d].ttl]
      BY <3>3, LockFields DEF IInv
    <3>5. hash[d].ttl > 1
      BY <3>2, <3>4
    <3>6. d \in DOMAIN hash'
      BY <3>3, <3>5, <1>h
    <3> QED BY <3>2, <3>3, <3>6, <1>c
  <2> QED BY <2>2, <2>3 DEF LockAgreement, Parties
<1>3. RingingIndexed'
  <2>1. ASSUME NEW d \in DOMAIN hash', hash'[d].state = "ringing"
        PROVE  d \in DOMAIN ringing' /\ ringing'[d] < hash'[d].ttl
    <3>1. d \in DOMAIN ringing /\ ringing[d] < hash[d].ttl /\ hash[d].ttl > 1
      BY <2>1, <1>h, <1>c DEF IInv, RingingIndexed
    <3>2. ringing[d] \in Nat /\ hash[d].ttl \in Nat
      BY <3>1, <1>t, <1>s, <1>h DEF IInv, TypeOK
    <3> QED BY <3>1, <3>2, <1>c, <1>r
  <2>2. ASSUME NEW d \in DOMAIN hash', hash'[d].state # "ringing"
        PROVE  d \notin DOMAIN ringing'
    BY <2>2, <1>h, <1>c, <1>r DEF IInv, RingingIndexed
  <2> QED BY <2>1, <2>2, <1>r, <1>u DEF IInv, RingingIndexed
<1> QED BY <1>1, <1>2, <1>3 DEF IInv

LEMMA NextInv == IInv /\ [BoardNext]_board => IInv'
<1> SUFFICES ASSUME IInv, [BoardNext]_board PROVE IInv'
  OBVIOUS
<1>1. ASSUME NEW u \in User, NEW v \in User, NEW c \in CallID, Invite(u, v, c) PROVE IInv'
  BY <1>1, InviteStep
<1>2. ASSUME NEW op \in Op, NEW u \in User, NEW c \in CallID, RunScript(op, u, c) PROVE IInv'
  BY <1>2, ScriptStep
<1>3. ASSUME Tick PROVE IInv'
  BY <1>3, TickStep
<1>4. CASE UNCHANGED board
  BY <1>4, UnchangedStep
<1> QED BY <1>1, <1>2, <1>3, <1>4 DEF BoardNext

(* The board keeps its types, its locks agree with its calls and its index *)
(* covers every ringing call, whatever the scripts' order and the clock.   *)
THEOREM BoardInvariant == BoardSpec => [](TypeOK /\ LockAgreement /\ RingingIndexed)
<1>1. BoardSpec => []IInv
  BY InitInv, NextInv, PTL DEF BoardSpec
<1> QED BY <1>1, PTL DEF IInv

(* The keys, locks and index entries stay within their types.               *)
THEOREM BoardTypeOK == BoardSpec => []TypeOK
<1> QED BY BoardInvariant, PTL

(* No ringing call can vanish without a timeout: its index entry comes due  *)
(* before its keys expire.                                                  *)
THEOREM BoardRingingIndexed == BoardSpec => []RingingIndexed
<1> QED BY BoardInvariant, PTL
-----------------------------------------------------------------------------
(* The refinement.  The abstract state of a call under Registry.            *)
PhaseOf(c) == IF c \in DOMAIN hash THEN hash[c].state
              ELSE IF c \in used THEN "over" ELSE "new"
WhoOf(c) == IF c \in DOMAIN hash THEN Parties(c) ELSE {}
phaseBar == [c \in CallID |-> PhaseOf(c)]
whoBar == [c \in CallID |-> WhoOf(c)]

LEMMA RegistryInit == Init => Registry!Init
BY DEF Init, Registry!Init

(* An invitation begins a call between two people in no open call.          *)
LEMMA InviteBegins ==
  ASSUME IInv, NEW u \in User, NEW v \in User, NEW c \in CallID, Invite(u, v, c)
  PROVE  Registry!Begin(c, u, v)
<1>a. u # v /\ c \notin used /\ u \notin DOMAIN busy /\ v \notin DOMAIN busy /\ used' = used \cup {c}
  BY DEF Invite
<1>h. /\ DOMAIN hash' = DOMAIN hash \cup {c}
      /\ hash'[c] = [caller |-> u, callee |-> v, state |-> "ringing", ttl |-> RingTTL]
      /\ \A d \in DOMAIN hash : d # c => hash'[d] = hash[d]
  BY DEF Invite, Put
<1>f. c \notin DOMAIN hash
  BY <1>a DEF IInv, TypeOK
<1>1. PhaseOf(c) = "new"
  BY <1>a, <1>f DEF PhaseOf
<1>2. \A d \in CallID : PhaseOf(d) \in {"ringing", "accepted"} => u \notin WhoOf(d) /\ v \notin WhoOf(d)
  <2> TAKE d \in CallID
  <2>1. CASE d \in DOMAIN hash
    <3>1. hash[d].caller \in DOMAIN busy /\ hash[d].callee \in DOMAIN busy
      BY <2>1, LockFields DEF IInv
    <3> QED BY <2>1, <3>1, <1>a DEF WhoOf, Parties
  <2>2. CASE d \notin DOMAIN hash
    BY <2>2 DEF WhoOf
  <2> QED BY <2>1, <2>2
<1>3. phaseBar' = [phaseBar EXCEPT ![c] = "ringing"]
  <2>1. \A d \in CallID : PhaseOf(d)' = IF d = c THEN "ringing" ELSE PhaseOf(d)
    BY <1>a, <1>h, <1>f DEF PhaseOf
  <2> QED BY <2>1 DEF phaseBar
<1>4. whoBar' = [whoBar EXCEPT ![c] = {u, v}]
  <2>1. \A d \in CallID : WhoOf(d)' = IF d = c THEN {u, v} ELSE WhoOf(d)
    BY <1>h, <1>f DEF WhoOf, Parties
  <2> QED BY <2>1 DEF whoBar
<1> QED
  BY <1>a, <1>1, <1>2, <1>3, <1>4
  DEF Registry!Begin, Registry!Engaged, Registry!Open, phaseBar, whoBar, PhaseOf, WhoOf

(* acceptScript answers an open call.                                       *)
LEMMA AnswerAnswers ==
  ASSUME IInv, NEW c \in DOMAIN hash, hash[c].state = "ringing", Answer(c), used' = used
  PROVE  c \in CallID /\ Registry!Answer(c)
<1>c. c \in CallID /\ hash[c] \in Hash
  BY DEF IInv, TypeOK
<1>h. /\ DOMAIN hash' = DOMAIN hash
      /\ hash'[c].state = "accepted"
      /\ hash'[c].caller = hash[c].caller /\ hash'[c].callee = hash[c].callee
      /\ \A d \in DOMAIN hash : d # c => hash'[d] = hash[d]
  <2>1. /\ hash' = [hash EXCEPT ![c] = [@ EXCEPT !.state = "accepted", !.ttl = AcceptedTTL]]
        /\ hash = [d \in DOMAIN hash |-> hash[d]]
    BY DEF Answer, IInv, TypeOK
  <2>2. hash'[c] = [hash[c] EXCEPT !.state = "accepted", !.ttl = AcceptedTTL]
    BY <2>1
  <2> QED BY <2>1, <2>2, <1>c DEF Hash
<1>1. PhaseOf(c) = "ringing"
  BY DEF PhaseOf
<1>2. phaseBar' = [phaseBar EXCEPT ![c] = "accepted"]
  <2>1. \A d \in CallID : PhaseOf(d)' = IF d = c THEN "accepted" ELSE PhaseOf(d)
    BY <1>h DEF PhaseOf
  <2> QED BY <2>1 DEF phaseBar
<1>3. whoBar' = whoBar
  <2>1. \A d \in CallID : WhoOf(d)' = WhoOf(d)
    BY <1>h DEF WhoOf, Parties
  <2> QED BY <2>1 DEF whoBar
<1> QED BY <1>c, <1>1, <1>2, <1>3 DEF Registry!Answer, phaseBar, whoBar, PhaseOf, WhoOf

(* Calls whose hash goes, by a script or by time, end together.             *)
LEMMA GoneFinish ==
  ASSUME IInv, used' = used, NEW S \in SUBSET DOMAIN hash,
         DOMAIN hash' = DOMAIN hash \ S,
         \A d \in DOMAIN hash' : /\ hash'[d].state = hash[d].state
                                 /\ hash'[d].caller = hash[d].caller
                                 /\ hash'[d].callee = hash[d].callee
  PROVE  [Registry!Next]_(Registry!vars)
<1>s. S \subseteq CallID /\ S \subseteq used
  BY DEF IInv, TypeOK
<1>1. \A d \in CallID : PhaseOf(d)' = IF d \in S THEN "over" ELSE PhaseOf(d)
  BY <1>s DEF PhaseOf
<1>2. \A d \in CallID : WhoOf(d)' = IF d \in S THEN {} ELSE WhoOf(d)
  BY DEF WhoOf, Parties
<1>3. phaseBar' = [d \in CallID |-> IF d \in S THEN "over" ELSE phaseBar[d]]
  BY <1>1 DEF phaseBar
<1>4. whoBar' = [d \in CallID |-> IF d \in S THEN {} ELSE whoBar[d]]
  BY <1>2 DEF whoBar
<1>5. CASE S = {}
  <2>1. phaseBar' = phaseBar /\ whoBar' = whoBar
    BY <1>3, <1>4, <1>5 DEF phaseBar, whoBar
  <2> QED BY <2>1 DEF Registry!vars, phaseBar, whoBar, PhaseOf, WhoOf
<1>6. CASE S # {}
  <2>1. \A d \in S : PhaseOf(d) \in {"ringing", "accepted"}
    BY DEF IInv, TypeOK, Hash, PhaseOf
  <2>2. Registry!Finish(S)
    BY <1>s, <1>6, <2>1, <1>3, <1>4
    DEF Registry!Finish, Registry!Open, phaseBar, whoBar, PhaseOf, WhoOf
  <2> QED BY <2>2, <1>s DEF Registry!Next
<1> QED BY <1>5, <1>6

LEMMA RegistryStep == IInv /\ [BoardNext]_board => [Registry!Next]_(Registry!vars)
<1> SUFFICES ASSUME IInv, [BoardNext]_board PROVE [Registry!Next]_(Registry!vars)
  OBVIOUS
<1>1. ASSUME NEW u \in User, NEW v \in User, NEW c \in CallID, Invite(u, v, c)
      PROVE  [Registry!Next]_(Registry!vars)
  BY <1>1, InviteBegins DEF Registry!Next
<1>2. ASSUME NEW op \in Op, NEW u \in User, NEW c \in CallID, RunScript(op, u, c)
      PROVE  [Registry!Next]_(Registry!vars)
  <2>u. used' = used
    BY <1>2 DEF RunScript
  <2>1. CASE Reply(op, u, c) = "ok" /\ op = "accept" /\ Answer(c)
    <3>1. c \in DOMAIN hash /\ hash[c].state = "ringing"
      BY <2>1 DEF Reply, Wanted
    <3>2. Registry!Answer(c)
      BY <2>1, <2>u, <3>1, AnswerAnswers
    <3> QED BY <3>2 DEF Registry!Next
  <2>2. CASE Reply(op, u, c) = "ok" /\ Finish(op, c)
    <3>1. c \in DOMAIN hash
      BY <2>2 DEF Reply
    <3>2. DOMAIN hash' = DOMAIN hash \ {c} /\ \A d \in DOMAIN hash' : hash'[d] = hash[d]
      BY <2>2 DEF Finish, Drop, Restrict
    <3> QED BY <2>u, <3>1, <3>2, GoneFinish
  <2>3. CASE UNCHANGED hash
    BY <2>u, <2>3, GoneFinish
  <2> QED BY <1>2, <2>1, <2>2, <2>3 DEF RunScript, Unindex
<1>3. ASSUME Tick PROVE [Registry!Next]_(Registry!vars)
  <2> DEFINE S == {d \in DOMAIN hash : ~(hash[d].ttl > 1)}
  <2>1. DOMAIN hash' = DOMAIN hash \ S
    BY <1>3 DEF Tick, Age
  <2>2. ASSUME NEW d \in DOMAIN hash'
        PROVE  hash'[d].state = hash[d].state /\ hash'[d].caller = hash[d].caller /\ hash'[d].callee = hash[d].callee
    <3>1. d \in DOMAIN hash /\ hash'[d] = [hash[d] EXCEPT !.ttl = hash[d].ttl - 1]
      BY <1>3 DEF Tick, Age
    <3>2. hash[d] \in Hash
      BY <3>1 DEF IInv, TypeOK
    <3> QED BY <3>1, <3>2 DEF Hash
  <2>3. used' = used
    BY <1>3 DEF Tick
  <2> HIDE DEF S
  <2>4. S \in SUBSET DOMAIN hash
    BY DEF S
  <2> QED BY <2>1, <2>2, <2>3, <2>4, GoneFinish
<1>4. CASE UNCHANGED board
  BY <1>4, GoneFinish DEF board
<1> QED BY <1>1, <1>2, <1>3, <1>4 DEF BoardNext

(* The board implements the registry of exclusive calls: nobody is ever in  *)
(* two open calls, a call is answered at most once, and one that is over    *)
(* stays over, although the scripts delete locks without comparing them.    *)
THEOREM BoardImplementsRegistry == BoardSpec => ExclusiveCalls
<1>1. BoardSpec => []IInv
  BY InitInv, NextInv, PTL DEF BoardSpec
<1> QED BY <1>1, RegistryInit, RegistryStep, PTL DEF BoardSpec, ExclusiveCalls, Registry!Spec

(* Nobody is in two open calls, read on the board's own keys.               *)
THEOREM BoardExclusive == BoardSpec => []Registry!Exclusive
<1>1. IInv => Registry!Exclusive
  <2> SUFFICES ASSUME IInv, NEW c \in CallID, NEW d \in CallID, c # d,
                      PhaseOf(c) \in {"ringing", "accepted"}, PhaseOf(d) \in {"ringing", "accepted"}
               PROVE  WhoOf(c) \cap WhoOf(d) = {}
    BY DEF Registry!Exclusive, Registry!Open, PhaseOf, WhoOf
  <2>1. c \in DOMAIN hash /\ d \in DOMAIN hash
    BY DEF PhaseOf
  <2> QED BY <2>1, DisjointCalls DEF IInv, WhoOf, Parties
<1>2. BoardSpec => []IInv
  BY InitInv, NextInv, PTL DEF BoardSpec
<1> QED BY <1>1, <1>2, PTL
-----------------------------------------------------------------------------
(***************************************************************************)
(* The service on top of the board.                                        *)
(***************************************************************************)

Busy == {"ring", "tell", "sign", "accepted", "answered", "abort", "aborted"}

Requests ==
  {Idle} \cup [pc : Busy, op : Op \cup {"invite"}, conn : Conn, call : CallID, late : BOOLEAN]
Stories ==
  [caller : User, callee : User, replied : BOOLEAN,
   steps : Seq([op : Op \cup {"expired"}, by : Conn \cup {"none"}])]

On(h, c) == request[h].pc # "idle" /\ request[h].call = c

ServiceOK ==
  /\ used \subseteq CallID
  /\ request \in [Handler -> Requests]
  /\ \A h \in Handler : request[h].pc # "idle" => request[h].call \in used
  /\ sweep \in [Sweeper -> [due : SUBSET used, ended : SUBSET used]]
  /\ heard \in [Conn -> Seq(Event)]
  /\ \A n \in Conn : \A i \in DOMAIN heard[n] : heard[n][i].call \in used
  /\ story \in [used -> Stories]
  /\ cut \subseteq used

\* The history of a call without its order.
Did(c, op, by) == \E i \in DOMAIN story[c].steps : story[c].steps[i] = [op |-> op, by |-> by]

LEMMA BusyRequest ==
  ASSUME ServiceOK, NEW h \in Handler, request[h].pc # "idle"
  PROVE  /\ request[h] \in [pc : Busy, op : Op \cup {"invite"}, conn : Conn, call : CallID,
                            late : BOOLEAN]
         /\ request[h].call \in used
         /\ request[h].conn \in Conn
         /\ OwnerOf[request[h].conn] \in User
         /\ request[h].call \in DOMAIN story
BY ConnAssumption DEF ServiceOK, Requests, Idle

LEMMA AppendedSeq ==
  ASSUME NEW S, NEW s \in Seq(S), NEW e \in S
  PROVE  /\ Append(s, e) \in Seq(S)
         /\ DOMAIN Append(s, e) = 1 .. Len(s) + 1
         /\ DOMAIN s = 1 .. Len(s) /\ Len(s) \in Nat
         /\ \A i \in DOMAIN s : Append(s, e)[i] = s[i] /\ i \in DOMAIN Append(s, e)
         /\ Append(s, e)[Len(s) + 1] = e
         /\ \A i \in DOMAIN Append(s, e) : i \in DOMAIN s \/ i = Len(s) + 1
OBVIOUS

\* A step of a call's history adds itself and touches no other call.
LEMMA Noted ==
  ASSUME ServiceOK, NEW c \in used, NEW op \in Op \cup {"expired"}, NEW n \in Conn \cup {"none"},
         Note(c, op, n)
  PROVE  /\ story' \in [used -> Stories]
         /\ \A d \in used : /\ story'[d].caller = story[d].caller
                            /\ story'[d].callee = story[d].callee
                            /\ story'[d].replied = story[d].replied
         /\ \A d \in used : \A o, b : Did(d, o, b)' <=> Did(d, o, b) \/ (d = c /\ o = op /\ b = n)
<1> DEFINE e == [op |-> op, by |-> n]
           E == [op : Op \cup {"expired"}, by : Conn \cup {"none"}]
<1>1. e \in E /\ story \in [used -> Stories] /\ story[c].steps \in Seq(E)
  BY DEF ServiceOK, Stories
<1>2. story' = [story EXCEPT ![c].steps = Append(story[c].steps, e)]
  BY DEF Note
<1>3. Append(story[c].steps, e) \in Seq(E)
  BY <1>1, AppendedSeq
<1>4. story' \in [used -> Stories]
  BY <1>1, <1>2, <1>3 DEF Stories
<1>5. \A d \in used : /\ story'[d].caller = story[d].caller
                      /\ story'[d].callee = story[d].callee
                      /\ story'[d].replied = story[d].replied
                      /\ d # c => story'[d] = story[d]
  BY <1>1, <1>2 DEF Stories
<1>6. story'[c].steps = Append(story[c].steps, e)
  BY <1>1, <1>2 DEF Stories
<1>7. ASSUME NEW o, NEW b PROVE Did(c, o, b)' <=> Did(c, o, b) \/ (o = op /\ b = n)
  <2> DEFINE s == story[c].steps
  <2>1. s \in Seq(E) /\ e \in E
    BY <1>1
  <2> HIDE DEF s, E
  <2>2. \A i \in DOMAIN Append(s, e) : Append(s, e)[i] = [op |-> o, by |-> b]
            => (\E j \in DOMAIN s : s[j] = [op |-> o, by |-> b]) \/ (o = op /\ b = n)
    BY <2>1, AppendedSeq
  <2>3. (\E j \in DOMAIN s : s[j] = [op |-> o, by |-> b]) \/ (o = op /\ b = n)
           => \E i \in DOMAIN Append(s, e) : Append(s, e)[i] = [op |-> o, by |-> b]
    <3>1. Len(s) + 1 \in DOMAIN Append(s, e) /\ Append(s, e)[Len(s) + 1] = e
      BY <2>1, AppendedSeq
    <3> QED
      BY <2>1, <3>1, AppendedSeq
  <2> QED
    BY <2>2, <2>3, <1>6 DEF Did, s
<1> QED
  BY <1>4, <1>5, <1>7 DEF Did

LEMMA SameStory ==
  ASSUME ServiceOK, NEW d \in used, story'[d].steps = story[d].steps
  PROVE  \A o, b : Did(d, o, b)' <=> Did(d, o, b)
BY DEF Did

\* A publication reaches the named users' connections but one, or cuts the call.
LEMMA Announced ==
  ASSUME ServiceOK, NEW users, NEW except, NEW op \in Op \cup {"ring", "answered"},
         NEW c \in used, Announce(users, except, op, c)
  PROVE  /\ heard' \in [Conn -> Seq(Event)]
         /\ \A n \in Conn : \A i \in DOMAIN heard'[n] : heard'[n][i].call \in used
         /\ cut' \subseteq used
         /\ \A d \in used : d # c => (d \in cut' <=> d \in cut)
         /\ cut \subseteq cut'
         /\ \A n \in Conn : \A d, o : d # c \/ o # op => (Heard(n, o, d)' <=> Heard(n, o, d))
         /\ \A n \in Conn : \A d, o : Heard(n, o, d) => Heard(n, o, d)'
         /\ \A n \in Conn : OwnerOf[n] \in users /\ n # except /\ c \notin cut' => Heard(n, op, c)'
         /\ \A n \in Conn : Heard(n, op, c)' => Heard(n, op, c) \/ (OwnerOf[n] \in users /\ n # except)
<1> DEFINE e == [op |-> op, call |-> c]
<1>1. e \in Event /\ heard \in [Conn -> Seq(Event)] /\ c \in used
  BY DEF ServiceOK, Event
<1>2. CASE heard' = heard /\ Cut({c})
  BY <1>2 DEF Cut, ServiceOK, Heard
<1>3. CASE Publish(users, except, op, c) /\ UNCHANGED cut
  <2>1. heard' = [n \in Conn |-> IF OwnerOf[n] \in users /\ n # except THEN Append(heard[n], e)
                                 ELSE heard[n]]
    BY <1>3 DEF Publish
  <2>2. \A n \in Conn : heard[n] \in Seq(Event)
    BY <1>1
  <2> HIDE DEF e
  <2>3. \A n \in Conn : /\ Append(heard[n], e) \in Seq(Event)
                        /\ ToSet(Append(heard[n], e)) = ToSet(heard[n]) \cup {e}
    <3> TAKE n \in Conn
    <3> DEFINE s == heard[n]
    <3>1. s \in Seq(Event) /\ e \in Event
      BY <1>1, <2>2
    <3> HIDE DEF s
    <3>2. Len(s) + 1 \in DOMAIN Append(s, e)
      BY <3>1, AppendedSeq
    <3>3. ToSet(Append(s, e)) \subseteq ToSet(s) \cup {e}
      BY <3>1, AppendedSeq DEF ToSet
    <3>4. ToSet(s) \cup {e} \subseteq ToSet(Append(s, e))
      BY <3>1, <3>2, AppendedSeq DEF ToSet
    <3> QED
      BY <3>1, <3>3, <3>4, AppendedSeq DEF s
  <2>4. heard' \in [Conn -> Seq(Event)]
    BY <1>1, <2>1, <2>3
  <2>5. \A n \in Conn : ToSet(heard'[n]) = IF OwnerOf[n] \in users /\ n # except
                                           THEN ToSet(heard[n]) \cup {e} ELSE ToSet(heard[n])
    BY <2>1, <2>3
  <2>6. \A n \in Conn : \A d, o :
          Heard(n, o, d)' <=> \/ Heard(n, o, d)
                              \/ d = c /\ o = op /\ OwnerOf[n] \in users /\ n # except
    <3>1. \A d, o : [op |-> o, call |-> d] = e <=> d = c /\ o = op
      BY DEF e
    <3>2. \A n \in Conn : \A d, o : Heard(n, o, d)' <=> [op |-> o, call |-> d] \in ToSet(heard'[n])
      BY DEF Heard
    <3>3. \A n \in Conn : \A d, o : Heard(n, o, d) <=> [op |-> o, call |-> d] \in ToSet(heard[n])
      BY DEF Heard
    <3> TAKE n \in Conn
    <3> TAKE d, o
    <3>4. CASE OwnerOf[n] \in users /\ n # except
      <4>1. ToSet(heard'[n]) = ToSet(heard[n]) \cup {e}
        BY <2>5, <3>4
      <4> QED BY <4>1, <3>1, <3>2, <3>3, <3>4
    <3>5. CASE ~(OwnerOf[n] \in users /\ n # except)
      <4>1. ToSet(heard'[n]) = ToSet(heard[n])
        BY <2>5, <3>5
      <4> QED BY <4>1, <3>2, <3>3, <3>5
    <3> QED BY <3>4, <3>5
  <2>7. \A n \in Conn : \A x \in ToSet(heard'[n]) : x.call \in used
    BY <2>5, <1>1 DEF ServiceOK, ToSet, e
  <2>8. \A n \in Conn : \A i \in DOMAIN heard'[n] : heard'[n][i].call \in used
    BY <2>7 DEF ToSet
  <2> QED
    BY <1>3, <2>4, <2>6, <2>8 DEF ServiceOK
<1> QED
  BY <1>2, <1>3 DEF Announce
-----------------------------------------------------------------------------
(* The invariant, call by call.                                            *)
EndOp == {"cancel", "reject", "hangup", "timeout"}
Unanswered == {"cancel", "reject", "timeout"}
Party(c) == {story[c].caller, story[c].callee}

\* The keys of a live call name the people of its story, and its state says
\* what has happened; a call never is both answered and not answered.
Fate(c) ==
  /\ c \in DOMAIN hash =>
       /\ hash[c].caller = story[c].caller
       /\ hash[c].callee = story[c].callee
       /\ \A op \in Op : \A by : Did(c, op, by) => hash[c].state = "accepted" /\ op = "accept"
  /\ \A op \in Unanswered : \A b1, b2 : ~(Did(c, "accept", b1) /\ Did(c, op, b2))

\* Until the invitation publishes the ring nobody has heard of the call, and it
\* is not overdue: the deadline of the request comes first.
Unrung(c) ==
  \A h \in Handler : (request[h].pc = "ring" /\ request[h].call = c) =>
    /\ ~story[c].replied
    /\ \A n \in Conn : \A op : ~Heard(n, op, c)
    /\ \A g \in Handler : On(g, c) => g = h
    /\ \A s \in Sweeper : c \notin sweep[s].due /\ c \notin sweep[s].ended
    /\ c \in DOMAIN ringing => ringing[c] + (IF request[h].late THEN 1 ELSE 0) >= RingWait

\* What a request or a sweeper is about to say has happened, and so has what
\* a connection heard.
Truthful(c) ==
  /\ \A h \in Handler : On(h, c) =>
       /\ request[h].pc = "tell" =>
            /\ request[h].op \in {"cancel", "reject", "hangup"}
            /\ OwnerOf[request[h].conn] \in Party(c)
            /\ Did(c, request[h].op, request[h].conn)
       /\ request[h].pc \in {"sign", "accepted", "answered", "abort", "aborted"} =>
            Did(c, "accept", request[h].conn)
  /\ \A s \in Sweeper : c \in sweep[s].ended => Did(c, "timeout", "none")
  /\ \A n \in Conn :
       /\ \A op \in {"accept", "answered"} : Heard(n, op, c) => \E by : Did(c, "accept", by)
       /\ \A op \in Unanswered : Heard(n, op, c) => \E by : Did(c, op, by)

Must(n, c, by) == OwnerOf[n] \in Party(c) /\ (by # "none" => OwnerOf[n] # OwnerOf[by])

WillTellEnd(c, op, by) ==
  \/ \E h \in Handler : On(h, c) /\ request[h].pc = "tell" /\ op = request[h].op /\ by = request[h].conn
  \/ \E h \in Handler : On(h, c) /\ request[h].pc = "aborted" /\ op = "hangup" /\ by = "none"
  \/ \E s \in Sweeper : c \in sweep[s].ended /\ op = "timeout"

\* An end was told to all who must hear it, or somebody is about to tell it.
EndCovered(c) ==
  c \notin cut => \A op \in EndOp : \A by : Did(c, op, by) =>
    \/ \A n \in Conn : Must(n, c, by) => Heard(n, op, c)
    \/ WillTellEnd(c, op, by)

CallerTold(c) ==
  \A n \in Conn : OwnerOf[n] = story[c].caller => Heard(n, "accept", c) \/ Heard(n, "hangup", c)
CalleeTold(c, by) ==
  \A n \in Conn : (OwnerOf[n] = story[c].callee /\ n # by)
                    => Heard(n, "answered", c) \/ Heard(n, "hangup", c)

WillTellAnswer(c, by) ==
  \E h \in Handler :
    /\ On(h, c)
    /\ request[h].conn = by
    /\ \/ request[h].pc \in {"sign", "accepted", "abort", "aborted"}
       \/ request[h].pc = "answered" /\ CallerTold(c)

AnswerCovered(c) ==
  c \notin cut => \A by : Did(c, "accept", by) =>
    (CallerTold(c) /\ CalleeTold(c, by)) \/ WillTellAnswer(c, by)

CallInv(c) == Fate(c) /\ Unrung(c) /\ Truthful(c) /\ EndCovered(c) /\ AnswerCovered(c)

ServiceInv == ServiceOK /\ (\A c \in used : CallInv(c)) /\ RingFirst
SInv == IInv /\ ServiceInv
-----------------------------------------------------------------------------
(* What it means that a step leaves a call alone.                          *)
SameHash(d) ==
  d \in DOMAIN hash' =>
    /\ d \in DOMAIN hash
    /\ hash'[d].caller = hash[d].caller
    /\ hash'[d].callee = hash[d].callee
    /\ hash'[d].state = hash[d].state
SameDeadline(d) ==
  d \in DOMAIN ringing' => d \in DOMAIN ringing /\ ringing'[d] = ringing[d]
SameKeys(d) == SameHash(d) /\ SameDeadline(d)
SamePeople(d) ==
  /\ story'[d].caller = story[d].caller
  /\ story'[d].callee = story[d].callee
SamePast(d) == \A op \in Op : \A by : Did(d, op, by)' <=> Did(d, op, by)
SameHeard(d) == \A n \in Conn : \A op : Heard(n, op, d)' <=> Heard(n, op, d)
SameRequests(d) == \A h \in Handler : On(h, d) \/ On(h, d)' => request'[h] = request[h]
AlikeRequests(d) ==
  \A h \in Handler : On(h, d) \/ On(h, d)' =>
    /\ On(h, d) /\ On(h, d)'
    /\ request'[h].pc = request[h].pc
    /\ request'[h].op = request[h].op
    /\ request'[h].conn = request[h].conn
SameDue(d) == \A s \in Sweeper : d \in sweep'[s].due => d \in sweep[s].due
\* A sweeper forgets what it has to tell only together with cutting the call.
SameEnded(d) ==
  \A s \in Sweeper :
    /\ d \in sweep'[s].ended => d \in sweep[s].ended
    /\ d \in sweep[s].ended => d \in sweep'[s].ended \/ d \in cut'
SameSweeps(d) == SameDue(d) /\ SameEnded(d)

Untouched(d) ==
  /\ SameKeys(d) /\ SamePeople(d) /\ story'[d].replied = story[d].replied
  /\ SamePast(d) /\ SameHeard(d) /\ SameRequests(d) /\ SameSweeps(d)
  /\ cut \subseteq cut'

LEMMA SameFate ==
  ASSUME NEW d, Fate(d), SameHash(d), SamePeople(d), SamePast(d)
  PROVE  Fate(d)'
BY DEF Fate, SameHash, SamePeople, SamePast, Unanswered, Op

LEMMA SameUnrung ==
  ASSUME NEW d, Unrung(d), SameDeadline(d), story'[d].replied = story[d].replied,
         SameHeard(d), SameRequests(d), SameSweeps(d)
  PROVE  Unrung(d)'
BY DEF Unrung, SameDeadline, SameHeard, SameRequests, SameSweeps, SameDue, SameEnded, On

LEMMA SameTruthful ==
  ASSUME NEW d, Truthful(d), SamePeople(d), SamePast(d), SameHeard(d), AlikeRequests(d), SameEnded(d)
  PROVE  Truthful(d)'
BY DEF Truthful, SamePeople, SamePast, SameHeard, AlikeRequests, SameEnded, On, Party, Unanswered, Op

LEMMA SameEndCovered ==
  ASSUME NEW d, EndCovered(d), SamePeople(d), SamePast(d), SameHeard(d), AlikeRequests(d),
         SameEnded(d), cut \subseteq cut'
  PROVE  EndCovered(d)'
BY DEF EndCovered, WillTellEnd, Must, Party, EndOp, Op, SamePeople, SamePast, SameHeard,
       AlikeRequests, SameEnded, On

LEMMA SameAnswerCovered ==
  ASSUME NEW d, AnswerCovered(d), SamePeople(d), SamePast(d), SameHeard(d), AlikeRequests(d),
         cut \subseteq cut'
  PROVE  AnswerCovered(d)'
BY DEF AnswerCovered, WillTellAnswer, CallerTold, CalleeTold, Op, SamePeople, SamePast, SameHeard,
       AlikeRequests, On

LEMMA SameAlike ==
  ASSUME NEW d, SameRequests(d)
  PROVE  AlikeRequests(d)
BY DEF SameRequests, AlikeRequests, On

LEMMA SameCall ==
  ASSUME NEW d, CallInv(d), Untouched(d)
  PROVE  CallInv(d)'
BY SameFate, SameUnrung, SameTruthful, SameEndCovered, SameAnswerCovered, SameAlike
   DEF CallInv, Untouched, SameKeys, SameSweeps
-----------------------------------------------------------------------------
(* What the board does under the service.                                  *)
LEMMA AnyCaller ==
  ASSUME NEW u, NEW c, RunScript("timeout", "none", c)
  PROVE  RunScript("timeout", u, c)
<1>1. Permitted("timeout", "none", c) /\ Permitted("timeout", u, c)
  BY DEF Permitted
<1>2. Reply("timeout", "none", c) = Reply("timeout", u, c)
  BY <1>1 DEF Reply
<1> QED BY <1>2 DEF RunScript

LEMMA ServiceBoardStep ==
  ASSUME ServiceOK, [SignalNext]_signalVars
  PROVE  [BoardNext]_board
<1>1. ASSUME NEW n \in Conn, NEW v \in User, NEW c \in CallID, Invite(OwnerOf[n], v, c)
      PROVE  BoardNext
  BY <1>1, ConnAssumption DEF BoardNext
<1>2. ASSUME NEW n \in Conn, NEW op \in Op, NEW c \in CallID, RunScript(op, OwnerOf[n], c)
      PROVE  BoardNext
  BY <1>2, ConnAssumption DEF BoardNext
<1>3. ASSUME NEW s \in Sweeper, NEW c \in sweep[s].due, RunScript("timeout", "none", c)
      PROVE  BoardNext
  <2>1. c \in used /\ c \in CallID /\ story[c].caller \in User /\ "timeout" \in Op
    BY DEF ServiceOK, Stories, Op
  <2> QED BY <1>3, <2>1, AnyCaller DEF BoardNext
<1>4. ASSUME NEW h \in Handler, AbortHangup(h)
      PROVE  [BoardNext]_board
  <2>1. request[h].pc # "idle"
    BY <1>4 DEF AbortHangup
  <2>2. request[h].conn \in Conn /\ request[h].call \in CallID /\ "hangup" \in Op
    BY <2>1, BusyRequest DEF ServiceOK, Op
  <2>3. RunScript("hangup", OwnerOf[request[h].conn], request[h].call) \/ UNCHANGED board
    BY <1>4 DEF AbortHangup
  <2> QED BY <2>2, <2>3, <1>2
<1>5. CASE UNCHANGED signalVars
  BY <1>5 DEF signalVars
<1>6. ASSUME NEW h \in Handler, NEW n \in Conn, NEW v \in User, NEW c \in CallID,
             StartInvite(h, n, v, c)
      PROVE  BoardNext
  BY <1>6, <1>1 DEF StartInvite
<1>7. ASSUME NEW n \in Conn, NEW op \in Op, NEW c \in CallID,
             (\E h \in Handler : StartScript(h, n, op, c)) \/ RefusedScript(n, op, c)
      PROVE  BoardNext
  BY <1>7, <1>2 DEF StartScript, RefusedScript
<1>8. ASSUME NEW s \in Sweeper, NEW c \in CallID, EndOverdue(s, c)
      PROVE  BoardNext
  BY <1>8, <1>3 DEF EndOverdue
<1>9. ASSUME NEW s \in Sweeper, SweepError(s)
      PROVE  [BoardNext]_board
  BY <1>9, <1>3 DEF SweepError
<1>10. ASSUME NEW h \in Handler,
              \/ Ring(h) \/ TellPeer(h) \/ Sign(h) \/ TellAccept(h) \/ TellAnswered(h)
              \/ TellAbort(h) \/ CrashRequest(h)
       PROVE  UNCHANGED board
  BY <1>10 DEF Ring, TellPeer, Sign, TellAccept, TellAnswered, TellAbort, CrashRequest
<1>11. ASSUME NEW s \in Sweeper,
              ListOverdue(s) \/ CrashSweeper(s) \/ (\E c \in CallID : TellTimeout(s, c))
       PROVE  UNCHANGED board
  BY <1>11 DEF ListOverdue, CrashSweeper, TellTimeout
<1>12. ASSUME Clock
       PROVE  BoardNext
  BY <1>12 DEF Clock, BoardNext
<1>13. CASE SignalNext
  <2> DEFINE B == [BoardNext]_board
  <2>1. (BoardNext => B) /\ (UNCHANGED board => B)
    OBVIOUS
  <2> HIDE DEF B
  <2>2. /\ \A h \in Handler : AbortHangup(h) => B
        /\ \A s \in Sweeper : SweepError(s) => B
    BY <1>4, <1>9 DEF B
  <2> QED
    <3>1. B
      BY <1>13, <2>1, <2>2, <1>6, <1>7, <1>8, <1>10, <1>11, <1>12 DEF SignalNext
    <3> QED BY <3>1 DEF B
<1> QED BY <1>5, <1>13

\* What a script does to the keys, as far as the stories go.
LEMMA ScriptKeys ==
  ASSUME IInv, NEW op \in Op, NEW u, NEW c, RunScript(op, u, c)
  PROVE  /\ used' = used
         /\ \A d : d # c => SameKeys(d)
         /\ c \in DOMAIN ringing' => c \in DOMAIN ringing /\ ringing'[c] = ringing[c]
         /\ Reply(op, u, c) = "ok" =>
              /\ c \in DOMAIN hash /\ Permitted(op, u, c) /\ hash[c].state \in Wanted(op)
              /\ op # "accept" => c \notin DOMAIN hash'
              /\ op = "accept" => /\ hash'[c].caller = hash[c].caller
                                  /\ hash'[c].callee = hash[c].callee
                                  /\ hash'[c].state = "accepted"
         /\ Reply(op, u, c) # "ok" => SameKeys(c)
<1>u. used' = used
  BY DEF RunScript
<1>k. Reply(op, u, c) = "ok" =>
        c \in DOMAIN hash /\ Permitted(op, u, c) /\ hash[c].state \in Wanted(op)
  BY DEF Reply
<1>1. CASE Reply(op, u, c) = "ok" /\ op = "accept" /\ Answer(c)
  <2>1. /\ c \in DOMAIN hash /\ hash = [d \in DOMAIN hash |-> hash[d]] /\ hash[c] \in Hash
        /\ hash' = [hash EXCEPT ![c] = [@ EXCEPT !.state = "accepted", !.ttl = AcceptedTTL]]
    BY <1>1, <1>k DEF Answer, IInv, TypeOK
  <2>2. hash'[c] = [hash[c] EXCEPT !.state = "accepted", !.ttl = AcceptedTTL]
    BY <2>1
  <2>3. \A d \in DOMAIN ringing' : d \in DOMAIN ringing /\ ringing'[d] = ringing[d]
    BY <1>1 DEF Answer, Drop, Restrict
  <2>4. \A d : d # c /\ d \in DOMAIN hash' => d \in DOMAIN hash /\ hash'[d] = hash[d]
    BY <2>1
  <2>5. /\ hash'[c].caller = hash[c].caller /\ hash'[c].callee = hash[c].callee
        /\ hash'[c].state = "accepted"
    BY <2>1, <2>2 DEF Hash
  <2> QED BY <1>1, <1>u, <1>k, <2>3, <2>4, <2>5 DEF SameKeys, SameHash, SameDeadline
<1>2. CASE Reply(op, u, c) = "ok" /\ op # "accept" /\ Finish(op, c)
  <2>1. c \notin DOMAIN hash' /\ \A d \in DOMAIN hash' : d \in DOMAIN hash /\ hash'[d] = hash[d]
    BY <1>2 DEF Finish, Drop, Restrict
  <2>2. \A d \in DOMAIN ringing' : d \in DOMAIN ringing /\ ringing'[d] = ringing[d]
    BY <1>2 DEF Finish, Drop, Restrict
  <2> QED BY <1>2, <1>u, <1>k, <2>1, <2>2 DEF SameKeys, SameHash, SameDeadline
<1>3. CASE Reply(op, u, c) # "ok" /\ Unindex(c)
  <2>1. hash' = hash /\ \A d \in DOMAIN ringing' : d \in DOMAIN ringing /\ ringing'[d] = ringing[d]
    BY <1>3 DEF Unindex, Drop, Restrict
  <2> QED BY <1>3, <1>u, <2>1 DEF SameKeys, SameHash, SameDeadline
<1>4. CASE Reply(op, u, c) # "ok" /\ UNCHANGED <<hash, busy, ringing>>
  BY <1>4, <1>u DEF SameKeys, SameHash, SameDeadline
<1> QED BY <1>1, <1>2, <1>3, <1>4 DEF RunScript
-----------------------------------------------------------------------------
(* Steps of requests that publish.                                         *)
LEMMA UnchangedBoard ==
  UNCHANGED board => used' = used /\ \A d : SameKeys(d)
BY DEF board, SameKeys, SameHash, SameDeadline

LEMMA UnchangedSweep ==
  UNCHANGED sweep => \A d : SameSweeps(d)
BY DEF SameSweeps, SameDue, SameEnded

LEMMA UnchangedStory ==
  UNCHANGED story => \A d : SamePeople(d) /\ SamePast(d) /\ story'[d].replied = story[d].replied
BY DEF SamePeople, SamePast, Did

LEMMA UnchangedHeard ==
  UNCHANGED heard => (\A d : SameHeard(d)) /\ (RingFirst => RingFirst')
BY DEF SameHeard, Heard, RingFirst

\* The only call whose requests a step of a handler touches.
LEMMA MovedRequest ==
  ASSUME ServiceOK, NEW h \in Handler, NEW r \in Requests, NEW c,
         request[h].pc = "idle" \/ request[h].call = c,
         r.pc = "idle" \/ r.call = c,
         request' = [request EXCEPT ![h] = r]
  PROVE  /\ request' \in [Handler -> Requests]
         /\ request'[h] = r
         /\ \A g \in Handler : g # h => request'[g] = request[g]
         /\ \A d : d # c => SameRequests(d)
BY DEF ServiceOK, SameRequests, On

LEMMA DoneRequest ==
  ASSUME ServiceOK, NEW h \in Handler, NEW c, request[h].pc # "idle", request[h].call = c, Done(h)
  PROVE  /\ request' \in [Handler -> Requests]
         /\ request'[h].pc = "idle"
         /\ \A g \in Handler : g # h => request'[g] = request[g]
         /\ \A d : d # c => SameRequests(d)
<1>1. Idle \in Requests /\ Idle.pc = "idle"
  BY DEF Requests, Idle
<1> QED BY <1>1, MovedRequest DEF Done

LEMMA GoneOn ==
  ASSUME ServiceOK, NEW h \in Handler, NEW c, NEW pc \in Busy,
         request[h].pc # "idle", request[h].call = c, Go(h, pc)
  PROVE  /\ request' \in [Handler -> Requests]
         /\ request'[h].pc = pc
         /\ request'[h].op = request[h].op
         /\ request'[h].conn = request[h].conn
         /\ request'[h].call = c
         /\ \A g \in Handler : g # h => request'[g] = request[g]
         /\ \A d : d # c => SameRequests(d)
<1> DEFINE r == [request[h] EXCEPT !.pc = pc]
<1>1. /\ r \in Requests /\ r.pc = pc /\ r.call = request[h].call
      /\ r.op = request[h].op /\ r.conn = request[h].conn
  BY BusyRequest DEF Requests
<1>2. request' = [request EXCEPT ![h] = r]
  BY DEF Go
<1> HIDE DEF r
<1> QED BY <1>1, <1>2, MovedRequest

\* An appended event is no ring, or the first its receivers hear of the call.
LEMMA RingStaysFirst ==
  ASSUME ServiceOK, RingFirst, NEW users, NEW except, NEW op \in Op \cup {"ring", "answered"},
         NEW c \in used, Announce(users, except, op, c),
         op = "ring" => \A n \in Conn : \A o : ~Heard(n, o, c)
  PROVE  RingFirst'
<1>1. CASE heard' = heard
  BY <1>1 DEF RingFirst
<1>2. CASE Publish(users, except, op, c)
  <2> SUFFICES ASSUME NEW n \in Conn, NEW i \in DOMAIN heard'[n], NEW j \in DOMAIN heard'[n],
                      heard'[n][i].call = heard'[n][j].call, heard'[n][j].op = "ring"
               PROVE  i >= j
    BY DEF RingFirst
  <2> DEFINE s == heard[n]
             e == [op |-> op, call |-> c]
  <2>1. s \in Seq(Event) /\ e \in Event
    BY DEF ServiceOK, Event
  <2>2. heard'[n] = s \/ heard'[n] = Append(s, e)
    BY <1>2 DEF Publish
  <2>3. \A k, l \in DOMAIN s : s[k].call = s[l].call /\ s[l].op = "ring" => k >= l
    BY DEF RingFirst
  <2>4. op = "ring" => \A k \in DOMAIN s : s[k].call # c
    <3> SUFFICES ASSUME op = "ring", NEW k \in DOMAIN s, s[k].call = c PROVE FALSE
      OBVIOUS
    <3>1. s[k] \in Event
      BY <2>1
    <3>2. s[k] = [op |-> s[k].op, call |-> c]
      BY <3>1 DEF Event
    <3>3. Heard(n, s[k].op, c)
      BY <3>2 DEF Heard, ToSet
    <3> QED BY <3>3
  <2>5. e.op = op /\ e.call = c
    OBVIOUS
  <2> HIDE DEF s, e
  <2>6. CASE heard'[n] = s
    BY <2>3, <2>6
  <2>7. CASE heard'[n] = Append(s, e)
    <3>1. /\ DOMAIN s = 1 .. Len(s) /\ Len(s) \in Nat
          /\ \A k \in DOMAIN s : Append(s, e)[k] = s[k]
          /\ Append(s, e)[Len(s) + 1] = e
          /\ i \in DOMAIN s \/ i = Len(s) + 1
          /\ j \in DOMAIN s \/ j = Len(s) + 1
      BY <2>1, <2>7, AppendedSeq
    <3>2. CASE i = Len(s) + 1
      BY <3>1, <3>2
    <3>3. CASE i \in DOMAIN s /\ j \in DOMAIN s
      BY <2>3, <2>7, <3>1, <3>3
    <3>4. CASE i \in DOMAIN s /\ j = Len(s) + 1
      BY <2>4, <2>5, <2>7, <3>1, <3>4
    <3> QED BY <3>1, <3>2, <3>3, <3>4
  <2> QED BY <2>2, <2>6, <2>7
<1> QED BY <1>1, <1>2 DEF Announce

LEMMA ServiceKept ==
  ASSUME ServiceOK, used' = used, request' \in [Handler -> Requests],
         \A g \in Handler : request'[g].pc # "idle" => request'[g].call \in used,
         sweep' \in [Sweeper -> [due : SUBSET used, ended : SUBSET used]],
         heard' \in [Conn -> Seq(Event)],
         \A n \in Conn : \A i \in DOMAIN heard'[n] : heard'[n][i].call \in used,
         story' \in [used -> Stories],
         cut' \subseteq used
  PROVE  ServiceOK'
BY DEF ServiceOK

\* What a publication about c leaves alone.
LEMMA AnnouncedElsewhere ==
  ASSUME ServiceOK, NEW users, NEW except, NEW op \in Op \cup {"ring", "answered"},
         NEW c \in used, Announce(users, except, op, c)
  PROVE  cut \subseteq cut' /\ \A d : d # c => SameHeard(d)
<1>1. cut \subseteq cut'
  BY Announced
<1>2. \A n \in Conn : \A d, o : d # c \/ o # op => (Heard(n, o, d)' <=> Heard(n, o, d))
  BY Announced
<1>3. ASSUME NEW d, d # c PROVE SameHeard(d)
  BY <1>2, <1>3, Zenon DEF SameHeard
<1> QED
  BY <1>1, <1>3

LEMMA AnnouncedHere ==
  ASSUME ServiceOK, NEW users, NEW except, NEW op \in Op \cup {"ring", "answered"},
         NEW c \in used, Announce(users, except, op, c)
  PROVE  /\ heard' \in [Conn -> Seq(Event)]
         /\ \A n \in Conn : \A i \in DOMAIN heard'[n] : heard'[n][i].call \in used
         /\ cut' \subseteq used
         /\ \A n \in Conn : \A o : o # op => (Heard(n, o, c)' <=> Heard(n, o, c))
         /\ \A n \in Conn : \A o : Heard(n, o, c) => Heard(n, o, c)'
         /\ \A n \in Conn : OwnerOf[n] \in users /\ n # except /\ c \notin cut' => Heard(n, op, c)'
BY Announced

\* A call stays consistent when what is heard only grows and is true, and what
\* was about to be told still is or has been.
LEMMA TruthfulKept ==
  ASSUME NEW c, Truthful(c), SamePeople(c), SamePast(c),
         \A g \in Handler : On(g, c)' =>
           \/ On(g, c) /\ request'[g] = request[g]
           \/ /\ request'[g].pc # "tell"
              /\ request'[g].pc # "ring" => Did(c, "accept", request'[g].conn),
         \A s \in Sweeper : c \in sweep'[s].ended => c \in sweep[s].ended,
         \A n \in Conn : \A o : Heard(n, o, c)' =>
           \/ Heard(n, o, c) \/ o \in {"ring", "hangup"}
           \/ o \in Op /\ \E by : Did(c, o, by)
           \/ o = "answered" /\ \E by : Did(c, "accept", by)
  PROVE  Truthful(c)'
<1>1. ASSUME NEW g \in Handler, On(g, c)', NEW op, NEW by,
             request'[g].op = op, request'[g].conn = by
      PROVE  /\ request'[g].pc = "tell" =>
                  /\ op \in {"cancel", "reject", "hangup"}
                  /\ OwnerOf[by] \in Party(c)'
                  /\ Did(c, op, by)'
             /\ request'[g].pc \in {"sign", "accepted", "answered", "abort", "aborted"} =>
                  Did(c, "accept", by)'
  <2>0. \A o \in Op : \A e : Did(c, o, e)' <=> Did(c, o, e)
    BY DEF SamePast
  <2>1. CASE On(g, c) /\ request'[g] = request[g]
    <3>1. Party(c)' = Party(c)
      BY DEF SamePeople, Party
    <3> QED BY <1>1, <2>0, <2>1, <3>1 DEF Truthful, Op
  <2>2. CASE /\ request'[g].pc # "tell"
             /\ request'[g].pc # "ring" => Did(c, "accept", request'[g].conn)
    BY <1>1, <2>0, <2>2 DEF Op
  <2> QED BY <1>1, <2>1, <2>2
<1>2. \A s \in Sweeper : c \in sweep'[s].ended => Did(c, "timeout", "none")'
  BY DEF Truthful, SamePast, Op
<1>3. ASSUME NEW n \in Conn
      PROVE  /\ \A op \in {"accept", "answered"} : Heard(n, op, c)' => \E by : Did(c, "accept", by)'
             /\ \A op \in Unanswered : Heard(n, op, c)' => \E by : Did(c, op, by)'
  BY DEF Truthful, SamePast, Op, Unanswered
<1>4. ASSUME NEW g \in Handler, On(g, c)'
      PROVE  (/\ request[g].pc = "tell" =>
                   /\ request[g].op \in {"cancel", "reject", "hangup"}
                   /\ OwnerOf[request[g].conn] \in Party(c)
                   /\ Did(c, request[g].op, request[g].conn)
              /\ request[g].pc \in {"sign", "accepted", "answered", "abort", "aborted"} =>
                   Did(c, "accept", request[g].conn))'
  BY <1>1, <1>4 DEF Did
<1> QED BY <1>2, <1>3, <1>4 DEF Truthful

LEMMA EndKept ==
  ASSUME NEW c, EndCovered(c), SamePeople(c), SamePast(c), cut \subseteq cut',
         \A n \in Conn : \A o : Heard(n, o, c) => Heard(n, o, c)',
         \A o \in EndOp : \A b : (WillTellEnd(c, o, b) /\ c \notin cut') =>
           \/ WillTellEnd(c, o, b)'
           \/ \A n \in Conn : Must(n, c, b) => Heard(n, o, c)'
  PROVE  EndCovered(c)'
BY DEF EndCovered, Must, Party, SamePeople, SamePast, EndOp, Op

LEMMA AnswerKept ==
  ASSUME NEW c, AnswerCovered(c), SamePeople(c), SamePast(c), cut \subseteq cut',
         \A n \in Conn : \A o : Heard(n, o, c) => Heard(n, o, c)',
         \A b : (WillTellAnswer(c, b) /\ c \notin cut') =>
           WillTellAnswer(c, b)' \/ (CallerTold(c)' /\ CalleeTold(c, b)')
  PROVE  AnswerCovered(c)'
<1>1. CallerTold(c) => CallerTold(c)'
  BY DEF CallerTold, SamePeople
<1>2. \A b : CalleeTold(c, b) => CalleeTold(c, b)'
  BY DEF CalleeTold, SamePeople
<1>3. \A b : Did(c, "accept", b)' => Did(c, "accept", b)
  BY DEF SamePast, Op
<1> QED BY <1>1, <1>2, <1>3 DEF AnswerCovered

\* The request of an unrung call is its only one.
LEMMA UnrungKept ==
  ASSUME NEW c, NEW h \in Handler, Unrung(c), On(h, c),
         \A g \in Handler : g # h => request'[g] = request[g],
         request'[h].pc # "ring"
  PROVE  Unrung(c)'
<1>1. ASSUME NEW g \in Handler, request'[g].pc = "ring", request'[g].call = c
      PROVE  FALSE
  <2>1. g # h /\ request[g].pc = "ring" /\ request[g].call = c
    BY <1>1
  <2> QED BY <2>1 DEF Unrung
<1> QED BY <1>1 DEF Unrung

LEMMA RingKeeps ==
  ASSUME ServiceInv, NEW h \in Handler, Ring(h)
  PROVE  ServiceInv'
<1> PICK c : c = request[h].call
  OBVIOUS
<1>0. request[h].pc = "ring" /\ c \in used /\ CallInv(c) /\ ServiceOK
  BY BusyRequest DEF Ring, ServiceInv
<1>1. /\ Announce({story[c].callee}, "none", "ring", c) /\ Done(h)
      /\ story' = [story EXCEPT ![c].replied = TRUE]
      /\ UNCHANGED board /\ UNCHANGED sweep
  BY DEF Ring
<1>b. used' = used /\ (\A d : SameKeys(d)) /\ (\A d : SameSweeps(d))
  BY <1>1, UnchangedBoard, UnchangedSweep
<1>r. /\ request' \in [Handler -> Requests] /\ request'[h].pc = "idle"
      /\ \A g \in Handler : g # h => request'[g] = request[g]
      /\ \A d : d # c => SameRequests(d)
  BY <1>0, <1>1, DoneRequest
<1>s. /\ story' \in [used -> Stories]
      /\ \A d \in used : SamePeople(d) /\ SamePast(d)
      /\ \A d \in used : d # c => story'[d].replied = story[d].replied
  BY <1>0, <1>1 DEF ServiceOK, Stories, SamePeople, SamePast, Did
<1>h. cut \subseteq cut' /\ \A d : d # c => SameHeard(d)
  BY <1>0, <1>1, AnnouncedElsewhere
<1>a. /\ heard' \in [Conn -> Seq(Event)]
      /\ \A n \in Conn : \A i \in DOMAIN heard'[n] : heard'[n][i].call \in used
      /\ cut' \subseteq used
      /\ \A n \in Conn : \A o : o # "ring" => (Heard(n, o, c)' <=> Heard(n, o, c))
      /\ \A n \in Conn : \A o : Heard(n, o, c) => Heard(n, o, c)'
  BY <1>0, <1>1, AnnouncedHere
<1>u. /\ \A n \in Conn : \A o : ~Heard(n, o, c)
      /\ \A g \in Handler : g # h => ~On(g, c)
      /\ ~On(h, c)'
  BY <1>0, <1>r DEF CallInv, Unrung, On
<1>v. \A g \in Handler : ~On(g, c)'
  BY <1>r, <1>u DEF On
<1>2. ServiceOK'
  <2>1. \A g \in Handler : request'[g].pc # "idle" => request'[g].call \in used
    BY <1>0, <1>r DEF ServiceOK
  <2>2. sweep' \in [Sweeper -> [due : SUBSET used, ended : SUBSET used]]
    BY <1>0, <1>1 DEF ServiceOK
  <2> QED BY <1>0, <1>b, <1>r, <1>s, <1>a, <2>1, <2>2, ServiceKept
<1>3. RingFirst'
  BY <1>0, <1>1, <1>u, RingStaysFirst DEF ServiceInv
<1>4. ASSUME NEW d \in used, d # c PROVE CallInv(d)'
  BY <1>4, <1>b, <1>r, <1>s, <1>h, SameCall DEF ServiceInv, Untouched
<1>5. CallInv(c)'
  <2>1. Fate(c)'
    BY <1>0, <1>b, <1>s, SameFate DEF CallInv, SameKeys
  <2>2. Unrung(c)'
    BY <1>v DEF Unrung, On
  <2>3. Truthful(c)'
    BY <1>0, <1>v, <1>a, <1>b, <1>s, TruthfulKept DEF CallInv, SameSweeps, SameEnded
  <2>4. EndCovered(c)'
    <3>1. \A o, e : WillTellEnd(c, o, e) => WillTellEnd(c, o, e)'
      BY <1>0, <1>1, <1>u DEF WillTellEnd
    <3> QED BY <1>0, <1>a, <1>s, <1>h, <3>1, EndKept DEF CallInv
  <2>5. AnswerCovered(c)'
    <3>1. \A e : ~WillTellAnswer(c, e)
      BY <1>0, <1>u DEF WillTellAnswer
    <3> QED BY <1>0, <1>a, <1>s, <1>h, <3>1, AnswerKept DEF CallInv
  <2> QED BY <2>1, <2>2, <2>3, <2>4, <2>5 DEF CallInv
<1> QED BY <1>2, <1>3, <1>4, <1>5, <1>b DEF ServiceInv

\* A step of a request on c that changes neither the fate of a call nor a history.
LEMMA RequestStep ==
  ASSUME ServiceInv, NEW h \in Handler, NEW c, On(h, c),
         used' = used, \A d : SameKeys(d), UNCHANGED <<sweep, story>>,
         request' \in [Handler -> Requests],
         request'[h].pc \notin {"ring", "tell"},
         request'[h].pc # "idle" =>
           request'[h].call = c /\ Did(c, "accept", request'[h].conn),
         \A g \in Handler : g # h => request'[g] = request[g],
         \A d : d # c => SameRequests(d),
         heard' \in [Conn -> Seq(Event)],
         \A n \in Conn : \A i \in DOMAIN heard'[n] : heard'[n][i].call \in used,
         \A d : d # c => SameHeard(d),
         \A n \in Conn : \A o : Heard(n, o, c) => Heard(n, o, c)',
         RingFirst',
         cut' \subseteq used, cut \subseteq cut',
         \A n \in Conn : \A o : Heard(n, o, c)' =>
           \/ Heard(n, o, c) \/ o \in {"ring", "hangup"}
           \/ o \in Op /\ \E by : Did(c, o, by)
           \/ o = "answered" /\ \E by : Did(c, "accept", by),
         \A o \in EndOp : \A b : (WillTellEnd(c, o, b) /\ c \notin cut') =>
           \/ WillTellEnd(c, o, b)'
           \/ \A n \in Conn : Must(n, c, b) => Heard(n, o, c)',
         \A b : (WillTellAnswer(c, b) /\ c \notin cut') =>
           WillTellAnswer(c, b)' \/ (CallerTold(c)' /\ CalleeTold(c, b)')
  PROVE  ServiceInv'
<1>0. c \in used /\ CallInv(c) /\ ServiceOK /\ story' = story
  BY BusyRequest DEF ServiceInv, On
<1>b. used' = used /\ (\A d : SameKeys(d)) /\ (\A d : SameSweeps(d))
  BY UnchangedSweep
<1>s. \A d : SamePeople(d) /\ SamePast(d) /\ story'[d].replied = story[d].replied
  BY <1>0, UnchangedStory
<1>1. ServiceOK'
  <2>1. \A g \in Handler : request'[g].pc # "idle" => request'[g].call \in used
    BY <1>0 DEF ServiceOK
  <2>2. /\ sweep' \in [Sweeper -> [due : SUBSET used, ended : SUBSET used]]
        /\ story' \in [used -> Stories]
    BY <1>0 DEF ServiceOK
  <2> QED BY <1>0, <1>b, <2>1, <2>2, ServiceKept
<1>2. ASSUME NEW d \in used, d # c PROVE CallInv(d)'
  BY <1>2, <1>b, <1>s, SameCall DEF ServiceInv, Untouched
<1>3. CallInv(c)'
  <2>1. Fate(c)'
    BY <1>0, <1>b, <1>s, SameFate DEF CallInv, SameKeys
  <2>2. Unrung(c)'
    BY <1>0, UnrungKept DEF CallInv
  <2>3. Truthful(c)'
    <3>1. \A g \in Handler : On(g, c)' =>
            \/ On(g, c) /\ request'[g] = request[g]
            \/ /\ request'[g].pc # "tell"
               /\ request'[g].pc # "ring" => Did(c, "accept", request'[g].conn)
      BY DEF On
    <3>2. \A s \in Sweeper : c \in sweep'[s].ended => c \in sweep[s].ended
      BY <1>b DEF SameSweeps, SameEnded
    <3> QED BY <1>0, <1>s, <3>1, <3>2, TruthfulKept DEF CallInv
  <2>4. EndCovered(c)'
    BY <1>0, <1>s, EndKept DEF CallInv
  <2>5. AnswerCovered(c)'
    BY <1>0, <1>s, AnswerKept DEF CallInv
  <2> QED BY <2>1, <2>2, <2>3, <2>4, <2>5 DEF CallInv
<1> QED BY <1>1, <1>2, <1>3, <1>b DEF ServiceInv

\* Those among them that publish nothing.
LEMMA SilentRequestStep ==
  ASSUME ServiceInv, NEW h \in Handler, NEW c, On(h, c),
         used' = used, \A d : SameKeys(d), UNCHANGED <<sweep, story, heard>>,
         request' \in [Handler -> Requests],
         request'[h].pc \notin {"ring", "tell"},
         request'[h].pc # "idle" =>
           request'[h].call = c /\ Did(c, "accept", request'[h].conn),
         \A g \in Handler : g # h => request'[g] = request[g],
         \A d : d # c => SameRequests(d),
         cut' \subseteq used, cut \subseteq cut',
         \A o \in EndOp : \A b : (WillTellEnd(c, o, b) /\ c \notin cut') => WillTellEnd(c, o, b)',
         \A b : (WillTellAnswer(c, b) /\ c \notin cut') => WillTellAnswer(c, b)'
  PROVE  ServiceInv'
<1>1. /\ heard' \in [Conn -> Seq(Event)]
      /\ \A n \in Conn : \A i \in DOMAIN heard'[n] : heard'[n][i].call \in used
  BY DEF ServiceInv, ServiceOK
<1>2. (\A d : SameHeard(d)) /\ RingFirst'
  BY UnchangedHeard DEF ServiceInv
<1>3. \A n \in Conn : \A o : Heard(n, o, c)' <=> Heard(n, o, c)
  BY <1>2 DEF SameHeard
<1> QED BY <1>1, <1>2, <1>3, RequestStep

LEMMA CrashRequestKeeps ==
  ASSUME ServiceInv, NEW h \in Handler, CrashRequest(h)
  PROVE  ServiceInv'
<1> PICK c : c = request[h].call
  OBVIOUS
<1>0. request[h] # Idle /\ Cut({c}) /\ Done(h) /\ UNCHANGED <<board, sweep, heard, story>>
  BY DEF CrashRequest
<1>1. request[h].pc # "idle" /\ On(h, c) /\ ServiceOK /\ c \in used
  BY <1>0, BusyRequest DEF ServiceInv, ServiceOK, Requests, Busy, On
<1>r. /\ request' \in [Handler -> Requests] /\ request'[h].pc = "idle"
      /\ \A g \in Handler : g # h => request'[g] = request[g]
      /\ \A d : d # c => SameRequests(d)
  BY <1>0, <1>1, DoneRequest
<1>2. cut' \subseteq used /\ cut \subseteq cut' /\ c \in cut'
  BY <1>0, <1>1 DEF Cut, ServiceOK
<1> QED BY <1>0, <1>1, <1>r, <1>2, UnchangedBoard, SilentRequestStep

LEMMA SignKeeps ==
  ASSUME ServiceInv, NEW h \in Handler, Sign(h)
  PROVE  ServiceInv'
<1> PICK c : c = request[h].call
  OBVIOUS
<1> PICK pc : pc \in {"accepted", "abort"} /\ Go(h, pc)
  BY DEF Sign
<1>0. request[h].pc = "sign" /\ UNCHANGED <<board, sweep, heard, story>> /\ cut' = cut
  BY DEF Sign
<1>1. request[h].pc # "idle" /\ On(h, c) /\ ServiceOK /\ c \in used /\ CallInv(c) /\ cut \subseteq used
  BY <1>0, BusyRequest DEF ServiceInv, On, ServiceOK
<1>r. /\ request' \in [Handler -> Requests] /\ request'[h].pc = pc
      /\ request'[h].conn = request[h].conn /\ request'[h].call = c
      /\ \A g \in Handler : g # h => request'[g] = request[g]
      /\ \A d : d # c => SameRequests(d)
  <2>1. pc \in Busy
    BY DEF Busy
  <2> QED BY <1>0, <1>1, <2>1, GoneOn
<1>2. Did(c, "accept", request'[h].conn)
  BY <1>0, <1>1, <1>r DEF CallInv, Truthful
<1>3. \A o \in EndOp : \A b : WillTellEnd(c, o, b) => WillTellEnd(c, o, b)'
  BY <1>0, <1>r DEF WillTellEnd, On
<1>4. \A b : WillTellAnswer(c, b) => WillTellAnswer(c, b)'
  <2>1. CallerTold(c)' <=> CallerTold(c)
    BY <1>0 DEF CallerTold, Heard
  <2> QED BY <1>0, <1>1, <1>r, <2>1 DEF WillTellAnswer, On
<1> QED BY <1>0, <1>1, <1>r, <1>2, <1>3, <1>4, UnchangedBoard, SilentRequestStep

LEMMA TellPeerKeeps ==
  ASSUME ServiceInv, NEW h \in Handler, TellPeer(h)
  PROVE  ServiceInv'
<1> PICK c : c = request[h].call
  OBVIOUS
<1> PICK op : op = request[h].op
  OBVIOUS
<1> PICK by : by = request[h].conn
  OBVIOUS
<1>0. /\ request[h].pc = "tell" /\ Announce({Peer(OwnerOf[by], c)}, "none", op, c) /\ Done(h)
      /\ UNCHANGED <<board, sweep, story>>
  BY DEF TellPeer
<1>1. /\ c \in used /\ CallInv(c) /\ ServiceOK /\ RingFirst /\ by \in Conn /\ On(h, c)
  BY <1>0, BusyRequest DEF ServiceInv, On
<1>t. /\ op \in {"cancel", "reject", "hangup"} /\ op \in Op /\ op \in Op \cup {"ring", "answered"}
      /\ OwnerOf[by] \in Party(c) /\ Did(c, op, by)
  BY <1>0, <1>1 DEF CallInv, Truthful, Op
<1>r. /\ request' \in [Handler -> Requests] /\ request'[h].pc = "idle"
      /\ \A g \in Handler : g # h => request'[g] = request[g]
      /\ \A d : d # c => SameRequests(d)
  BY <1>0, <1>1, DoneRequest
<1>h. cut \subseteq cut' /\ \A d : d # c => SameHeard(d)
  BY <1>0, <1>1, <1>t, AnnouncedElsewhere
<1>a. /\ heard' \in [Conn -> Seq(Event)]
      /\ \A n \in Conn : \A i \in DOMAIN heard'[n] : heard'[n][i].call \in used
      /\ cut' \subseteq used
      /\ \A n \in Conn : \A o : o # op => (Heard(n, o, c)' <=> Heard(n, o, c))
      /\ \A n \in Conn : \A o : Heard(n, o, c) => Heard(n, o, c)'
      /\ \A n \in Conn : OwnerOf[n] = Peer(OwnerOf[by], c) /\ c \notin cut' => Heard(n, op, c)'
  <2>1. \A n \in Conn : n # "none"
    BY NobodyAssumption
  <2>2. PICK users : users = {Peer(OwnerOf[by], c)} /\ Announce(users, "none", op, c)
    BY <1>0
  <2>3. \A n \in Conn : OwnerOf[n] \in users /\ n # "none" /\ c \notin cut' => Heard(n, op, c)'
    <3>1. /\ ServiceOK /\ c \in used /\ op \in Op \cup {"ring", "answered"}
          /\ Announce(users, "none", op, c)
      BY <1>1, <1>t, <2>2
    <3> QED BY <3>1, AnnouncedHere, Zenon
  <2>4. \A n \in Conn : OwnerOf[n] = Peer(OwnerOf[by], c) /\ c \notin cut' => Heard(n, op, c)'
    BY <2>1, <2>2, <2>3
  <2> QED BY <1>0, <1>1, <1>t, <2>4, AnnouncedHere
<1>2. RingFirst'
  BY <1>0, <1>1, <1>t, RingStaysFirst
<1>3. \A n \in Conn : Must(n, c, by) => OwnerOf[n] = Peer(OwnerOf[by], c)
  BY <1>1, <1>t, NobodyAssumption DEF Must, Party, Peer
<1>4. ASSUME NEW o \in EndOp, NEW b, WillTellEnd(c, o, b), c \notin cut'
      PROVE  WillTellEnd(c, o, b)' \/ \A n \in Conn : Must(n, c, b) => Heard(n, o, c)'
  <2>1. CASE o = op /\ b = by
    BY <2>1, <1>3, <1>4, <1>a
  <2>2. CASE ~(o = op /\ b = by)
    BY <2>2, <1>0, <1>4, <1>r DEF WillTellEnd, On
  <2> QED BY <2>1, <2>2
<1>5. \A b : WillTellAnswer(c, b) => WillTellAnswer(c, b)'
  <2>1. CallerTold(c) => CallerTold(c)'
    BY <1>0, <1>a DEF CallerTold
  <2> QED BY <1>0, <1>r, <2>1 DEF WillTellAnswer, On
<1>6. \A n \in Conn : \A o : Heard(n, o, c)' => Heard(n, o, c) \/ (o \in Op /\ Did(c, o, by))
  BY <1>a, <1>t
<1> QED
  BY <1>0, <1>1, <1>r, <1>h, <1>a, <1>2, <1>4, <1>5, <1>6, UnchangedBoard, RequestStep

LEMMA TellAcceptKeeps ==
  ASSUME ServiceInv, NEW h \in Handler, TellAccept(h)
  PROVE  ServiceInv'
<1> PICK c : c = request[h].call
  OBVIOUS
<1>0. /\ request[h].pc = "accepted" /\ Announce({story[c].caller}, "none", "accept", c)
      /\ Go(h, "answered") /\ UNCHANGED <<board, sweep, story>>
  BY DEF TellAccept
<1>1. /\ c \in used /\ CallInv(c) /\ ServiceOK /\ RingFirst /\ On(h, c)
      /\ "accept" \in Op \cup {"ring", "answered"} /\ "accept" \in Op /\ "answered" \in Busy
  BY <1>0, BusyRequest DEF ServiceInv, On, Op, Busy
<1>t. Did(c, "accept", request[h].conn)
  BY <1>0, <1>1 DEF CallInv, Truthful
<1>r. /\ request' \in [Handler -> Requests] /\ request'[h].pc = "answered"
      /\ request'[h].conn = request[h].conn /\ request'[h].call = c
      /\ \A g \in Handler : g # h => request'[g] = request[g]
      /\ \A d : d # c => SameRequests(d)
  BY <1>0, <1>1, GoneOn
<1>h. cut \subseteq cut' /\ \A d : d # c => SameHeard(d)
  BY <1>0, <1>1, AnnouncedElsewhere
<1>a. /\ heard' \in [Conn -> Seq(Event)]
      /\ \A n \in Conn : \A i \in DOMAIN heard'[n] : heard'[n][i].call \in used
      /\ cut' \subseteq used
      /\ \A n \in Conn : \A o : o # "accept" => (Heard(n, o, c)' <=> Heard(n, o, c))
      /\ \A n \in Conn : \A o : Heard(n, o, c) => Heard(n, o, c)'
      /\ \A n \in Conn : OwnerOf[n] = story[c].caller /\ c \notin cut' => Heard(n, "accept", c)'
  <2>1. \A n \in Conn : n # "none"
    BY NobodyAssumption
  <2> QED BY <1>0, <1>1, <2>1, AnnouncedHere
<1>2. RingFirst'
  BY <1>0, <1>1, RingStaysFirst
<1>4. \A o \in EndOp : \A b : WillTellEnd(c, o, b) => WillTellEnd(c, o, b)'
  BY <1>0, <1>r DEF WillTellEnd, On
<1>5. \A b : WillTellAnswer(c, b) /\ c \notin cut' => WillTellAnswer(c, b)'
  <2>1. c \notin cut' => CallerTold(c)'
    BY <1>0, <1>a DEF CallerTold
  <2> QED BY <1>0, <1>1, <1>r, <2>1 DEF WillTellAnswer, On
<1>6. \A n \in Conn : \A o : Heard(n, o, c)' => Heard(n, o, c) \/ (o \in Op /\ \E by : Did(c, o, by))
  BY <1>a, <1>t, <1>1
<1> QED
  BY <1>0, <1>1, <1>t, <1>r, <1>h, <1>a, <1>2, <1>4, <1>5, <1>6, UnchangedBoard, RequestStep

LEMMA TellAnsweredKeeps ==
  ASSUME ServiceInv, NEW h \in Handler, TellAnswered(h)
  PROVE  ServiceInv'
<1> PICK c : c = request[h].call
  OBVIOUS
<1> PICK by : by = request[h].conn
  OBVIOUS
<1>0. /\ request[h].pc = "answered" /\ Announce({story[c].callee}, by, "answered", c)
      /\ Done(h) /\ UNCHANGED <<board, sweep, story>>
  BY DEF TellAnswered
<1>1. c \in used /\ CallInv(c) /\ ServiceOK /\ RingFirst /\ On(h, c)
  BY <1>0, BusyRequest DEF ServiceInv, On
<1>t. Did(c, "accept", by)
  BY <1>0, <1>1 DEF CallInv, Truthful
<1>r. /\ request' \in [Handler -> Requests] /\ request'[h].pc = "idle"
      /\ \A g \in Handler : g # h => request'[g] = request[g]
      /\ \A d : d # c => SameRequests(d)
  BY <1>0, <1>1, DoneRequest
<1>h. cut \subseteq cut' /\ \A d : d # c => SameHeard(d)
  BY <1>0, <1>1, AnnouncedElsewhere
<1>a. /\ heard' \in [Conn -> Seq(Event)]
      /\ \A n \in Conn : \A i \in DOMAIN heard'[n] : heard'[n][i].call \in used
      /\ cut' \subseteq used
      /\ \A n \in Conn : \A o : o # "answered" => (Heard(n, o, c)' <=> Heard(n, o, c))
      /\ \A n \in Conn : \A o : Heard(n, o, c) => Heard(n, o, c)'
      /\ \A n \in Conn : OwnerOf[n] = story[c].callee /\ n # by /\ c \notin cut' => Heard(n, "answered", c)'
  BY <1>0, <1>1, AnnouncedHere
<1>2. RingFirst'
  BY <1>0, <1>1, RingStaysFirst
<1>4. \A o \in EndOp : \A b : WillTellEnd(c, o, b) => WillTellEnd(c, o, b)'
  BY <1>0, <1>r DEF WillTellEnd, On
<1>5. \A b : WillTellAnswer(c, b) /\ c \notin cut' =>
        WillTellAnswer(c, b)' \/ (CallerTold(c)' /\ CalleeTold(c, b)')
  <2>1. CallerTold(c) => CallerTold(c)'
    BY <1>0, <1>a DEF CallerTold
  <2>2. c \notin cut' => CalleeTold(c, by)'
    BY <1>0, <1>a DEF CalleeTold
  <2> QED BY <1>0, <1>1, <1>r, <2>1, <2>2 DEF WillTellAnswer, On
<1>6. \A n \in Conn : \A o : Heard(n, o, c)' =>
        Heard(n, o, c) \/ (o = "answered" /\ \E b : Did(c, "accept", b))
  BY <1>a, <1>t
<1> QED
  BY <1>0, <1>1, <1>r, <1>h, <1>a, <1>2, <1>4, <1>5, <1>6, UnchangedBoard, RequestStep

LEMMA TellAbortKeeps ==
  ASSUME ServiceInv, NEW h \in Handler, TellAbort(h)
  PROVE  ServiceInv'
<1> PICK c : c = request[h].call
  OBVIOUS
<1>0. /\ request[h].pc = "aborted"
      /\ Announce({story[c].caller, story[c].callee}, "none", "hangup", c)
      /\ Done(h) /\ UNCHANGED <<board, sweep, story>>
  BY DEF TellAbort
<1>1. /\ c \in used /\ CallInv(c) /\ ServiceOK /\ RingFirst /\ On(h, c)
      /\ "hangup" \in Op \cup {"ring", "answered"}
  BY <1>0, BusyRequest DEF ServiceInv, On, Op
<1>r. /\ request' \in [Handler -> Requests] /\ request'[h].pc = "idle"
      /\ \A g \in Handler : g # h => request'[g] = request[g]
      /\ \A d : d # c => SameRequests(d)
  BY <1>0, <1>1, DoneRequest
<1>h. cut \subseteq cut' /\ \A d : d # c => SameHeard(d)
  BY <1>0, <1>1, AnnouncedElsewhere
<1>a. /\ heard' \in [Conn -> Seq(Event)]
      /\ \A n \in Conn : \A i \in DOMAIN heard'[n] : heard'[n][i].call \in used
      /\ cut' \subseteq used
      /\ \A n \in Conn : \A o : o # "hangup" => (Heard(n, o, c)' <=> Heard(n, o, c))
      /\ \A n \in Conn : \A o : Heard(n, o, c) => Heard(n, o, c)'
      /\ \A n \in Conn : OwnerOf[n] \in Party(c) /\ c \notin cut' => Heard(n, "hangup", c)'
  <2>1. \A n \in Conn : n # "none"
    BY NobodyAssumption
  <2>2. PICK users : users = Party(c) /\ Announce(users, "none", "hangup", c)
    BY <1>0 DEF Party
  <2>3. \A n \in Conn : OwnerOf[n] \in Party(c) /\ c \notin cut' => Heard(n, "hangup", c)'
    BY <1>1, <2>1, <2>2, AnnouncedHere
  <2> QED BY <1>0, <1>1, <2>3, AnnouncedHere
<1>2. RingFirst'
  BY <1>0, <1>1, RingStaysFirst
<1>4. \A o \in EndOp : \A b : WillTellEnd(c, o, b) /\ c \notin cut' =>
        WillTellEnd(c, o, b)' \/ \A n \in Conn : Must(n, c, b) => Heard(n, o, c)'
  <2>1. \A n \in Conn : \A b : Must(n, c, b) /\ c \notin cut' => Heard(n, "hangup", c)'
    BY <1>a DEF Must
  <2> QED BY <1>0, <1>r, <2>1 DEF WillTellEnd, On
<1>5. \A b : c \notin cut' => CallerTold(c)' /\ CalleeTold(c, b)'
  BY <1>0, <1>a DEF CallerTold, CalleeTold, Party
<1>6. \A n \in Conn : \A o : Heard(n, o, c)' => Heard(n, o, c) \/ o = "hangup"
  BY <1>a
<1> QED
  BY <1>0, <1>1, <1>r, <1>h, <1>a, <1>2, <1>4, <1>5, <1>6, UnchangedBoard, RequestStep
-----------------------------------------------------------------------------
(* Steps that add to the history of a call: a script let somebody through. *)

\* c gains one more step of its history, op by n.
Grows(c, op, n) ==
  \A o \in Op : \A b : Did(c, o, b)' <=> Did(c, o, b) \/ (o = op /\ b = n)

LEMMA FateGrown ==
  ASSUME NEW c, NEW op \in Op, NEW n, Fate(c), SamePeople(c), Grows(c, op, n),
         c \in DOMAIN hash, hash[c].state \in Wanted(op),
         op # "accept" => c \notin DOMAIN hash',
         op = "accept" => /\ hash'[c].caller = hash[c].caller
                          /\ hash'[c].callee = hash[c].callee
                          /\ hash'[c].state = "accepted"
  PROVE  Fate(c)'
<1>1. op # "hangup" => \A o \in Op : \A b : ~Did(c, o, b)
  BY DEF Fate, Wanted
<1>2. \A o \in Unanswered : \A b1, b2 : ~(Did(c, "accept", b1)' /\ Did(c, o, b2)')
  <2>1. Unanswered \subseteq Op /\ "accept" \in Op /\ "accept" \notin Unanswered
        /\ "hangup" \notin Unanswered
    BY DEF Unanswered, Op
  <2>2. CASE op = "hangup"
    BY <2>1, <2>2 DEF Grows, Fate
  <2>3. CASE op # "hangup"
    BY <1>1, <2>1, <2>3 DEF Grows
  <2> QED BY <2>2, <2>3
<1>3. ASSUME c \in DOMAIN hash'
      PROVE  /\ hash'[c].caller = story'[c].caller
             /\ hash'[c].callee = story'[c].callee
             /\ \A o \in Op : \A b : Did(c, o, b)' => hash'[c].state = "accepted" /\ o = "accept"
  <2>1. op = "accept"
    BY <1>3
  <2>2. \A o \in Op : \A b : Did(c, o, b)' => o = "accept"
    BY <1>1, <2>1 DEF Grows
  <2>3. hash[c].caller = story[c].caller /\ hash[c].callee = story[c].callee
    BY DEF Fate
  <2> QED BY <2>1, <2>2, <2>3 DEF SamePeople
<1> QED BY <1>2, <1>3 DEF Fate

LEMMA TruthfulGrown ==
  ASSUME NEW c, NEW op \in Op, NEW n, Truthful(c), SamePeople(c), Grows(c, op, n), SameHeard(c),
         \A g \in Handler : On(g, c)' =>
           \/ On(g, c) /\ request'[g] = request[g]
           \/ /\ request'[g].pc = "tell" =>
                   /\ request'[g].op = op /\ request'[g].conn = n
                   /\ op \in {"cancel", "reject", "hangup"} /\ OwnerOf[n] \in Party(c)
              /\ request'[g].pc \notin {"tell", "ring"} =>
                   Did(c, "accept", request'[g].conn) \/ (op = "accept" /\ request'[g].conn = n),
         \A s \in Sweeper : c \in sweep'[s].ended =>
           c \in sweep[s].ended \/ (op = "timeout" /\ n = "none")
  PROVE  Truthful(c)'
<1>0. /\ \A o \in Op : \A b : Did(c, o, b) \/ (o = op /\ b = n) => Did(c, o, b)'
      /\ Party(c)' = Party(c)
  BY DEF Grows, SamePeople, Party
<1>1. ASSUME NEW g \in Handler, On(g, c)', NEW o, NEW by,
             request'[g].op = o, request'[g].conn = by
      PROVE  /\ request'[g].pc = "tell" =>
                  /\ o \in {"cancel", "reject", "hangup"}
                  /\ OwnerOf[by] \in Party(c)'
                  /\ Did(c, o, by)'
             /\ request'[g].pc \in {"sign", "accepted", "answered", "abort", "aborted"} =>
                  Did(c, "accept", by)'
  <2>1. CASE On(g, c) /\ request'[g] = request[g]
    BY <1>0, <1>1, <2>1 DEF Truthful, Op
  <2>2. CASE ~(On(g, c) /\ request'[g] = request[g])
    BY <1>0, <1>1, <2>2 DEF Op
  <2> QED BY <2>1, <2>2
<1>2. \A s \in Sweeper : c \in sweep'[s].ended => Did(c, "timeout", "none")'
  BY <1>0 DEF Truthful, Op
<1>3. ASSUME NEW m \in Conn
      PROVE  /\ \A o \in {"accept", "answered"} : Heard(m, o, c)' => \E by : Did(c, "accept", by)'
             /\ \A o \in Unanswered : Heard(m, o, c)' => \E by : Did(c, o, by)'
  BY <1>0 DEF Truthful, SameHeard, Op, Unanswered
<1>4. ASSUME NEW g \in Handler, On(g, c)'
      PROVE  (/\ request[g].pc = "tell" =>
                   /\ request[g].op \in {"cancel", "reject", "hangup"}
                   /\ OwnerOf[request[g].conn] \in Party(c)
                   /\ Did(c, request[g].op, request[g].conn)
              /\ request[g].pc \in {"sign", "accepted", "answered", "abort", "aborted"} =>
                   Did(c, "accept", request[g].conn))'
  BY <1>1, <1>4 DEF Did
<1> QED BY <1>2, <1>3, <1>4 DEF Truthful

LEMMA EndGrown ==
  ASSUME NEW c, NEW op \in Op, NEW n, EndCovered(c), SamePeople(c), Grows(c, op, n), SameHeard(c),
         cut \subseteq cut',
         c \notin cut' => \A o \in EndOp : \A b : WillTellEnd(c, o, b) => WillTellEnd(c, o, b)',
         c \notin cut' /\ op \in EndOp => WillTellEnd(c, op, n)'
  PROVE  EndCovered(c)'
<1>1. EndOp \subseteq Op /\ Party(c)' = Party(c)
  BY DEF EndOp, Op, SamePeople, Party
<1> QED BY <1>1 DEF EndCovered, Must, SameHeard, Grows

LEMMA AnswerGrown ==
  ASSUME NEW c, NEW op \in Op, NEW n, AnswerCovered(c), SamePeople(c), Grows(c, op, n), SameHeard(c),
         cut \subseteq cut',
         c \notin cut' => \A b : WillTellAnswer(c, b) => WillTellAnswer(c, b)',
         c \notin cut' /\ op = "accept" => WillTellAnswer(c, n)'
  PROVE  AnswerCovered(c)'
<1>1. CallerTold(c)' <=> CallerTold(c)
  BY DEF CallerTold, SamePeople, SameHeard
<1>2. \A b : CalleeTold(c, b)' <=> CalleeTold(c, b)
  BY DEF CalleeTold, SamePeople, SameHeard
<1>3. \A b : Did(c, "accept", b)' => Did(c, "accept", b) \/ (op = "accept" /\ b = n)
  BY DEF Grows, Op
<1> QED BY <1>1, <1>2, <1>3 DEF AnswerCovered

\* One script that let op through for c, and its entry in the history.
LEMMA NotedStep ==
  ASSUME SInv, NEW c \in used, NEW op \in Op, NEW u, NEW n \in Conn \cup {"none"},
         RunScript(op, u, c), Reply(op, u, c) = "ok", Note(c, op, n), UNCHANGED heard,
         request' \in [Handler -> Requests],
         \A g \in Handler : request'[g].pc # "idle" => request'[g].call \in used,
         \A d : d # c => SameRequests(d),
         sweep' \in [Sweeper -> [due : SUBSET used, ended : SUBSET used]],
         \A d : d # c => SameSweeps(d),
         cut' \subseteq used, cut \subseteq cut',
         \A g \in Handler : ~(request'[g].pc = "ring" /\ request'[g].call = c),
         \A g \in Handler : On(g, c)' =>
           \/ On(g, c) /\ request'[g] = request[g]
           \/ /\ request'[g].pc = "tell" =>
                   /\ request'[g].op = op /\ request'[g].conn = n
                   /\ op \in {"cancel", "reject", "hangup"} /\ OwnerOf[n] \in Party(c)
              /\ request'[g].pc \notin {"tell", "ring"} =>
                   Did(c, "accept", request'[g].conn) \/ (op = "accept" /\ request'[g].conn = n),
         \A s \in Sweeper : c \in sweep'[s].ended =>
           c \in sweep[s].ended \/ (op = "timeout" /\ n = "none"),
         c \notin cut' => \A o \in EndOp : \A b : WillTellEnd(c, o, b) => WillTellEnd(c, o, b)',
         c \notin cut' /\ op \in EndOp => WillTellEnd(c, op, n)',
         c \notin cut' => \A b : WillTellAnswer(c, b) => WillTellAnswer(c, b)',
         c \notin cut' /\ op = "accept" => WillTellAnswer(c, n)'
  PROVE  ServiceInv'
<1>0. IInv /\ ServiceOK /\ CallInv(c) /\ RingFirst
  BY DEF SInv, ServiceInv
<1>k. /\ used' = used /\ (\A d : d # c => SameKeys(d))
      /\ c \in DOMAIN hash /\ hash[c].state \in Wanted(op)
      /\ op # "accept" => c \notin DOMAIN hash'
      /\ op = "accept" => /\ hash'[c].caller = hash[c].caller
                          /\ hash'[c].callee = hash[c].callee
                          /\ hash'[c].state = "accepted"
  BY <1>0, ScriptKeys
<1>n. /\ story' \in [used -> Stories]
      /\ \A d \in used : SamePeople(d) /\ story'[d].replied = story[d].replied
      /\ \A d \in used : d # c => SamePast(d)
      /\ Grows(c, op, n)
  <2>1. op \in Op \cup {"expired"}
    OBVIOUS
  <2> QED BY <1>0, <2>1, Noted DEF SamePeople, SamePast, Grows
<1>h. (\A d : SameHeard(d)) /\ RingFirst'
  BY <1>0, UnchangedHeard
<1>1. ServiceOK'
  <2>1. /\ heard' \in [Conn -> Seq(Event)]
        /\ \A m \in Conn : \A i \in DOMAIN heard'[m] : heard'[m][i].call \in used
    BY <1>0 DEF ServiceOK
  <2> QED BY <1>0, <1>k, <1>n, <2>1, ServiceKept
<1>2. ASSUME NEW d \in used, d # c PROVE CallInv(d)'
  <2>1. CallInv(d)
    BY DEF SInv, ServiceInv
  <2> QED BY <1>2, <2>1, <1>k, <1>n, <1>h, SameCall DEF Untouched
<1>3. CallInv(c)'
  <2>1. Fate(c)'
    BY <1>0, <1>k, <1>n, FateGrown DEF CallInv
  <2>2. Unrung(c)'
    BY DEF Unrung
  <2>3. Truthful(c)'
    BY <1>0, <1>n, <1>h, TruthfulGrown DEF CallInv
  <2>4. EndCovered(c)'
    BY <1>0, <1>n, <1>h, EndGrown DEF CallInv
  <2>5. AnswerCovered(c)'
    BY <1>0, <1>n, <1>h, AnswerGrown DEF CallInv
  <2> QED BY <2>1, <2>2, <2>3, <2>4, <2>5 DEF CallInv
<1> QED BY <1>1, <1>2, <1>3, <1>k, <1>h DEF ServiceInv

\* Who knows of a call heard it ring, or its caller was answered.
LEMMA KnownIsRung ==
  ASSUME ServiceInv, NEW n \in Conn, NEW c, Knows(n, c)
  PROVE  c \in used /\ \A g \in Handler : ~(request[g].pc = "ring" /\ request[g].call = c)
<1>1. c \in used
  BY DEF Knows, ServiceInv, ServiceOK
<1>2. story[c].replied \/ \E m \in Conn : Heard(m, "ring", c)
  BY DEF Knows
<1> QED BY <1>1, <1>2 DEF ServiceInv, CallInv, Unrung

LEMMA StartScriptKeeps ==
  ASSUME SInv, NEW h \in Handler, NEW n \in Conn, NEW op \in Op, NEW c \in CallID,
         StartScript(h, n, op, c)
  PROVE  ServiceInv'
<1>0. /\ op \in {"cancel", "reject", "accept", "hangup"} /\ request[h] = Idle /\ Knows(n, c)
      /\ Reply(op, OwnerOf[n], c) = "ok" /\ RunScript(op, OwnerOf[n], c) /\ Note(c, op, n)
      /\ UNCHANGED <<sweep, heard>>
  BY DEF StartScript
<1>1. /\ IInv /\ ServiceInv /\ ServiceOK /\ c \in used /\ CallInv(c) /\ cut \subseteq used
      /\ \A g \in Handler : ~(request[g].pc = "ring" /\ request[g].call = c)
      /\ request[h].pc = "idle" /\ n \in Conn \cup {"none"}
  BY <1>0, KnownIsRung DEF SInv, ServiceInv, ServiceOK, Idle
<1>2. op # "accept" => OwnerOf[n] \in Party(c)
  <2>1. c \in DOMAIN hash /\ Permitted(op, OwnerOf[n], c)
    BY <1>0, <1>1, ScriptKeys
  <2>2. OwnerOf[n] \in {hash[c].caller, hash[c].callee}
    BY <1>0, <2>1 DEF Permitted, Parties
  <2> QED BY <2>1, <2>2, <1>1 DEF CallInv, Fate, Party
<1>s. /\ sweep' \in [Sweeper -> [due : SUBSET used, ended : SUBSET used]]
      /\ \A d : SameSweeps(d)
      /\ \A s \in Sweeper : c \in sweep'[s].ended => c \in sweep[s].ended
  BY <1>0, <1>1, UnchangedSweep DEF ServiceOK
<1>3. CASE /\ request' = [request EXCEPT ![h] = [pc |-> IF op = "accept" THEN "sign" ELSE "tell",
                                                 op |-> op, conn |-> n, call |-> c, late |-> FALSE]]
           /\ UNCHANGED cut
  <2> DEFINE r == [pc |-> IF op = "accept" THEN "sign" ELSE "tell",
                   op |-> op, conn |-> n, call |-> c, late |-> FALSE]
  <2>1. r \in Requests /\ r.call = c /\ r.op = op /\ r.conn = n
        /\ r.pc = IF op = "accept" THEN "sign" ELSE "tell"
    BY DEF Requests, Busy
  <2>0. request' = [request EXCEPT ![h] = r]
    BY <1>3
  <2> HIDE DEF r
  <2>r. /\ request' \in [Handler -> Requests] /\ request'[h] = r
        /\ \A g \in Handler : g # h => request'[g] = request[g]
        /\ \A d : d # c => SameRequests(d)
    BY <1>1, <2>0, <2>1, MovedRequest
  <2>2. \A g \in Handler : request'[g].pc # "idle" => request'[g].call \in used
    BY <1>1, <2>1, <2>r DEF ServiceOK
  <2>3. \A g \in Handler : ~(request'[g].pc = "ring" /\ request'[g].call = c)
    BY <1>1, <2>1, <2>r
  <2>4. ASSUME NEW g \in Handler, On(g, c)'
        PROVE  \/ On(g, c) /\ request'[g] = request[g]
               \/ /\ request'[g].pc = "tell" =>
                       /\ request'[g].op = op /\ request'[g].conn = n
                       /\ op \in {"cancel", "reject", "hangup"} /\ OwnerOf[n] \in Party(c)
                  /\ request'[g].pc \notin {"tell", "ring"} =>
                       Did(c, "accept", request'[g].conn) \/ (op = "accept" /\ request'[g].conn = n)
    <3>1. CASE g = h
      BY <1>0, <1>2, <2>1, <2>r, <3>1
    <3>2. CASE g # h
      BY <2>4, <2>r, <3>2 DEF On
    <3> QED BY <3>1, <3>2
  <2>5. \A o \in EndOp : \A b : WillTellEnd(c, o, b) => WillTellEnd(c, o, b)'
    BY <1>0, <1>1, <2>r DEF WillTellEnd, On
  <2>6. op \in EndOp => WillTellEnd(c, op, n)'
    BY <2>1, <2>r DEF WillTellEnd, On, EndOp
  <2>7. \A b : WillTellAnswer(c, b) => WillTellAnswer(c, b)'
    <3>1. CallerTold(c)' <=> CallerTold(c)
      <4>1. story'[c].caller = story[c].caller /\ heard' = heard
        BY <1>0, <1>1, Noted
      <4> QED BY <4>1 DEF CallerTold, Heard
    <3> QED BY <1>1, <2>r, <3>1 DEF WillTellAnswer, On
  <2>8. op = "accept" => WillTellAnswer(c, n)'
    BY <2>1, <2>r DEF WillTellAnswer, On
  <2>9. /\ c \in used /\ op \in Op /\ n \in Conn \cup {"none"} /\ heard' = heard
        /\ RunScript(op, OwnerOf[n], c) /\ Reply(op, OwnerOf[n], c) = "ok" /\ Note(c, op, n)
    BY <1>0, <1>1 DEF Op
  <2>10. cut' \subseteq used /\ cut \subseteq cut'
    BY <1>1, <1>3
  <2>11. (\A d : d # c => SameSweeps(d)) /\ \A s \in Sweeper : c \in sweep'[s].ended => c \in sweep[s].ended
    BY <1>s
  <2> QED
    BY <1>s, <2>r, <2>2, <2>3, <2>4, <2>5, <2>6, <2>7, <2>8, <2>9, <2>10, <2>11, NotedStep
<1>4. CASE Cut({c}) /\ UNCHANGED request
  <2>1. cut' \subseteq used /\ cut \subseteq cut' /\ c \in cut'
    BY <1>1, <1>4 DEF Cut
  <2>2. /\ request' \in [Handler -> Requests]
        /\ \A g \in Handler : request'[g].pc # "idle" => request'[g].call \in used
        /\ \A d : SameRequests(d)
        /\ \A g \in Handler : ~(request'[g].pc = "ring" /\ request'[g].call = c)
        /\ \A g \in Handler : On(g, c)' => On(g, c) /\ request'[g] = request[g]
    BY <1>1, <1>4 DEF ServiceOK, SameRequests, On
  <2> QED
    BY <1>0, <1>1, <1>s, <2>1, <2>2, NotedStep
<1> QED BY <1>3, <1>4 DEF StartScript

LEMMA RefusedScriptKeeps ==
  ASSUME SInv, NEW n \in Conn, NEW op \in Op, NEW c \in CallID, RefusedScript(n, op, c)
  PROVE  ServiceInv'
<1>0. /\ Reply(op, OwnerOf[n], c) = "missing" /\ RunScript(op, OwnerOf[n], c)
      /\ UNCHANGED <<request, sweep, heard, story, cut>>
  BY DEF RefusedScript, service
<1>1. used' = used /\ \A d : SameKeys(d)
  BY <1>0, ScriptKeys DEF SInv
<1>2. \A d : /\ SamePeople(d) /\ SamePast(d) /\ story'[d].replied = story[d].replied
             /\ SameHeard(d) /\ SameRequests(d) /\ SameSweeps(d)
  BY <1>0, UnchangedSweep, UnchangedStory, UnchangedHeard DEF SameRequests
<1>3. \A d \in used : CallInv(d)'
  BY <1>0, <1>1, <1>2, SameCall DEF SInv, ServiceInv, Untouched
<1>4. ServiceOK' /\ RingFirst'
  BY <1>0, <1>1 DEF SInv, ServiceInv, ServiceOK, RingFirst
<1> QED BY <1>1, <1>3, <1>4 DEF ServiceInv

LEMMA AbortHangupKeeps ==
  ASSUME SInv, NEW h \in Handler, AbortHangup(h)
  PROVE  ServiceInv'
<1> PICK c : c = request[h].call
  OBVIOUS
<1> PICK u : u = OwnerOf[request[h].conn]
  OBVIOUS
<1>0. /\ request[h].pc = "abort" /\ Go(h, "aborted") /\ UNCHANGED <<sweep, heard, cut>>
      /\ \/ /\ RunScript("hangup", u, c)
            /\ IF Reply("hangup", u, c) = "ok" THEN Note(c, "hangup", "none") ELSE UNCHANGED story
         \/ UNCHANGED <<board, story>>
  BY DEF AbortHangup
<1>1. /\ IInv /\ ServiceInv /\ ServiceOK /\ c \in used /\ CallInv(c) /\ cut \subseteq used
      /\ On(h, c) /\ "hangup" \in Op /\ "aborted" \in Busy
  BY <1>0, BusyRequest DEF SInv, ServiceInv, ServiceOK, On, Op, Busy
<1>t. Did(c, "accept", request[h].conn)
  BY <1>0, <1>1 DEF CallInv, Truthful
<1>r. /\ request' \in [Handler -> Requests] /\ request'[h].pc = "aborted"
      /\ request'[h].conn = request[h].conn /\ request'[h].call = c
      /\ \A g \in Handler : g # h => request'[g] = request[g]
      /\ \A d : d # c => SameRequests(d)
  BY <1>0, <1>1, GoneOn
<1>3. \A o \in EndOp : \A b : WillTellEnd(c, o, b) => WillTellEnd(c, o, b)'
  BY <1>0, <1>r DEF WillTellEnd, On
<1>4. ASSUME story'[c].caller = story[c].caller
      PROVE  \A b : WillTellAnswer(c, b) => WillTellAnswer(c, b)'
  <2>1. CallerTold(c)' <=> CallerTold(c)
    BY <1>0, <1>4 DEF CallerTold, Heard
  <2> QED BY <1>0, <1>1, <1>r, <2>1 DEF WillTellAnswer, On
<1>5. CASE RunScript("hangup", u, c) /\ Reply("hangup", u, c) = "ok" /\ Note(c, "hangup", "none")
  <2>1. \A g \in Handler : request'[g].pc # "idle" => request'[g].call \in used
    BY <1>1, <1>r DEF ServiceOK
  <2>2. \A g \in Handler : ~(request'[g].pc = "ring" /\ request'[g].call = c)
    <3>1. ASSUME NEW g \in Handler, request'[g].pc = "ring", request'[g].call = c
          PROVE  FALSE
      <4>1. g # h /\ request[g].pc = "ring" /\ request[g].call = c
        BY <1>r, <3>1
      <4> QED BY <4>1, <1>1 DEF CallInv, Unrung
    <3> QED BY <3>1
  <2>3. \A g \in Handler : On(g, c)' =>
          \/ On(g, c) /\ request'[g] = request[g]
          \/ request'[g].pc = "aborted" /\ Did(c, "accept", request'[g].conn)
    BY <1>r, <1>t DEF On
  <2>4. /\ sweep' \in [Sweeper -> [due : SUBSET used, ended : SUBSET used]]
        /\ \A d : SameSweeps(d)
        /\ \A s \in Sweeper : c \in sweep'[s].ended => c \in sweep[s].ended
    BY <1>0, <1>1, UnchangedSweep DEF ServiceOK
  <2>5. WillTellEnd(c, "hangup", "none")'
    BY <1>r DEF WillTellEnd, On
  <2>6. story'[c].caller = story[c].caller
    BY <1>1, <1>5, Noted
  <2>7. "none" \in Conn \cup {"none"}
    OBVIOUS
  <2> QED
    BY <1>0, <1>1, <1>r, <1>3, <1>4, <1>5, <2>1, <2>2, <2>3, <2>4, <2>5, <2>6, <2>7, NotedStep
<1>6. CASE /\ UNCHANGED story
           /\ \/ RunScript("hangup", u, c) /\ Reply("hangup", u, c) # "ok"
              \/ UNCHANGED board
  <2>1. used' = used /\ \A d : SameKeys(d)
    BY <1>1, <1>6, ScriptKeys, UnchangedBoard
  <2>2. Did(c, "accept", request'[h].conn)
    BY <1>r, <1>t
  <2> QED BY <1>0, <1>1, <1>r, <1>3, <1>4, <1>6, <2>1, <2>2, SilentRequestStep
<1> QED BY <1>0, <1>5, <1>6
-----------------------------------------------------------------------------
(* The sweeper.                                                            *)
Sweeps == [due : SUBSET used, ended : SUBSET used]

LEMMA MovedSweep ==
  ASSUME ServiceOK, NEW s \in Sweeper, NEW w \in Sweeps, sweep' = [sweep EXCEPT ![s] = w]
  PROVE  /\ sweep' \in [Sweeper -> [due : SUBSET used, ended : SUBSET used]]
         /\ sweep'[s] = w
         /\ \A z \in Sweeper : z # s => sweep'[z] = sweep[z]
BY DEF ServiceOK, Sweeps

LEMMA SweepFields ==
  ASSUME ServiceOK, NEW s \in Sweeper
  PROVE  sweep[s].due \subseteq used /\ sweep[s].ended \subseteq used /\ sweep[s] \in Sweeps
BY DEF ServiceOK, Sweeps

\* A step that changes nothing but deadlines, sweeps and cut calls.
LEMMA SweepStep ==
  ASSUME ServiceInv, used' = used, \A d : SameKeys(d), UNCHANGED <<request, heard, story>>,
         sweep' \in [Sweeper -> [due : SUBSET used, ended : SUBSET used]],
         \A d : SameSweeps(d), cut' \subseteq used, cut \subseteq cut'
  PROVE  ServiceInv'
<1>0. ServiceOK
  BY DEF ServiceInv
<1>1. \A d : /\ SamePeople(d) /\ SamePast(d) /\ story'[d].replied = story[d].replied
             /\ SameHeard(d) /\ SameRequests(d)
  BY UnchangedStory, UnchangedHeard DEF SameRequests
<1>2. \A d \in used : CallInv(d)'
  BY <1>1, SameCall DEF ServiceInv, Untouched
<1>3. ServiceOK'
  <2>1. /\ request' \in [Handler -> Requests]
        /\ \A g \in Handler : request'[g].pc # "idle" => request'[g].call \in used
        /\ heard' \in [Conn -> Seq(Event)]
        /\ \A m \in Conn : \A i \in DOMAIN heard'[m] : heard'[m][i].call \in used
        /\ story' \in [used -> Stories]
    BY <1>0 DEF ServiceOK
  <2> QED BY <1>0, <2>1, ServiceKept
<1>4. RingFirst'
  BY UnchangedHeard DEF ServiceInv
<1> QED BY <1>2, <1>3, <1>4 DEF ServiceInv

\* What is forgotten has been cut.
LEMMA ForgottenSweep ==
  ASSUME ServiceOK, NEW s \in Sweeper, sweep' = [sweep EXCEPT ![s] = NoSweep],
         sweep[s].ended \subseteq cut'
  PROVE  /\ sweep' \in [Sweeper -> [due : SUBSET used, ended : SUBSET used]]
         /\ \A d : SameSweeps(d)
<1>1. NoSweep \in Sweeps /\ NoSweep.due = {} /\ NoSweep.ended = {}
  BY DEF NoSweep, Sweeps
<1>2. /\ sweep' \in [Sweeper -> [due : SUBSET used, ended : SUBSET used]]
      /\ sweep'[s].due = {} /\ sweep'[s].ended = {}
      /\ \A z \in Sweeper : z # s => sweep'[z] = sweep[z]
  BY <1>1, MovedSweep
<1> QED BY <1>2 DEF SameSweeps, SameDue, SameEnded

LEMMA CrashSweeperKeeps ==
  ASSUME ServiceInv, NEW s \in Sweeper, CrashSweeper(s)
  PROVE  ServiceInv'
<1>0. /\ Cut(sweep[s].ended) /\ sweep' = [sweep EXCEPT ![s] = NoSweep]
      /\ UNCHANGED board /\ UNCHANGED <<request, heard, story>> /\ ServiceOK
  BY DEF CrashSweeper, ServiceInv
<1>1. cut' \subseteq used /\ cut \subseteq cut' /\ sweep[s].ended \subseteq cut'
  BY <1>0, SweepFields DEF Cut, ServiceOK
<1> QED BY <1>0, <1>1, ForgottenSweep, UnchangedBoard, SweepStep

\* An overdue call has been rung: its invitation would have been given up.
LEMMA DueIsRung ==
  ASSUME ServiceInv, NEW s \in Sweeper, NEW c \in sweep[s].due
  PROVE  /\ c \in used /\ c \in CallID
         /\ \A g \in Handler : ~(request[g].pc = "ring" /\ request[g].call = c)
<1>1. ServiceOK
  BY DEF ServiceInv
<1>2. c \in used
  BY <1>1, SweepFields
<1> QED BY <1>1, <1>2 DEF ServiceInv, CallInv, Unrung, ServiceOK

LEMMA EndOverdueKeeps ==
  ASSUME SInv, NEW s \in Sweeper, NEW c \in CallID, EndOverdue(s, c)
  PROVE  ServiceInv'
<1>0. /\ c \in sweep[s].due /\ RunScript("timeout", "none", c)
      /\ UNCHANGED <<request, heard, cut>>
  BY DEF EndOverdue
<1>1. /\ IInv /\ ServiceInv /\ ServiceOK /\ c \in used /\ CallInv(c) /\ cut \subseteq used
      /\ \A g \in Handler : ~(request[g].pc = "ring" /\ request[g].call = c)
      /\ "timeout" \in Op /\ "none" \in Conn \cup {"none"}
  BY <1>0, DueIsRung DEF SInv, ServiceInv, ServiceOK, Op
<1>r. /\ request' \in [Handler -> Requests]
      /\ \A g \in Handler : request'[g].pc # "idle" => request'[g].call \in used
      /\ \A d : SameRequests(d)
      /\ \A g \in Handler : On(g, c)' => On(g, c) /\ request'[g] = request[g]
      /\ \A g \in Handler : ~(request'[g].pc = "ring" /\ request'[g].call = c)
  BY <1>0, <1>1 DEF ServiceOK, SameRequests, On
<1>2. CASE /\ Reply("timeout", "none", c) = "ok"
           /\ sweep' = [sweep EXCEPT ![s] = [due |-> sweep[s].due \ {c}, ended |-> sweep[s].ended \cup {c}]]
           /\ Note(c, "timeout", "none")
  <2> DEFINE w == [due |-> sweep[s].due \ {c}, ended |-> sweep[s].ended \cup {c}]
  <2>1. w \in Sweeps /\ w.due = sweep[s].due \ {c} /\ w.ended = sweep[s].ended \cup {c}
    BY <1>1, SweepFields DEF Sweeps
  <2>2. sweep' = [sweep EXCEPT ![s] = w]
    BY <1>2
  <2> HIDE DEF w
  <2>3. /\ sweep' \in [Sweeper -> [due : SUBSET used, ended : SUBSET used]]
        /\ sweep'[s] = w /\ \A z \in Sweeper : z # s => sweep'[z] = sweep[z]
    BY <1>1, <2>1, <2>2, MovedSweep
  <2>4. \A d : d # c => SameSweeps(d)
    BY <2>1, <2>3 DEF SameSweeps, SameDue, SameEnded
  <2>5. \A o \in EndOp : \A b : WillTellEnd(c, o, b) => WillTellEnd(c, o, b)'
    BY <1>0, <2>1, <2>3 DEF WillTellEnd, On
  <2>6. WillTellEnd(c, "timeout", "none")'
    BY <2>1, <2>3 DEF WillTellEnd
  <2>7. \A b : WillTellAnswer(c, b) => WillTellAnswer(c, b)'
    <3>1. story'[c].caller = story[c].caller /\ heard' = heard
      BY <1>0, <1>1, <1>2, Noted
    <3>2. CallerTold(c)' <=> CallerTold(c)
      BY <3>1 DEF CallerTold, Heard
    <3> QED BY <1>0, <3>2 DEF WillTellAnswer, On
  <2> QED
    BY <1>0, <1>1, <1>2, <1>r, <2>3, <2>4, <2>5, <2>6, <2>7, NotedStep
<1>3. CASE /\ Reply("timeout", "none", c) # "ok"
           /\ sweep' = [sweep EXCEPT ![s].due = sweep[s].due \ {c}]
           /\ UNCHANGED story
  <2> DEFINE w == [sweep[s] EXCEPT !.due = sweep[s].due \ {c}]
  <2>1. w \in Sweeps /\ w.due = sweep[s].due \ {c} /\ w.ended = sweep[s].ended
    BY <1>1, SweepFields DEF Sweeps
  <2>2. sweep' = [sweep EXCEPT ![s] = w]
    BY <1>3
  <2> HIDE DEF w
  <2>3. /\ sweep' \in [Sweeper -> [due : SUBSET used, ended : SUBSET used]]
        /\ sweep'[s] = w /\ \A z \in Sweeper : z # s => sweep'[z] = sweep[z]
    BY <1>1, <2>1, <2>2, MovedSweep
  <2>4. \A d : SameSweeps(d)
    BY <2>1, <2>3 DEF SameSweeps, SameDue, SameEnded
  <2>5. used' = used /\ \A d : SameKeys(d)
    BY <1>0, <1>1, <1>3, ScriptKeys
  <2> QED BY <1>0, <1>1, <1>3, <2>3, <2>4, <2>5, SweepStep
<1> QED BY <1>2, <1>3 DEF EndOverdue

LEMMA SweepErrorKeeps ==
  ASSUME SInv, NEW s \in Sweeper, SweepError(s)
  PROVE  ServiceInv'
<1>0. /\ sweep' = [sweep EXCEPT ![s] = NoSweep] /\ UNCHANGED <<request, heard>>
      /\ IInv /\ ServiceInv /\ ServiceOK /\ cut \subseteq used
  BY DEF SweepError, SInv, ServiceInv, ServiceOK
<1>1. CASE Cut(sweep[s].ended) /\ UNCHANGED <<board, story>>
  <2>1. cut' \subseteq used /\ cut \subseteq cut' /\ sweep[s].ended \subseteq cut'
    BY <1>0, <1>1, SweepFields DEF Cut
  <2> QED BY <1>0, <1>1, <2>1, ForgottenSweep, UnchangedBoard, SweepStep
<1>2. ASSUME NEW c \in sweep[s].due,
             Reply("timeout", "none", c) = "ok", RunScript("timeout", "none", c),
             Note(c, "timeout", "none"), Cut(sweep[s].ended \cup {c})
      PROVE  ServiceInv'
  <2>1. /\ c \in used /\ "timeout" \in Op /\ "none" \in Conn \cup {"none"}
        /\ \A g \in Handler : ~(request[g].pc = "ring" /\ request[g].call = c)
    BY <1>0, <1>2, DueIsRung DEF Op
  <2>2. cut' \subseteq used /\ cut \subseteq cut' /\ sweep[s].ended \subseteq cut' /\ c \in cut'
    BY <1>0, <1>2, <2>1, SweepFields DEF Cut
  <2>3. /\ sweep' \in [Sweeper -> [due : SUBSET used, ended : SUBSET used]]
        /\ \A d : SameSweeps(d)
    BY <1>0, <2>2, ForgottenSweep
  <2>4. \A z \in Sweeper : c \in sweep'[z].ended => c \in sweep[z].ended
    BY <2>3 DEF SameSweeps, SameEnded
  <2>5. /\ request' \in [Handler -> Requests]
        /\ \A g \in Handler : request'[g].pc # "idle" => request'[g].call \in used
        /\ \A d : SameRequests(d)
        /\ \A g \in Handler : On(g, c)' => On(g, c) /\ request'[g] = request[g]
        /\ \A g \in Handler : ~(request'[g].pc = "ring" /\ request'[g].call = c)
    BY <1>0, <2>1 DEF ServiceOK, SameRequests, On
  <2> QED
    BY <1>0, <1>2, <2>1, <2>2, <2>3, <2>4, <2>5, NotedStep
<1> QED BY <1>1, <1>2 DEF SweepError

LEMMA TellTimeoutKeeps ==
  ASSUME ServiceInv, NEW s \in Sweeper, NEW c \in CallID, TellTimeout(s, c)
  PROVE  ServiceInv'
<1>0. /\ c \in sweep[s].ended /\ Announce({story[c].caller, story[c].callee}, "none", "timeout", c)
      /\ sweep' = [sweep EXCEPT ![s].ended = sweep[s].ended \ {c}]
      /\ UNCHANGED board /\ UNCHANGED <<request, story>>
  BY DEF TellTimeout
<1>1. /\ ServiceOK /\ c \in used /\ CallInv(c) /\ RingFirst
      /\ "timeout" \in Op /\ "timeout" \in Op \cup {"ring", "answered"}
  BY <1>0, SweepFields DEF ServiceInv, Op
<1>t. Did(c, "timeout", "none") /\ \A g \in Handler : ~(request[g].pc = "ring" /\ request[g].call = c)
  BY <1>0, <1>1 DEF CallInv, Truthful, Unrung
<1>b. used' = used /\ (\A d : SameKeys(d))
  BY <1>0, UnchangedBoard
<1>r. \A d : SameRequests(d)
  BY <1>0 DEF SameRequests
<1>s. \A d : SamePeople(d) /\ SamePast(d) /\ story'[d].replied = story[d].replied
  BY <1>0, UnchangedStory
<1> DEFINE w == [sweep[s] EXCEPT !.ended = sweep[s].ended \ {c}]
<1>w. w \in Sweeps /\ w.due = sweep[s].due /\ w.ended = sweep[s].ended \ {c}
      /\ sweep' = [sweep EXCEPT ![s] = w]
  BY <1>0, <1>1, SweepFields DEF Sweeps
<1> HIDE DEF w
<1>e. /\ sweep' \in [Sweeper -> [due : SUBSET used, ended : SUBSET used]]
      /\ sweep'[s] = w /\ \A z \in Sweeper : z # s => sweep'[z] = sweep[z]
  BY <1>1, <1>w, MovedSweep
<1>d. \A d : d # c => SameSweeps(d)
  BY <1>w, <1>e DEF SameSweeps, SameDue, SameEnded
<1>h. cut \subseteq cut' /\ \A d : d # c => SameHeard(d)
  BY <1>0, <1>1, AnnouncedElsewhere
<1>a. /\ heard' \in [Conn -> Seq(Event)]
      /\ \A n \in Conn : \A i \in DOMAIN heard'[n] : heard'[n][i].call \in used
      /\ cut' \subseteq used
      /\ \A n \in Conn : \A o : o # "timeout" => (Heard(n, o, c)' <=> Heard(n, o, c))
      /\ \A n \in Conn : \A o : Heard(n, o, c) => Heard(n, o, c)'
      /\ \A n \in Conn : OwnerOf[n] \in Party(c) /\ c \notin cut' => Heard(n, "timeout", c)'
  <2>1. \A n \in Conn : n # "none"
    BY NobodyAssumption
  <2>2. PICK users : users = Party(c) /\ Announce(users, "none", "timeout", c)
    BY <1>0 DEF Party
  <2>3. \A n \in Conn : OwnerOf[n] \in Party(c) /\ c \notin cut' => Heard(n, "timeout", c)'
    BY <1>1, <2>1, <2>2, AnnouncedHere
  <2> QED BY <1>0, <1>1, <2>3, AnnouncedHere
<1>2. ServiceOK'
  <2>1. /\ request' \in [Handler -> Requests] /\ story' \in [used -> Stories]
        /\ \A g \in Handler : request'[g].pc # "idle" => request'[g].call \in used
    BY <1>0, <1>1 DEF ServiceOK
  <2> QED BY <1>1, <1>b, <1>e, <1>a, <2>1, ServiceKept
<1>3. RingFirst'
  BY <1>0, <1>1, RingStaysFirst
<1>4. ASSUME NEW d \in used, d # c PROVE CallInv(d)'
  BY <1>4, <1>b, <1>r, <1>s, <1>d, <1>h, SameCall DEF ServiceInv, Untouched
<1>5. CallInv(c)'
  <2>1. Fate(c)'
    BY <1>1, <1>b, <1>s, SameFate DEF CallInv, SameKeys
  <2>2. Unrung(c)'
    BY <1>0, <1>t DEF Unrung
  <2>3. Truthful(c)'
    <3>1. \A g \in Handler : On(g, c)' => On(g, c) /\ request'[g] = request[g]
      BY <1>0 DEF On
    <3>2. \A z \in Sweeper : c \in sweep'[z].ended => c \in sweep[z].ended
      BY <1>w, <1>e
    <3>3. \A n \in Conn : \A o : Heard(n, o, c)' =>
            Heard(n, o, c) \/ (o \in Op /\ \E by : Did(c, o, by))
      BY <1>1, <1>t, <1>a
    <3> QED BY <1>1, <1>s, <3>1, <3>2, <3>3, TruthfulKept DEF CallInv
  <2>4. EndCovered(c)'
    <3>1. \A n \in Conn : \A b : Must(n, c, b) /\ c \notin cut' => Heard(n, "timeout", c)'
      BY <1>a DEF Must
    <3>2. \A o \in EndOp : \A b : (WillTellEnd(c, o, b) /\ c \notin cut') =>
            WillTellEnd(c, o, b)' \/ \A n \in Conn : Must(n, c, b) => Heard(n, o, c)'
      BY <1>0, <3>1 DEF WillTellEnd, On
    <3> QED BY <1>1, <1>s, <1>h, <1>a, <3>2, EndKept DEF CallInv
  <2>5. AnswerCovered(c)'
    <3>1. CallerTold(c) => CallerTold(c)'
      BY <1>0, <1>a DEF CallerTold
    <3>2. \A b : WillTellAnswer(c, b) => WillTellAnswer(c, b)'
      BY <1>0, <3>1 DEF WillTellAnswer, On
    <3> QED BY <1>1, <1>s, <1>h, <1>a, <3>2, AnswerKept DEF CallInv
  <2> QED BY <2>1, <2>2, <2>3, <2>4, <2>5 DEF CallInv
<1> QED BY <1>2, <1>3, <1>4, <1>5, <1>b DEF ServiceInv

\* The deadline of a request passes before the call it is about to ring is due.
LEMMA ListOverdueKeeps ==
  ASSUME SInv, NEW s \in Sweeper, ListOverdue(s)
  PROVE  ServiceInv'
<1>0. /\ IInv /\ ServiceInv /\ ServiceOK /\ UNCHANGED board
      /\ UNCHANGED <<request, heard, story, cut>>
  BY DEF ListOverdue, SInv, ServiceInv
<1> PICK D \in SUBSET Overdue : sweep' = [sweep EXCEPT ![s].due = D]
  BY DEF ListOverdue
<1> DEFINE w == [sweep[s] EXCEPT !.due = D]
<1>1. D \subseteq used /\ \A d \in D : d \in DOMAIN ringing /\ ringing[d] = 0
  BY <1>0 DEF Overdue, IInv, RingingIndexed
<1>2. w \in Sweeps /\ w.due = D /\ w.ended = sweep[s].ended /\ sweep' = [sweep EXCEPT ![s] = w]
  BY <1>0, <1>1, SweepFields DEF Sweeps
<1> HIDE DEF w
<1>3. /\ sweep' \in [Sweeper -> [due : SUBSET used, ended : SUBSET used]]
      /\ sweep'[s] = w /\ \A z \in Sweeper : z # s => sweep'[z] = sweep[z]
  BY <1>0, <1>2, MovedSweep
<1>4. \A d : SameEnded(d) /\ (d \notin D => SameSweeps(d))
  BY <1>2, <1>3 DEF SameSweeps, SameDue, SameEnded
<1>5. used' = used /\ \A d : SameKeys(d)
  BY <1>0, UnchangedBoard
<1>6. \A d : /\ SamePeople(d) /\ SamePast(d) /\ story'[d].replied = story[d].replied
             /\ SameHeard(d) /\ SameRequests(d) /\ AlikeRequests(d)
  BY <1>0, UnchangedStory, UnchangedHeard, SameAlike DEF SameRequests
<1>7. ASSUME NEW d \in used PROVE CallInv(d)'
  <2>0. CallInv(d)
    BY <1>0 DEF ServiceInv
  <2>1. CASE d \notin D
    BY <1>0, <1>4, <1>5, <1>6, <2>0, <2>1, SameCall DEF Untouched
  <2>2. CASE d \in D
    <3>1. \A h \in Handler : ~(request[h].pc = "ring" /\ request[h].call = d)
      BY <1>1, <2>0, <2>2, RequestTimeout, Timing DEF CallInv, Unrung
    <3>2. Unrung(d)'
      BY <1>0, <3>1 DEF Unrung
    <3>3. Fate(d)' /\ Truthful(d)' /\ EndCovered(d)' /\ AnswerCovered(d)'
      BY <1>0, <1>4, <1>5, <1>6, <2>0, SameFate, SameTruthful, SameEndCovered, SameAnswerCovered
      DEF CallInv, SameKeys
    <3> QED BY <3>2, <3>3 DEF CallInv
  <2> QED BY <2>1, <2>2
<1>8. ServiceOK'
  <2>1. /\ request' \in [Handler -> Requests]
        /\ \A g \in Handler : request'[g].pc # "idle" => request'[g].call \in used
        /\ heard' \in [Conn -> Seq(Event)]
        /\ \A m \in Conn : \A i \in DOMAIN heard'[m] : heard'[m][i].call \in used
        /\ story' \in [used -> Stories] /\ cut' \subseteq used
    BY <1>0 DEF ServiceOK
  <2> QED BY <1>0, <1>3, <1>5, <2>1, ServiceKept
<1>9. RingFirst'
  BY <1>0, UnchangedHeard DEF ServiceInv
<1> QED BY <1>5, <1>7, <1>8, <1>9 DEF ServiceInv
-----------------------------------------------------------------------------
(* The beginning of a call, and time.                                      *)
LEMMA StartInviteKeeps ==
  ASSUME SInv, NEW h \in Handler, NEW n \in Conn, NEW v \in User, NEW c \in CallID,
         StartInvite(h, n, v, c)
  PROVE  ServiceInv'
<1> DEFINE r == [pc |-> "ring", op |-> "invite", conn |-> n, call |-> c, late |-> FALSE]
           t == [caller |-> OwnerOf[n], callee |-> v, replied |-> FALSE, steps |-> <<>>]
<1>0. /\ request[h] = Idle /\ Invite(OwnerOf[n], v, c)
      /\ story' = Put(story, c, t) /\ request' = [request EXCEPT ![h] = r]
      /\ UNCHANGED <<sweep, heard, cut>>
  BY DEF StartInvite
<1>1. IInv /\ ServiceInv /\ ServiceOK /\ OwnerOf[n] \in User /\ request[h].pc = "idle"
  BY <1>0, ConnAssumption DEF SInv, ServiceInv, Idle
<1>2. /\ r \in Requests /\ r.pc = "ring" /\ r.call = c /\ r.late = FALSE
      /\ t \in Stories /\ t.caller = OwnerOf[n] /\ t.callee = v /\ t.replied = FALSE /\ t.steps = <<>>
  BY <1>1 DEF Requests, Busy, Stories
<1>u. c \notin used /\ used' = used \cup {c}
  BY <1>0 DEF Invite
<1>k. /\ hash'[c].caller = OwnerOf[n] /\ hash'[c].callee = v
      /\ ringing'[c] = RingWait
      /\ \A d \in used : SameKeys(d)
  BY <1>0, <1>u DEF Invite, Put, SameKeys, SameHash, SameDeadline
<1>s. /\ story'[c] = t /\ DOMAIN story' = used \cup {c}
      /\ \A d \in used : story'[d] = story[d]
      /\ story' \in [used' -> Stories]
  <2> HIDE DEF t
  <2>1. story \in [used -> Stories]
    BY <1>1 DEF ServiceOK
  <2> QED BY <1>0, <1>2, <1>u, <2>1 DEF Put
<1> HIDE DEF r, t
<1>r. /\ request' \in [Handler -> Requests] /\ request'[h] = r
      /\ \A g \in Handler : g # h => request'[g] = request[g]
      /\ \A d : d # c => SameRequests(d)
  BY <1>0, <1>1, <1>2, MovedRequest
<1>3. ASSUME NEW d \in used PROVE CallInv(d)'
  <2>1. d # c /\ CallInv(d)
    BY <1>1, <1>u DEF ServiceInv
  <2>2. SamePeople(d) /\ SamePast(d) /\ story'[d].replied = story[d].replied
    BY <1>s DEF SamePeople, SamePast, Did
  <2>3. SameHeard(d) /\ SameSweeps(d) /\ cut \subseteq cut'
    BY <1>0, UnchangedHeard, UnchangedSweep
  <2> QED BY <1>k, <1>r, <2>1, <2>2, <2>3, SameCall DEF Untouched
<1>4. CallInv(c)'
  <2>1. \A o, b : ~Did(c, o, b)'
    BY <1>2, <1>s DEF Did
  <2>2. \A m \in Conn : \A o : ~Heard(m, o, c)'
    <3> SUFFICES ASSUME NEW m \in Conn, NEW o, [op |-> o, call |-> c] \in ToSet(heard[m]) PROVE FALSE
      BY <1>0 DEF Heard
    <3>1. PICK i \in DOMAIN heard[m] : heard[m][i] = [op |-> o, call |-> c]
      BY DEF ToSet
    <3>2. heard[m][i].call \in used
      BY <1>1 DEF ServiceOK
    <3> QED BY <3>1, <3>2, <1>u
  <2>3. \A g \in Handler : On(g, c)' => g = h
    BY <1>1, <1>r, <1>u DEF On, ServiceOK
  <2>4. \A s \in Sweeper : c \notin sweep'[s].due /\ c \notin sweep'[s].ended
    BY <1>0, <1>1, <1>u, SweepFields
  <2>5. Fate(c)'
    BY <1>2, <1>s, <1>k, <2>1 DEF Fate
  <2>6. Unrung(c)'
    <3> SUFFICES ASSUME NEW g \in Handler, request'[g].pc = "ring", request'[g].call = c
                 PROVE  /\ ~story'[c].replied
                        /\ \A m \in Conn : \A o : ~Heard(m, o, c)'
                        /\ \A k \in Handler : On(k, c)' => k = g
                        /\ \A s \in Sweeper : c \notin sweep'[s].due /\ c \notin sweep'[s].ended
                        /\ c \in DOMAIN ringing' =>
                             ringing'[c] + (IF request'[g].late THEN 1 ELSE 0) >= RingWait
      BY DEF Unrung
    <3>1. g = h
      BY <2>3 DEF On
    <3>2. ringing'[c] + (IF request'[g].late THEN 1 ELSE 0) >= RingWait
      BY <1>2, <1>r, <1>k, <3>1, Timing
    <3> QED BY <1>2, <1>s, <2>2, <2>3, <2>4, <3>1, <3>2
  <2>7. Truthful(c)'
    BY <1>2, <1>r, <2>2, <2>3, <2>4 DEF Truthful
  <2>8. EndCovered(c)' /\ AnswerCovered(c)'
    BY <2>1 DEF EndCovered, AnswerCovered
  <2> QED BY <2>5, <2>6, <2>7, <2>8 DEF CallInv
<1>5. ServiceOK'
  <2>1. used' \subseteq CallID /\ cut' \subseteq used' /\ request' \in [Handler -> Requests]
    BY <1>0, <1>1, <1>u, <1>r DEF ServiceOK
  <2>2. \A g \in Handler : request'[g].pc # "idle" => request'[g].call \in used'
    BY <1>1, <1>2, <1>r, <1>u DEF ServiceOK
  <2>3. sweep' \in [Sweeper -> [due : SUBSET used', ended : SUBSET used']]
    BY <1>0, <1>1, <1>u DEF ServiceOK
  <2>4. /\ heard' \in [Conn -> Seq(Event)]
        /\ \A m \in Conn : \A i \in DOMAIN heard'[m] : heard'[m][i].call \in used'
    BY <1>0, <1>1, <1>u DEF ServiceOK
  <2> QED BY <1>s, <2>1, <2>2, <2>3, <2>4 DEF ServiceOK
<1>6. RingFirst'
  BY <1>0, <1>1, UnchangedHeard DEF ServiceInv
<1> QED BY <1>3, <1>4, <1>5, <1>6, <1>u DEF ServiceInv

LEMMA ClockKeeps ==
  ASSUME SInv, Clock
  PROVE  ServiceInv'
<1>0. /\ Tick /\ UNCHANGED <<sweep, heard, cut>>
      /\ \A h \in Handler : request[h] # Idle => ~request[h].late
      /\ request' = [h \in Handler |-> IF request[h] = Idle THEN Idle
                                       ELSE [request[h] EXCEPT !.late = TRUE]]
      /\ story' = [c \in DOMAIN story |->
                     IF c \in Expiring
                     THEN [story[c] EXCEPT !.steps = Append(story[c].steps, [op |-> "expired", by |-> "none"])]
                     ELSE story[c]]
  BY DEF Clock
<1>1. IInv /\ ServiceInv /\ ServiceOK
  BY DEF SInv, ServiceInv
<1>u. used' = used
  BY <1>0 DEF Tick
<1>r. /\ request' \in [Handler -> Requests]
      /\ \A h \in Handler : /\ request'[h].pc = request[h].pc
                            /\ request[h].pc # "idle" =>
                                 /\ request'[h].op = request[h].op
                                 /\ request'[h].conn = request[h].conn
                                 /\ request'[h].call = request[h].call
                                 /\ ~request[h].late /\ request'[h].late
  <2> SUFFICES ASSUME NEW h \in Handler
               PROVE  /\ request'[h] \in Requests
                      /\ request'[h].pc = request[h].pc
                      /\ request[h].pc # "idle" =>
                           /\ request'[h].op = request[h].op
                           /\ request'[h].conn = request[h].conn
                           /\ request'[h].call = request[h].call
                           /\ ~request[h].late /\ request'[h].late
    BY <1>0
  <2>1. CASE request[h] = Idle
    BY <1>0, <2>1 DEF Requests, Idle
  <2>2. CASE request[h] # Idle
    <3>1. request'[h] = [request[h] EXCEPT !.late = TRUE] /\ ~request[h].late
      BY <1>0, <2>2
    <3>2. request[h] \in [pc : Busy, op : Op \cup {"invite"}, conn : Conn, call : CallID, late : BOOLEAN]
      BY <1>1, <2>2 DEF ServiceOK, Requests
    <3> QED BY <3>1, <3>2 DEF Requests
  <2> QED BY <2>1, <2>2
<1>a. \A d : AlikeRequests(d)
  BY <1>r DEF AlikeRequests, On
<1>s. ASSUME NEW d \in used
      PROVE  /\ story'[d] \in Stories /\ SamePeople(d)
             /\ story'[d].replied = story[d].replied /\ SamePast(d)
  <2> DEFINE E == [op : Op \cup {"expired"}, by : Conn \cup {"none"}]
             e == [op |-> "expired", by |-> "none"]
             q == story[d].steps
  <2>1. story[d] \in Stories /\ d \in DOMAIN story /\ q \in Seq(E) /\ e \in E
    BY <1>1 DEF ServiceOK, Stories
  <2>2. CASE d \in Expiring
    <3>1. story'[d] = [story[d] EXCEPT !.steps = Append(q, e)]
      BY <1>0, <2>1, <2>2
    <3> HIDE DEF q, E, e
    <3>2. Append(q, e) \in Seq(E)
      BY <2>1, AppendedSeq
    <3>3. /\ story'[d].steps = Append(q, e)
          /\ story'[d].caller = story[d].caller /\ story'[d].callee = story[d].callee
          /\ story'[d].replied = story[d].replied
          /\ story'[d] \in Stories
      BY <2>1, <3>1, <3>2 DEF Stories, E
    <3>4. ASSUME NEW op \in Op, NEW by
          PROVE  Did(d, op, by)' <=> Did(d, op, by)
      <4>1. e # [op |-> op, by |-> by]
        BY DEF e, Op
      <4>2. \A i \in DOMAIN Append(q, e) : Append(q, e)[i] = [op |-> op, by |-> by]
              => \E j \in DOMAIN q : q[j] = [op |-> op, by |-> by]
        BY <2>1, <4>1, AppendedSeq
      <4>3. \A j \in DOMAIN q : q[j] = [op |-> op, by |-> by]
              => \E i \in DOMAIN Append(q, e) : Append(q, e)[i] = [op |-> op, by |-> by]
        BY <2>1, AppendedSeq
      <4> QED BY <3>3, <4>2, <4>3 DEF Did, q
    <3> QED BY <3>3, <3>4 DEF SamePeople, SamePast
  <2>3. CASE d \notin Expiring
    BY <1>0, <2>1, <2>3 DEF SamePeople, SamePast, Did
  <2> QED BY <2>2, <2>3
<1>h. \A d : SameHeard(d) /\ SameSweeps(d) /\ SameEnded(d)
  BY <1>0, UnchangedHeard, UnchangedSweep DEF SameSweeps
<1>k. \A d : SameHash(d)
  <2> SUFFICES ASSUME NEW d \in DOMAIN hash'
               PROVE  /\ d \in DOMAIN hash /\ hash'[d].caller = hash[d].caller
                      /\ hash'[d].callee = hash[d].callee /\ hash'[d].state = hash[d].state
    BY DEF SameHash
  <2>1. d \in DOMAIN hash /\ hash'[d] = [hash[d] EXCEPT !.ttl = hash[d].ttl - 1]
    BY <1>0 DEF Tick, Age
  <2>2. hash[d] \in Hash
    BY <1>1, <2>1 DEF IInv, TypeOK
  <2> QED BY <2>1, <2>2 DEF Hash
<1>t. \A d \in DOMAIN ringing' :
         /\ d \in DOMAIN ringing /\ ringing[d] \in Nat
         /\ ringing'[d] = IF ringing[d] = 0 THEN 0 ELSE ringing[d] - 1
  BY <1>0, <1>1, Timing DEF Tick, IInv, TypeOK
<1>2. ASSUME NEW d \in used PROVE CallInv(d)'
  <2>0. CallInv(d) /\ cut \subseteq cut'
    BY <1>0, <1>1 DEF ServiceInv
  <2>1. Unrung(d)'
    <3> SUFFICES ASSUME NEW h \in Handler, request'[h].pc = "ring", request'[h].call = d
                 PROVE  /\ ~story'[d].replied
                        /\ \A m \in Conn : \A o : ~Heard(m, o, d)'
                        /\ \A k \in Handler : On(k, d)' => k = h
                        /\ \A s \in Sweeper : d \notin sweep'[s].due /\ d \notin sweep'[s].ended
                        /\ d \in DOMAIN ringing' =>
                             ringing'[d] + (IF request'[h].late THEN 1 ELSE 0) >= RingWait
      BY DEF Unrung
    <3>1. request[h].pc = "ring" /\ request[h].call = d /\ ~request[h].late /\ request'[h].late
      BY <1>r
    <3>2. /\ ~story[d].replied
          /\ \A m \in Conn : \A o : ~Heard(m, o, d)
          /\ \A k \in Handler : On(k, d) => k = h
          /\ \A s \in Sweeper : d \notin sweep[s].due /\ d \notin sweep[s].ended
          /\ d \in DOMAIN ringing => ringing[d] + (IF request[h].late THEN 1 ELSE 0) >= RingWait
      BY <2>0, <3>1 DEF CallInv, Unrung
    <3>3. d \in DOMAIN ringing' => ringing'[d] + 1 >= RingWait
      BY <1>t, <3>1, <3>2, RequestTimeout, Timing
    <3>4. \A k \in Handler : On(k, d)' => On(k, d)
      BY <1>r DEF On
    <3> QED BY <1>0, <1>s, <1>h, <3>1, <3>2, <3>3, <3>4 DEF SameHeard
  <2>2. Fate(d)' /\ Truthful(d)' /\ EndCovered(d)' /\ AnswerCovered(d)'
    BY <1>a, <1>s, <1>h, <1>k, <2>0, SameFate, SameTruthful, SameEndCovered, SameAnswerCovered
    DEF CallInv
  <2> QED BY <2>1, <2>2 DEF CallInv
<1>3. ServiceOK'
  <2>1. DOMAIN story' = used /\ story' = [c \in used |-> story'[c]]
    BY <1>0, <1>1 DEF ServiceOK
  <2>2. story' \in [used -> Stories]
    BY <1>s, <2>1
  <2>3. /\ \A g \in Handler : request'[g].pc # "idle" => request'[g].call \in used
        /\ sweep' \in [Sweeper -> [due : SUBSET used, ended : SUBSET used]]
        /\ heard' \in [Conn -> Seq(Event)]
        /\ \A m \in Conn : \A i \in DOMAIN heard'[m] : heard'[m][i].call \in used
        /\ cut' \subseteq used
    BY <1>0, <1>1, <1>r DEF ServiceOK
  <2> QED BY <1>1, <1>u, <1>r, <2>2, <2>3, ServiceKept
<1>4. RingFirst'
  BY <1>0, <1>1, UnchangedHeard DEF ServiceInv
<1> QED BY <1>2, <1>3, <1>4, <1>u DEF ServiceInv
-----------------------------------------------------------------------------
(* The invariant holds.                                                    *)
LEMMA SignalInitInv == SignalInit => SInv
<1> SUFFICES ASSUME SignalInit PROVE SInv
  OBVIOUS
<1>1. IInv
  BY InitInv DEF SignalInit
<1>2. /\ used = {} /\ request = [h \in Handler |-> Idle] /\ sweep = [s \in Sweeper |-> NoSweep]
      /\ heard = [n \in Conn |-> <<>>] /\ story = <<>> /\ cut = {}
  BY DEF SignalInit, Init
<1>3. ServiceOK
  BY <1>2 DEF ServiceOK, Requests, Idle, NoSweep
<1>4. RingFirst
  BY <1>2 DEF RingFirst
<1> QED BY <1>1, <1>2, <1>3, <1>4 DEF SInv, ServiceInv

LEMMA SignalNextInv == SInv /\ [SignalNext]_signalVars => SInv'
<1> SUFFICES ASSUME SInv, [SignalNext]_signalVars PROVE SInv'
  OBVIOUS
<1>0. IInv /\ ServiceInv /\ ServiceOK
  BY DEF SInv, ServiceInv
<1>1. IInv'
  BY <1>0, ServiceBoardStep, NextInv
<1>2. CASE UNCHANGED signalVars
  <2>1. UNCHANGED board /\ UNCHANGED <<request, sweep, heard, story, cut>>
    BY <1>2 DEF signalVars, service
  <2> QED
    <3>1. /\ sweep' \in [Sweeper -> [due : SUBSET used, ended : SUBSET used]]
          /\ cut' \subseteq used /\ cut \subseteq cut'
      BY <1>0, <2>1 DEF ServiceOK
    <3> QED BY <1>0, <1>1, <2>1, <3>1, UnchangedBoard, UnchangedSweep, SweepStep DEF SInv
<1>3. CASE SignalNext
  <2>1. ASSUME NEW h \in Handler, NEW n \in Conn, NEW v \in User, NEW c \in CallID,
               StartInvite(h, n, v, c)
        PROVE  ServiceInv'
    BY <2>1, StartInviteKeeps
  <2>2. ASSUME NEW h \in Handler, NEW n \in Conn, NEW op \in Op, NEW c \in CallID,
               StartScript(h, n, op, c)
        PROVE  ServiceInv'
    BY <2>2, StartScriptKeeps
  <2>3. ASSUME NEW n \in Conn, NEW op \in Op, NEW c \in CallID, RefusedScript(n, op, c)
        PROVE  ServiceInv'
    BY <2>3, RefusedScriptKeeps
  <2>4. ASSUME NEW h \in Handler,
               \/ Ring(h) \/ TellPeer(h) \/ Sign(h) \/ TellAccept(h) \/ TellAnswered(h)
               \/ AbortHangup(h) \/ TellAbort(h) \/ CrashRequest(h)
        PROVE  ServiceInv'
    BY <1>0, <2>4, RingKeeps, TellPeerKeeps, SignKeeps, TellAcceptKeeps, TellAnsweredKeeps,
       AbortHangupKeeps, TellAbortKeeps, CrashRequestKeeps
  <2>5. ASSUME NEW s \in Sweeper, ListOverdue(s) \/ SweepError(s) \/ CrashSweeper(s)
        PROVE  ServiceInv'
    BY <1>0, <2>5, ListOverdueKeeps, SweepErrorKeeps, CrashSweeperKeeps
  <2>6. ASSUME NEW s \in Sweeper, NEW c \in CallID, EndOverdue(s, c) \/ TellTimeout(s, c)
        PROVE  ServiceInv'
    BY <1>0, <2>6, EndOverdueKeeps, TellTimeoutKeeps
  <2>7. ASSUME Clock
        PROVE  ServiceInv'
    BY <2>7, ClockKeeps
  <2> QED
    BY <1>1, <1>3, <2>1, <2>2, <2>3, <2>4, <2>5, <2>6, <2>7 DEF SignalNext, SInv
<1> QED BY <1>2, <1>3

LEMMA SignalInvariant == SignalSpec => []SInv
BY SignalInitInv, SignalNextInv, PTL DEF SignalSpec

(* The service drives the board only as the board's own specification      *)
(* allows, so everything proved of the board holds under the service: its  *)
(* sweepers, crashes and lost replies included.                            *)
THEOREM SignalImplementsBoard == SignalSpec => BoardSpec
<1>1. SignalInit => Init
  BY DEF SignalInit
<1>2. SInv /\ [SignalNext]_signalVars => [BoardNext]_board
  BY ServiceBoardStep DEF SInv, ServiceInv
<1> QED BY <1>1, <1>2, SignalInvariant, PTL DEF SignalSpec, BoardSpec

(* Handlers, sweepers, histories and what connections hear keep their types. *)
THEOREM SignalTypes == SignalSpec => []SignalTypeOK
<1>1. SInv => SignalTypeOK
  <2> SUFFICES ASSUME IInv, ServiceOK PROVE SignalTypeOK
    BY DEF SInv, ServiceInv
  <2>1. \A h \in Handler : request[h].pc \in
          {"idle", "ring", "tell", "sign", "accepted", "answered", "abort", "aborted"}
    BY DEF ServiceOK, Requests, Idle, Busy
  <2>2. sweep \in [Sweeper -> [due : SUBSET CallID, ended : SUBSET CallID]]
    BY DEF ServiceOK
  <2>3. \A n \in Conn : ToSet(heard[n]) \subseteq Event
    <3> SUFFICES ASSUME NEW n \in Conn, NEW i \in DOMAIN heard[n] PROVE heard[n][i] \in Event
      BY DEF ToSet
    <3>1. heard[n] \in Seq(Event)
      BY DEF ServiceOK
    <3> QED BY <3>1
  <2> QED BY <2>1, <2>2, <2>3 DEF SignalTypeOK, ServiceOK, IInv
<1> QED BY <1>1, SignalInvariant, PTL

(* No two devices are told that a call was both answered and not answered, *)
(* however cancel, reject, timeout and accept race.                        *)
THEOREM SignalOneStory == SignalSpec => []OneStory
<1>1. SInv => OneStory
  <2> SUFFICES ASSUME ServiceInv, NEW c \in CallID, NEW n \in Conn, NEW m \in Conn, NEW op \in Unanswered,
                      Heard(n, "accept", c) \/ Heard(n, "answered", c), Heard(m, op, c)
               PROVE  FALSE
    BY DEF OneStory, SInv, Unanswered
  <2>1. c \in used
    <3>1. PICK i \in DOMAIN heard[m] : heard[m][i] = [op |-> op, call |-> c]
      BY DEF Heard, ToSet
    <3>2. heard[m][i].call \in used
      BY DEF ServiceInv, ServiceOK
    <3> QED BY <3>1, <3>2
  <2>2. (\E by : Did(c, "accept", by)) /\ \E by : Did(c, op, by)
    BY <2>1 DEF ServiceInv, CallInv, Truthful
  <2> QED BY <2>1, <2>2 DEF ServiceInv, CallInv, Fate
<1> QED BY <1>1, SignalInvariant, PTL

LEMMA StepIsDid ==
  ASSUME ServiceOK, NEW c \in used, NEW i \in DOMAIN Steps(c)
  PROVE  Did(c, Steps(c)[i].op, Steps(c)[i].by)
<1>1. Steps(c)[i] \in [op : Op \cup {"expired"}, by : Conn \cup {"none"}]
  <2> DEFINE E == [op : Op \cup {"expired"}, by : Conn \cup {"none"}]
  <2>1. Steps(c) \in Seq(E)
    BY DEF ServiceOK, Stories, Steps
  <2> HIDE DEF E
  <2>2. Steps(c)[i] \in E
    BY <2>1
  <2> QED BY <2>2 DEF E
<1>2. Steps(c)[i] = [op |-> Steps(c)[i].op, by |-> Steps(c)[i].by]
  BY <1>1
<1> QED BY <1>2 DEF Did, Steps

LEMMA RestIsSilent ==
  ASSUME ServiceOK, NEW c, AtRest(c)
  PROVE  (\A h \in Handler : ~On(h, c)) /\ \A s \in Sweeper : c \notin sweep[s].ended
BY DEF AtRest, On, Idle

(* Whoever did not end a call himself is told of its end, on every device, *)
(* unless a failure cut the announcement short.                            *)
THEOREM SignalEndTold == SignalSpec => []EndTold
<1>1. SInv => EndTold
  <2> SUFFICES ASSUME ServiceInv, NEW c \in DOMAIN story, NEW i \in DOMAIN Steps(c), NEW n \in Conn,
                      Settled(c), Steps(c)[i].op \in EndOp, OwnerOf[n] \in Party(c),
                      Steps(c)[i].by # "none" => OwnerOf[n] # OwnerOf[Steps(c)[i].by]
               PROVE  Heard(n, Steps(c)[i].op, c)
    BY DEF SInv, EndTold, EndOp, Party
  <2>1. ServiceOK /\ c \in used /\ EndCovered(c) /\ c \notin cut /\ AtRest(c)
    BY DEF ServiceInv, ServiceOK, CallInv, Settled
  <2>2. Did(c, Steps(c)[i].op, Steps(c)[i].by)
    BY <2>1, StepIsDid
  <2>3. ~WillTellEnd(c, Steps(c)[i].op, Steps(c)[i].by)
    BY <2>1, RestIsSilent DEF WillTellEnd
  <2>4. Must(n, c, Steps(c)[i].by)
    BY DEF Must
  <2> QED BY <2>1, <2>2, <2>3, <2>4 DEF EndCovered
<1> QED BY <1>1, SignalInvariant, PTL

(* An answered call stops ringing on every device of the callee, and the   *)
(* caller learns of the answer or of its failure.                          *)
THEOREM SignalAnswerTold == SignalSpec => []AnswerTold
<1>1. SInv => AnswerTold
  <2> SUFFICES ASSUME ServiceInv, NEW c \in DOMAIN story, NEW i \in DOMAIN Steps(c), NEW n \in Conn,
                      Settled(c), Steps(c)[i].op = "accept"
               PROVE  /\ OwnerOf[n] = story[c].caller => Heard(n, "accept", c) \/ Heard(n, "hangup", c)
                      /\ (OwnerOf[n] = story[c].callee /\ n # Steps(c)[i].by)
                           => Heard(n, "answered", c) \/ Heard(n, "hangup", c)
    BY DEF SInv, AnswerTold
  <2>1. ServiceOK /\ c \in used /\ AnswerCovered(c) /\ c \notin cut /\ AtRest(c)
    BY DEF ServiceInv, ServiceOK, CallInv, Settled
  <2>2. Did(c, "accept", Steps(c)[i].by)
    BY <2>1, StepIsDid
  <2>3. ~WillTellAnswer(c, Steps(c)[i].by)
    BY <2>1, RestIsSilent DEF WillTellAnswer
  <2> QED BY <2>1, <2>2, <2>3 DEF AnswerCovered, CallerTold, CalleeTold
<1> QED BY <1>1, SignalInvariant, PTL

(* No device starts to ring for a call whose end it was already told.      *)
THEOREM SignalRingFirst == SignalSpec => []RingFirst
BY SignalInvariant, PTL DEF SInv, ServiceInv
=============================================================================

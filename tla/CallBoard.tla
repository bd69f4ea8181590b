----------------------------- MODULE CallBoard -----------------------------
(***************************************************************************)
(* pkg/call: the Redis record of one-to-one calls.  Three kinds of keys:   *)
(* the hash of a call, the busy lock of each participant, and the index of *)
(* ringing calls with their deadlines.  Every operation of the board is    *)
(* one Lua script, so one atomic step.  A key with a time to live is       *)
(* present exactly while its remaining time is positive: Tick lowers every *)
(* remaining time by one unit and removes what reached zero.               *)
(***************************************************************************)
EXTENDS Functions

CONSTANTS User,         \* people who call each other
          CallID,       \* call identities (128 random bits: never drawn twice)
          RingWait,     \* how long a call may ring before the sweeper ends it
          RingTTL,      \* time to live of the keys of a ringing call
          AcceptedTTL   \* time to live of the keys of an accepted call

ASSUME Timing ==
  /\ RingWait \in Nat \ {0}
  /\ RingTTL \in Nat
  /\ AcceptedTTL \in Nat \ {0}
  /\ RingWait < RingTTL

VARIABLES hash,      \* Prefix+"id:"+callID   -> the call
          busy,      \* Prefix+"busy:"+userID -> the lock
          ringing,   \* Prefix+"ringing"      -> time left to the deadline
          used       \* identities already drawn

board == <<hash, busy, ringing, used>>

Put(f, k, v) == [x \in DOMAIN f \cup {k} |-> IF x = k THEN v ELSE f[x]]
Drop(f, S) == Restrict(f, DOMAIN f \ S)

Op == {"cancel", "reject", "accept", "hangup", "timeout"}
Hash == [caller : User, callee : User, state : {"ringing", "accepted"}, ttl : Nat \ {0}]
Lock == [call : CallID, ttl : Nat \ {0}]

Parties(c) == {hash[c].caller, hash[c].callee}

Init ==
  /\ hash = <<>>
  /\ busy = <<>>
  /\ ringing = <<>>
  /\ used = {}
-----------------------------------------------------------------------------
(* The scripts.                                                            *)

\* inviteScript when both SET NX succeed.  When the caller's fails nothing is
\* written, and when the callee's fails the caller's fresh lock is deleted in
\* the same script, so neither refusal changes the board.
Invite_IgnoresCalleeLock(u, v, c) ==
  /\ u # v
  /\ c \notin used
  /\ u \notin DOMAIN busy
  /\ hash' = Put(hash, c, [caller |-> u, callee |-> v, state |-> "ringing", ttl |-> RingTTL])
  /\ busy' = Put(Put(busy, u, [call |-> c, ttl |-> RingTTL]), v, [call |-> c, ttl |-> RingTTL])
  /\ ringing' = Put(ringing, c, RingWait)
  /\ used' = used \cup {c}

Invite_SkipsIndex(u, v, c) ==
  /\ u # v
  /\ c \notin used
  /\ {u, v} \cap DOMAIN busy = {}
  /\ hash' = Put(hash, c, [caller |-> u, callee |-> v, state |-> "ringing", ttl |-> RingTTL])
  /\ busy' = Put(Put(busy, u, [call |-> c, ttl |-> RingTTL]), v, [call |-> c, ttl |-> RingTTL])
  /\ used' = used \cup {c}
  /\ UNCHANGED ringing

Invite_LateDeadline(u, v, c) ==
  /\ u # v
  /\ c \notin used
  /\ {u, v} \cap DOMAIN busy = {}
  /\ hash' = Put(hash, c, [caller |-> u, callee |-> v, state |-> "ringing", ttl |-> RingTTL])
  /\ busy' = Put(Put(busy, u, [call |-> c, ttl |-> RingTTL]), v, [call |-> c, ttl |-> RingTTL])
  /\ ringing' = Put(ringing, c, RingTTL)
  /\ used' = used \cup {c}

Invite(u, v, c) ==
  /\ u # v
  /\ c \notin used
  /\ {u, v} \cap DOMAIN busy = {}
  /\ hash' = Put(hash, c, [caller |-> u, callee |-> v, state |-> "ringing", ttl |-> RingTTL])
  /\ busy' = Put(Put(busy, u, [call |-> c, ttl |-> RingTTL]), v, [call |-> c, ttl |-> RingTTL])
  /\ ringing' = Put(ringing, c, RingWait)
  /\ used' = used \cup {c}

\* Who a script lets through, and the state it wants the call in.
Permitted(op, u, c) ==
  CASE op = "cancel"             -> u = hash[c].caller
    [] op \in {"reject", "accept"} -> u = hash[c].callee
    [] op = "hangup"             -> u \in Parties(c)
    [] op = "timeout"            -> TRUE

Wanted_Any(op) == {"ringing", "accepted"}
Wanted(op) == IF op = "hangup" THEN {"accepted"} ELSE {"ringing"}

\* The first field a script returns.
Reply(op, u, c) ==
  CASE c \notin DOMAIN hash            -> "missing"
    [] c \in DOMAIN hash /\ ~Permitted(op, u, c) -> "forbidden"
    [] c \in DOMAIN hash /\ Permitted(op, u, c) /\ hash[c].state \notin Wanted(op) -> "state"
    [] OTHER                           -> "ok"

\* acceptScript: the call and both locks get the longer time to live.  EXPIRE
\* touches a lock only if it exists, whatever call it names.
Answer(c) ==
  /\ hash' = [hash EXCEPT ![c].state = "accepted", ![c].ttl = AcceptedTTL]
  /\ busy' = [u \in DOMAIN busy |->
                IF u \in Parties(c) THEN [busy[u] EXCEPT !.ttl = AcceptedTTL] ELSE busy[u]]
  /\ ringing' = Drop(ringing, {c})

\* endScript, rejectScript, timeoutScript and hangupScript: the hash and both
\* locks are deleted without looking at the call the locks name.  hangupScript
\* leaves the index alone: an accepted call is not in it.
Finish_KeepsCallerLock(op, c) ==
  /\ hash' = Drop(hash, {c})
  /\ busy' = Drop(busy, {hash[c].callee})
  /\ ringing' = IF op = "hangup" THEN ringing ELSE Drop(ringing, {c})

Finish(op, c) ==
  /\ hash' = Drop(hash, {c})
  /\ busy' = Drop(busy, Parties(c))
  /\ ringing' = IF op = "hangup" THEN ringing ELSE Drop(ringing, {c})

\* A script that finds the call gone takes it out of the index (hangupScript
\* does not), and so does timeoutScript when the call has left ringing.
Unindex(c) ==
  /\ ringing' = Drop(ringing, {c})
  /\ UNCHANGED <<hash, busy>>

RunScript(op, u, c) ==
  /\ UNCHANGED used
  /\ \/ /\ Reply(op, u, c) = "ok" /\ op = "accept"
        /\ Answer(c)
     \/ /\ Reply(op, u, c) = "ok" /\ op # "accept"
        /\ Finish(op, c)
     \/ /\ \/ Reply(op, u, c) = "missing" /\ op # "hangup"
           \/ Reply(op, u, c) = "state" /\ op = "timeout"
        /\ Unindex(c)
     \/ /\ \/ Reply(op, u, c) = "forbidden"
           \/ Reply(op, u, c) = "missing" /\ op = "hangup"
           \/ Reply(op, u, c) = "state" /\ op # "timeout"
        /\ UNCHANGED <<hash, busy, ringing>>

\* One unit of time.
Age(f) == [k \in {j \in DOMAIN f : f[j].ttl > 1} |-> [f[k] EXCEPT !.ttl = @ - 1]]

Tick ==
  /\ hash' = Age(hash)
  /\ busy' = Age(busy)
  /\ ringing' = [c \in DOMAIN ringing |-> IF ringing[c] = 0 THEN 0 ELSE ringing[c] - 1]
  /\ UNCHANGED used

BoardNext ==
  \/ \E u, v \in User, c \in CallID : Invite(u, v, c)
  \/ \E op \in Op, u \in User, c \in CallID : RunScript(op, u, c)
  \/ Tick

BoardSpec == Init /\ [][BoardNext]_board

\* Redis expires keys by itself.
TimedSpec == BoardSpec /\ WF_board(Tick)
-----------------------------------------------------------------------------
(* Properties.                                                             *)

(* The keys hold what the scripts write: no key outlives its time, no ringing *)
(* call was given a later deadline than RingWait, no hash without a drawn id. *)
TypeOK ==
  /\ DOMAIN hash \subseteq CallID /\ hash \in [DOMAIN hash -> Hash]
  /\ DOMAIN busy \subseteq User /\ busy \in [DOMAIN busy -> Lock]
  /\ DOMAIN ringing \subseteq CallID /\ ringing \in [DOMAIN ringing -> 0..RingWait]
  /\ used \subseteq CallID
  /\ DOMAIN hash \subseteq used

(* The locks and the calls agree, to the remaining second: a live call     *)
(* locks both its participants, and a lock names a live call of its user.  *)
(* The scripts delete locks without comparing their value, so this is what *)
(* keeps one call from releasing the users of another.                     *)
LockAgreement ==
  /\ \A c \in DOMAIN hash :
       /\ hash[c].caller # hash[c].callee
       /\ \A u \in Parties(c) :
            /\ u \in DOMAIN busy
            /\ busy[u] = [call |-> c, ttl |-> hash[c].ttl]
  /\ \A u \in DOMAIN busy :
       /\ busy[u].call \in DOMAIN hash
       /\ u \in Parties(busy[u].call)

(* The sweeper can see every ringing call, and its deadline comes before   *)
(* the keys expire; an accepted call is out of the sweeper's reach.        *)
RingingIndexed ==
  /\ \A c \in DOMAIN hash :
       IF hash[c].state = "ringing"
       THEN c \in DOMAIN ringing /\ ringing[c] < hash[c].ttl
       ELSE c \notin DOMAIN ringing
  /\ DOMAIN ringing \subseteq used

\* What the keys say of each call, in the terms of the registry.
Registry == INSTANCE CallRegistry WITH
  phase <- [c \in CallID |-> IF c \in DOMAIN hash THEN hash[c].state
                             ELSE IF c \in used THEN "over" ELSE "new"],
  who <- [c \in CallID |-> IF c \in DOMAIN hash THEN Parties(c) ELSE {}]

(* The board implements the registry: every script, and keys that expire at  *)
(* any moment, keep a person in at most one open call, answered at most once *)
(* and never opened again (call.go:103-218).                                 *)
ExclusiveCalls == Registry!Spec

(* Whatever the service does or fails to do, nobody stays busy with the     *)
(* same call for ever: crashed requests and sweepers cannot wedge a user.   *)
LocksExpire ==
  \A u \in User, c \in CallID :
    (u \in DOMAIN busy /\ busy[u].call = c) ~> ~(u \in DOMAIN busy /\ busy[u].call = c)
=============================================================================

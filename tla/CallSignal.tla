----------------------------- MODULE CallSignal -----------------------------
(***************************************************************************)
(* The rtc service: what it does between the scripts of the call board and *)
(* the events the gateways push to the connections of a user.  A request   *)
(* runs one script, then publishes; the sweeper lists the overdue calls,   *)
(* ends them one by one, then publishes.  Requests of several connections, *)
(* of several replicas and their sweepers interleave between those steps.  *)
(***************************************************************************)
EXTENDS CallBoard, SequencesExt, FiniteSetsExt

CONSTANTS Conn,         \* websocket connections
          OwnerOf,      \* the user of each connection
          Handler,      \* requests the service can be serving at once
          Sweeper,      \* one per replica of the service
          ExpireBatch,  \* overdue calls one round of the sweeper takes
          Faults,       \* what may fail: a script ("redis"), its reply ("reply"),
                        \* "publish", "sign", "crash"
          MaxCut        \* bound: calls that failures may cut short

ASSUME ConnAssumption == OwnerOf \in [Conn -> User]
\* "none" stands for the sweeper, and for a publication that skips no connection.
ASSUME NobodyAssumption == "none" \notin Conn
ASSUME FaultAssumption == Faults \subseteq {"redis", "reply", "publish", "sign", "crash"}

\* A request is given up after two seconds, and a unit of time is longer: no
\* request outlives RingWait.
ASSUME RequestTimeout == 1 < RingWait

VARIABLES request,  \* what each handler is doing
          sweep,    \* what each sweeper is doing
          heard,    \* events each connection received, in order
          story,    \* history: participants of a call and what happened to it
          cut       \* history: calls whose announcement a failure cut short

service == <<request, sweep, heard, story, cut>>
signalVars == <<board, service>>

Event == [op : Op \cup {"ring", "answered"}, call : CallID]
Idle == [pc |-> "idle"]
NoSweep == [due |-> {}, ended |-> {}]

SignalInit ==
  /\ Init
  /\ request = [h \in Handler |-> Idle]
  /\ sweep = [s \in Sweeper |-> NoSweep]
  /\ heard = [n \in Conn |-> <<>>]
  /\ story = <<>>
  /\ cut = {}
-----------------------------------------------------------------------------
Peer(u, c) == IF u = story[c].caller THEN story[c].callee ELSE story[c].caller

Cut(S) ==
  /\ Cardinality(cut \cup S) <= MaxCut
  /\ cut' = cut \cup S

\* Board.Publish, Subscribe and the gateways' delivery: every connection of
\* the named users except one.
Publish(users, except, op, c) ==
  heard' = [n \in Conn |-> IF OwnerOf[n] \in users /\ n # except
                           THEN Append(heard[n], [op |-> op, call |-> c])
                           ELSE heard[n]]

\* Service.publish logs an error and goes on.
Announce(users, except, op, c) ==
  \/ Publish(users, except, op, c) /\ UNCHANGED cut
  \/ "publish" \in Faults /\ Cut({c}) /\ UNCHANGED heard

Note(c, op, n) == story' = [story EXCEPT ![c].steps = Append(@, [op |-> op, by |-> n])]

Go(h, pc) == request' = [request EXCEPT ![h].pc = pc]
Done(h) == request' = [request EXCEPT ![h] = Idle]

Heard(n, op, c) == [op |-> op, call |-> c] \in ToSet(heard[n])

\* A call is known to its caller from the reply to the invitation and to its
\* callee from the ring.
Knows(n, c) ==
  /\ c \in DOMAIN story
  /\ \/ OwnerOf[n] = story[c].caller /\ story[c].replied
     \/ \E m \in Conn : OwnerOf[m] = OwnerOf[n] /\ Heard(m, "ring", c)
-----------------------------------------------------------------------------
(* Requests.                                                               *)

\* The caller gets the identity of the call before the ring is out.
StartInvite_RepliesFirst(h, n, v, c) ==
  /\ request[h] = Idle
  /\ Invite(OwnerOf[n], v, c)
  /\ story' = Put(story, c, [caller |-> OwnerOf[n], callee |-> v, replied |-> TRUE, steps |-> <<>>])
  /\ request' = [request EXCEPT ![h] =
       [pc |-> "ring", op |-> "invite", conn |-> n, call |-> c, late |-> FALSE]]
  /\ UNCHANGED <<sweep, heard, cut>>

\* invite up to the reply of the script.
StartInvite(h, n, v, c) ==
  /\ request[h] = Idle
  /\ Invite(OwnerOf[n], v, c)
  /\ story' = Put(story, c, [caller |-> OwnerOf[n], callee |-> v, replied |-> FALSE, steps |-> <<>>])
  /\ request' = [request EXCEPT ![h] =
       [pc |-> "ring", op |-> "invite", conn |-> n, call |-> c, late |-> FALSE]]
  /\ UNCHANGED <<sweep, heard, cut>>

Ring(h) ==
  LET c == request[h].call IN
  /\ request[h].pc = "ring"
  /\ Announce({story[c].callee}, "none", "ring", c)
  /\ story' = [story EXCEPT ![c].replied = TRUE]
  /\ Done(h)
  /\ UNCHANGED <<board, sweep>>

\* end and accept up to the reply of the script.  A refused script and one
\* whose error reaches the service end the request; with a lost reply the
\* board has changed nevertheless.
StartScript(h, n, op, c) ==
  /\ op \in {"cancel", "reject", "accept", "hangup"}
  /\ request[h] = Idle
  /\ Knows(n, c)
  /\ Reply(op, OwnerOf[n], c) = "ok"
  /\ RunScript(op, OwnerOf[n], c)
  /\ Note(c, op, n)
  /\ \/ /\ request' = [request EXCEPT ![h] =
             [pc |-> IF op = "accept" THEN "sign" ELSE "tell",
              op |-> op, conn |-> n, call |-> c, late |-> FALSE]]
        /\ UNCHANGED cut
     \/ /\ "reply" \in Faults
        /\ Cut({c})
        /\ UNCHANGED request
  /\ UNCHANGED <<sweep, heard>>

\* A script that refuses changes the board in one case only: the keys of the
\* call have expired, and its entry is still in the index.
RefusedScript(n, op, c) ==
  /\ op \in {"cancel", "reject", "accept"}
  /\ c \in DOMAIN ringing
  /\ Knows(n, c)
  /\ Reply(op, OwnerOf[n], c) = "missing"
  /\ RunScript(op, OwnerOf[n], c)
  /\ UNCHANGED service

TellPeer(h) ==
  LET r == request[h] IN
  /\ r.pc = "tell"
  /\ Announce({Peer(OwnerOf[r.conn], r.call)}, "none", r.op, r.call)
  /\ Done(h)
  /\ UNCHANGED <<board, sweep, story>>

Sign(h) ==
  /\ request[h].pc = "sign"
  /\ \/ Go(h, "accepted")
     \/ "sign" \in Faults /\ Go(h, "abort")
  /\ UNCHANGED <<board, sweep, heard, story, cut>>

TellAccept(h) ==
  LET c == request[h].call IN
  /\ request[h].pc = "accepted"
  /\ Announce({story[c].caller}, "none", "accept", c)
  /\ Go(h, "answered")
  /\ UNCHANGED <<board, sweep, story>>

TellAnswered_Caller(h) ==
  LET c == request[h].call IN
  /\ request[h].pc = "answered"
  /\ Announce({story[c].caller}, request[h].conn, "answered", c)
  /\ Done(h)
  /\ UNCHANGED <<board, sweep, story>>

TellAnswered(h) ==
  LET c == request[h].call IN
  /\ request[h].pc = "answered"
  /\ Announce({story[c].callee}, request[h].conn, "answered", c)
  /\ Done(h)
  /\ UNCHANGED <<board, sweep, story>>

\* abort publishes whatever became of its hangup.
AbortHangup(h) ==
  LET r == request[h]
      u == OwnerOf[r.conn]
  IN
  /\ r.pc = "abort"
  /\ Go(h, "aborted")
  /\ \/ /\ RunScript("hangup", u, r.call)
        /\ IF Reply("hangup", u, r.call) = "ok" THEN Note(r.call, "hangup", "none") ELSE UNCHANGED story
     \/ "redis" \in Faults /\ UNCHANGED <<board, story>>
  /\ UNCHANGED <<sweep, heard, cut>>

TellAbort_Unknown(h) ==
  LET c == request[h].call IN
  /\ request[h].pc = "aborted"
  /\ Announce({story[c].caller, story[c].callee}, "none", "abort", c)
  /\ Done(h)
  /\ UNCHANGED <<board, sweep, story>>

TellAbort(h) ==
  LET c == request[h].call IN
  /\ request[h].pc = "aborted"
  /\ Announce({story[c].caller, story[c].callee}, "none", "hangup", c)
  /\ Done(h)
  /\ UNCHANGED <<board, sweep, story>>
-----------------------------------------------------------------------------
(* The sweeper.                                                            *)

Overdue == {c \in DOMAIN ringing : ringing[c] = 0}

\* ZRANGEBYSCORE ... LIMIT.
ListOverdue(s) ==
  /\ sweep[s] = NoSweep
  /\ Overdue # {}
  /\ \E D \in SUBSET Overdue :
       /\ Cardinality(D) = IF Cardinality(Overdue) < ExpireBatch THEN Cardinality(Overdue) ELSE ExpireBatch
       /\ sweep' = [sweep EXCEPT ![s].due = D]
  /\ UNCHANGED <<board, request, heard, story, cut>>

\* One turn of the loop of Expire: a call another actor ended first is passed over.
EndOverdue(s, c) ==
  /\ c \in sweep[s].due
  /\ RunScript("timeout", "none", c)
  /\ IF Reply("timeout", "none", c) = "ok"
     THEN /\ sweep' = [sweep EXCEPT ![s] = [due |-> @.due \ {c}, ended |-> @.ended \cup {c}]]
          /\ Note(c, "timeout", "none")
     ELSE /\ sweep' = [sweep EXCEPT ![s].due = @ \ {c}]
          /\ UNCHANGED story
  /\ UNCHANGED <<request, heard, cut>>

\* A Redis error leaves the loop of Expire, and Sweep skips the publications
\* of the whole round, those of the calls already ended included.  If only the
\* reply was lost, the call at hand has ended too.
SweepError(s) ==
  /\ sweep[s].due # {}
  /\ sweep' = [sweep EXCEPT ![s] = NoSweep]
  /\ \/ "redis" \in Faults /\ Cut(sweep[s].ended) /\ UNCHANGED <<board, story>>
     \/ \E c \in sweep[s].due :
          /\ "reply" \in Faults
          /\ Reply("timeout", "none", c) = "ok"
          /\ RunScript("timeout", "none", c)
          /\ Note(c, "timeout", "none")
          /\ Cut(sweep[s].ended \cup {c})
  /\ UNCHANGED <<request, heard>>

TellTimeout_Callee(s, c) ==
  /\ sweep[s].due = {}
  /\ c \in sweep[s].ended
  /\ Announce({story[c].callee}, "none", "timeout", c)
  /\ sweep' = [sweep EXCEPT ![s].ended = @ \ {c}]
  /\ UNCHANGED <<board, request, story>>

TellTimeout(s, c) ==
  /\ sweep[s].due = {}
  /\ c \in sweep[s].ended
  /\ Announce({story[c].caller, story[c].callee}, "none", "timeout", c)
  /\ sweep' = [sweep EXCEPT ![s].ended = @ \ {c}]
  /\ UNCHANGED <<board, request, story>>
-----------------------------------------------------------------------------
(* Time and crashes.                                                       *)

Expiring == {c \in DOMAIN hash : hash[c].ttl = 1}

Clock ==
  /\ \A h \in Handler : request[h] # Idle => ~request[h].late
  /\ Tick
  /\ request' = [h \in Handler |-> IF request[h] = Idle THEN Idle ELSE [request[h] EXCEPT !.late = TRUE]]
  /\ story' = [c \in DOMAIN story |->
                 IF c \in Expiring
                 THEN [story[c] EXCEPT !.steps = Append(@, [op |-> "expired", by |-> "none"])]
                 ELSE story[c]]
  /\ UNCHANGED <<sweep, heard, cut>>

\* The process dies, or the deadline of the request passes.
CrashRequest(h) ==
  /\ "crash" \in Faults
  /\ request[h] # Idle
  /\ Cut({request[h].call})
  /\ Done(h)
  /\ UNCHANGED <<board, sweep, heard, story>>

CrashSweeper(s) ==
  /\ "crash" \in Faults
  /\ sweep[s] # NoSweep
  /\ Cut(sweep[s].ended)
  /\ sweep' = [sweep EXCEPT ![s] = NoSweep]
  /\ UNCHANGED <<board, request, heard, story>>

SignalNext ==
  \/ \E h \in Handler, n \in Conn, v \in User, c \in CallID : StartInvite(h, n, v, c)
  \/ \E h \in Handler, n \in Conn, op \in Op, c \in CallID : StartScript(h, n, op, c)
  \/ \E n \in Conn, op \in Op, c \in CallID : RefusedScript(n, op, c)
  \/ \E h \in Handler : Ring(h)
  \/ \E h \in Handler : TellPeer(h)
  \/ \E h \in Handler : Sign(h)
  \/ \E h \in Handler : TellAccept(h)
  \/ \E h \in Handler : TellAnswered(h)
  \/ \E h \in Handler : AbortHangup(h)
  \/ \E h \in Handler : TellAbort(h)
  \/ \E s \in Sweeper : ListOverdue(s)
  \/ \E s \in Sweeper, c \in CallID : EndOverdue(s, c)
  \/ \E s \in Sweeper : SweepError(s)
  \/ \E s \in Sweeper, c \in CallID : TellTimeout(s, c)
  \/ Clock
  \/ \E h \in Handler : CrashRequest(h)
  \/ \E s \in Sweeper : CrashSweeper(s)

SignalSpec == SignalInit /\ [][SignalNext]_signalVars
-----------------------------------------------------------------------------
(* Properties.                                                             *)

(* Handlers and sweepers are at known steps, connections hear only events of *)
(* the service (call.go:65), and the history is about calls that were placed. *)
SignalTypeOK ==
  /\ TypeOK
  /\ DOMAIN request = Handler
  /\ \A h \in Handler : request[h].pc \in
       {"idle", "ring", "tell", "sign", "accepted", "answered", "abort", "aborted"}
  /\ sweep \in [Sweeper -> [due : SUBSET CallID, ended : SUBSET CallID]]
  /\ \A n \in Conn : ToSet(heard[n]) \subseteq Event
  /\ DOMAIN story = used
  /\ cut \subseteq used

(* Cancelling, rejecting, timing out and accepting race for a ringing call *)
(* and exactly one wins: no two connections are told that it was both      *)
(* answered and not answered.                                              *)
OneStory ==
  \A c \in CallID :
    ~ /\ \E n \in Conn : Heard(n, "accept", c) \/ Heard(n, "answered", c)
      /\ \E n \in Conn, op \in {"cancel", "reject", "timeout"} : Heard(n, op, c)

Steps(c) == story[c].steps
Happened(c, op) == \E i \in DOMAIN Steps(c) : Steps(c)[i].op = op
AtRest(c) ==
  /\ \A h \in Handler : request[h] # Idle => request[h].call # c
  /\ \A s \in Sweeper : c \notin sweep[s].ended
Settled(c) == c \notin cut /\ AtRest(c)

(* When nothing failed, everybody who did not end a call himself has been  *)
(* told of its end, on every device, once the service is done with it.     *)
EndTold ==
  \A c \in DOMAIN story : \A i \in DOMAIN Steps(c), n \in Conn :
    LET e == Steps(c)[i] IN
    (/\ Settled(c)
     /\ e.op \in {"cancel", "reject", "hangup", "timeout"}
     /\ OwnerOf[n] \in {story[c].caller, story[c].callee}
     /\ e.by # "none" => OwnerOf[n] # OwnerOf[e.by])
      => Heard(n, e.op, c)

(* An answered call stops ringing on every device of the callee and the    *)
(* caller learns of the answer, or of the hangup of an aborted answer.     *)
AnswerTold ==
  \A c \in DOMAIN story : \A i \in DOMAIN Steps(c), n \in Conn :
    (Settled(c) /\ Steps(c)[i].op = "accept") =>
      /\ OwnerOf[n] = story[c].caller => Heard(n, "accept", c) \/ Heard(n, "hangup", c)
      /\ (OwnerOf[n] = story[c].callee /\ n # Steps(c)[i].by)
           => Heard(n, "answered", c) \/ Heard(n, "hangup", c)

(* The first thing a callee's connection hears of a call is the ring: no   *)
(* device starts to ring for a call whose end it was already told.         *)
RingFirst ==
  \A n \in Conn : \A i, j \in DOMAIN heard[n] :
    (/\ heard[n][i].call = heard[n][j].call
     /\ heard[n][j].op = "ring")
      => i >= j

(* rtc/internal/logic/signal.go:82 says of Sweep that it "ends ringing     *)
(* calls that nobody answered and tells both people".                      *)
SweepTellsBoth ==
  \A c \in DOMAIN story : \A n \in Conn :
    (AtRest(c) /\ Happened(c, "timeout") /\ OwnerOf[n] \in {story[c].caller, story[c].callee})
      => Heard(n, "timeout", c)

=============================================================================

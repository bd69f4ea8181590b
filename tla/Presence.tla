------------------------------ MODULE Presence ------------------------------
(***************************************************************************)
(* The connections of the websocket gateways and who is shown online.      *)
(* Each gateway keeps its connections in a hub behind a lock and reports   *)
(* to Redis outside it; changes are published to all gateways, and each    *)
(* puts back what it still has (keepLocal).  Handshakes, closes, the       *)
(* subscriber, the renewal and the shutdown are goroutines of their own,   *)
(* and every call to Redis they make is two steps: the script, PUBLISH.    *)
(***************************************************************************)
EXTENDS OnlineStatus, FiniteSets, Sequences, Functions

CONSTANTS Gateway, User, Platform,
          Client,      \* connections, each dialled at most once
          Login,       \* gateway, user and platform of each connection
          Rounds,      \* renewal periods in an expiry: Expire / (Expire / 3)
          MaxConn,     \* connections a gateway takes
          Stops,       \* how gateways stop: "shutdown", "crash"
          MaxLosses    \* bound: scripts, publications and messages that fail

ASSUME LoginAssumption == Login \in [Client -> [home : Gateway, user : User, platform : Platform]]
ASSUME RoundsAssumption == Rounds \in Nat /\ Rounds > 1
ASSUME BoundAssumption == MaxConn \in Nat /\ MaxLosses \in Nat
ASSUME StopAssumption == Stops \subseteq {"shutdown", "crash"}

VARIABLES online,    \* Redis: the sorted set of each user
          inbox,     \* published changes each gateway has yet to handle
          call,      \* the Status.Set each goroutine is in
          phase,     \* "up", "draining", "dropping" or "down" of each gateway
          due,       \* gateways whose renewal ticker has fired
          todo,      \* users a renewal, or rows DropOnline, has yet to do
          listed,    \* the hubs: connections a gateway knows of
          dial,      \* where the handshake of each connection is
          olds,      \* connections a handshake has yet to close
          ending,    \* where the close of each connection is, and who runs it
          reading,   \* connections whose read loop runs
          losses     \* history: failures, counted for each goroutine

redis == <<online, inbox, call, losses>>
gateway == <<phase, due, todo>>
connection == <<listed, dial, olds, ending, reading>>
vars == <<redis, gateway, connection>>

Home(c) == Login[c].home
Slot(c) == {o \in Client : Login[o] = Login[c]}
HubOf(g) == {c \in listed : Home(c) = g}

\* Hub.Platforms.
Platforms(g, u) == {Login[c].platform : c \in {d \in HubOf(g) : Login[d].user = u}}

\* The goroutines that call Status.Set.
Process == ({"dial", "close"} \X Client) \cup ({"subscriber", "renewal", "drop"} \X Gateway)
HomeOf(x) == IF x[1] \in {"dial", "close"} THEN Home(x[2]) ELSE x[2]
NoCall == [pc |-> "none"]
Free(x) == call[x] = NoCall
Report(x, u, on, off) ==
  call' = [call EXCEPT ![x] = [pc |-> "script", user |-> u, on |-> on, off |-> off]]

Open == [pc |-> "open", by |-> "none"]
CloseAt(c, pc) == ending' = [ending EXCEPT ![c].pc = pc]

Init ==
  /\ online = [u \in User |-> NoPlatform]
  /\ inbox = [g \in Gateway |-> <<>>]
  /\ call = [x \in Process |-> NoCall]
  /\ phase = [g \in Gateway |-> "up"]
  /\ due = {}
  /\ todo = [g \in Gateway |-> {}]
  /\ listed = {} /\ reading = {}
  /\ dial = [c \in Client |-> "new"]
  /\ olds = [c \in Client |-> {}]
  /\ ending = [c \in Client |-> Open]
  /\ losses = [x \in Process |-> 0]
-----------------------------------------------------------------------------
(* Status.Set.                                                             *)

Failures == FoldFunction(+, 0, losses)
Lose(x) == Failures < MaxLosses /\ losses' = [losses EXCEPT ![x] = @ + 1]

ApplyScript(c) == online' = [online EXCEPT ![c.user] = SetScript(@, c.on, c.off, Rounds)]

RunScript(x) ==
  LET c == call[x] IN
  /\ c.pc = "script"
  /\ ApplyScript(c)
  /\ call' = [call EXCEPT ![x] =
       IF Changed(online[c.user], c.on, c.off)
       THEN [pc |-> "publish", user |-> c.user, ids |-> DOMAIN online'[c.user]]
       ELSE NoCall]
  /\ UNCHANGED <<inbox, losses, gateway, connection>>

\* An error or the two seconds of report: Redis may have run the script.
FailScript(x) ==
  /\ call[x].pc = "script"
  /\ Lose(x)
  /\ ApplyScript(call[x]) \/ UNCHANGED online
  /\ call' = [call EXCEPT ![x] = NoCall]
  /\ UNCHANGED <<inbox, gateway, connection>>

PublishChange(x) ==
  /\ call[x].pc = "publish"
  /\ inbox' = [g \in Gateway |->
       IF phase[g] = "up" THEN Append(inbox[g], [user |-> call[x].user, ids |-> call[x].ids])
       ELSE inbox[g]]
  /\ call' = [call EXCEPT ![x] = NoCall]
  /\ UNCHANGED <<online, losses, gateway, connection>>

FailPublish(x) ==
  /\ call[x].pc = "publish"
  /\ Lose(x)
  /\ call' = [call EXCEPT ![x] = NoCall]
  /\ UNCHANGED <<online, inbox, gateway, connection>>
-----------------------------------------------------------------------------
(* Server.ServeHTTP.                                                       *)

\* The limit is checked, then the token, then the socket is upgraded.
CheckLimit(c) ==
  /\ dial[c] = "new"
  /\ phase[Home(c)] = "up"
  /\ dial' = [dial EXCEPT ![c] =
       IF Cardinality(HubOf(Home(c))) >= MaxConn THEN "refused" ELSE "checked"]
  /\ UNCHANGED <<redis, gateway, listed, olds, ending, reading>>

RefuseDial(c) ==
  /\ dial[c] = "checked"
  /\ dial' = [dial EXCEPT ![c] = "refused"]
  /\ UNCHANGED <<redis, gateway, listed, olds, ending, reading>>

\* An Add that forgets to return what it replaced.
AddToHub_KeepsOld(c) ==
  /\ dial[c] = "checked"
  /\ listed' = (listed \ Slot(c)) \cup {c}
  /\ dial' = [dial EXCEPT ![c] = "replacing"]
  /\ UNCHANGED <<redis, gateway, olds, ending, reading>>

\* Hub.Add takes the place of older connections and returns them.
AddToHub(c) ==
  /\ dial[c] = "checked"
  /\ listed' = (listed \ Slot(c)) \cup {c}
  /\ olds' = [olds EXCEPT ![c] = listed \cap Slot(c)]
  /\ dial' = [dial EXCEPT ![c] = "replacing"]
  /\ UNCHANGED <<redis, gateway, ending, reading>>

\* close of an older connection, after a kick if its token is another one; a
\* close somebody else has begun returns at once.
CloseOld(c, o) ==
  /\ dial[c] = "replacing" /\ o \in olds[c]
  /\ ending[o] = Open
  /\ ending' = [ending EXCEPT ![o] = [pc |-> "won", by |-> c]]
  /\ UNCHANGED <<redis, gateway, listed, dial, olds, reading>>

NextOld(c, o) ==
  /\ dial[c] = "replacing" /\ o \in olds[c]
  /\ ending[o] # Open
  /\ ending[o].by = c => ending[o].pc = "gone"
  /\ olds' = [olds EXCEPT ![c] = @ \ {o}]
  /\ UNCHANGED <<redis, gateway, listed, dial, ending, reading>>

\* The read loop starts, then the connection is reported.
Serve(c) ==
  /\ dial[c] = "replacing" /\ olds[c] = {}
  /\ dial' = [dial EXCEPT ![c] = "served"]
  /\ reading' = reading \cup {c}
  /\ Report(<<"dial", c>>, Login[c].user, {Login[c].platform}, {})
  /\ UNCHANGED <<online, inbox, losses, gateway, listed, olds, ending>>
-----------------------------------------------------------------------------
(* Client.readLoop and Client.close.                                       *)

\* The peer leaves, stays silent or sends what cannot be decoded.
EndReading(c) ==
  /\ c \in reading
  /\ reading' = reading \ {c}
  /\ ending' = [ending EXCEPT ![c] = IF @ = Open THEN [pc |-> "won", by |-> c] ELSE @]
  /\ UNCHANGED <<redis, gateway, listed, dial, olds>>

\* A close that only marks the connection.
RemoveFromHub_Skipped(c) ==
  /\ ending[c].pc = "won"
  /\ CloseAt(c, "removed")
  /\ UNCHANGED <<redis, gateway, listed, dial, olds, reading>>

RemoveFromHub(c) ==
  /\ ending[c].pc = "won"
  /\ listed' = listed \ {c}
  /\ CloseAt(c, "removed")
  /\ UNCHANGED <<redis, gateway, dial, olds, reading>>

\* stillLocal, under the lock again, decides whether the platform is reported.
ReportOffline(c) ==
  /\ ending[c].pc = "removed"
  /\ IF Login[c].platform \in Platforms(Home(c), Login[c].user)
     THEN UNCHANGED call
     ELSE Report(<<"close", c>>, Login[c].user, {}, {Login[c].platform})
  /\ CloseAt(c, "reported")
  /\ UNCHANGED <<online, inbox, losses, gateway, listed, dial, olds, reading>>

CloseConn(c) ==
  /\ ending[c].pc = "reported"
  /\ Free(<<"close", c>>)
  /\ CloseAt(c, "gone")
  /\ UNCHANGED <<redis, gateway, listed, dial, olds, reading>>
-----------------------------------------------------------------------------
(* Server.WatchOnline: one published change after another.                 *)

\* A subscriber that only tells the watchers.
HandleChange_PushesOnly(g) ==
  /\ phase[g] = "up" /\ inbox[g] # <<>>
  /\ Free(<<"subscriber", g>>)
  /\ inbox' = [inbox EXCEPT ![g] = Tail(@)]
  /\ UNCHANGED <<online, call, losses, gateway, connection>>

\* keepLocal puts back the platforms the change does not name and the hub has.
HandleChange(g) ==
  LET m == Head(inbox[g])
      missing == Platforms(g, m.user) \ m.ids
  IN
  /\ phase[g] = "up" /\ inbox[g] # <<>>
  /\ Free(<<"subscriber", g>>)
  /\ inbox' = [inbox EXCEPT ![g] = Tail(@)]
  /\ IF missing = {} THEN UNCHANGED call
     ELSE Report(<<"subscriber", g>>, m.user, missing, {})
  /\ UNCHANGED <<online, losses, gateway, connection>>

\* Pub/sub delivers at most once: a subscription that is being renewed hears nothing.
LoseChange(g) ==
  /\ inbox[g] # <<>>
  /\ Lose(<<"subscriber", g>>)
  /\ inbox' = [inbox EXCEPT ![g] = Tail(@)]
  /\ UNCHANGED <<online, call, gateway, connection>>
-----------------------------------------------------------------------------
(* Server.RenewOnline.                                                     *)

\* Hub.Snapshot names the users to renew.
StartRenewal(g) ==
  /\ phase[g] = "up" /\ g \in due
  /\ due' = due \ {g}
  /\ todo' = [todo EXCEPT ![g] = {Login[c].user : c \in HubOf(g)}]
  /\ UNCHANGED <<redis, phase, connection>>

\* A renewal of what Redis still shows.
RenewUser_ShownOnly(g, u) ==
  /\ phase[g] = "up" /\ u \in todo[g]
  /\ Free(<<"renewal", g>>)
  /\ todo' = [todo EXCEPT ![g] = @ \ {u}]
  /\ LET ids == Platforms(g, u) \cap Shown(online[u]) IN
     IF ids = {} THEN UNCHANGED call ELSE Report(<<"renewal", g>>, u, ids, {})
  /\ UNCHANGED <<online, inbox, losses, phase, due, connection>>

\* The platforms of a user are read from the hub again.
RenewUser(g, u) ==
  /\ phase[g] = "up" /\ u \in todo[g]
  /\ Free(<<"renewal", g>>)
  /\ todo' = [todo EXCEPT ![g] = @ \ {u}]
  /\ IF Platforms(g, u) = {} THEN UNCHANGED call
     ELSE Report(<<"renewal", g>>, u, Platforms(g, u), {})
  /\ UNCHANGED <<online, inbox, losses, phase, due, connection>>
-----------------------------------------------------------------------------
(* The end of a gateway.                                                   *)

\* A signal: the subscriber and the renewal end, the listener is closed.  A
\* renewal cut short by its context is FailScript or FailPublish.
Shutdown(g) ==
  /\ "shutdown" \in Stops
  /\ phase[g] = "up"
  /\ phase' = [phase EXCEPT ![g] = "draining"]
  /\ due' = due \ {g}
  /\ todo' = [todo EXCEPT ![g] = {}]
  /\ inbox' = [inbox EXCEPT ![g] = <<>>]
  /\ UNCHANGED <<online, call, losses, connection>>

\* Server.DropOnline takes back every platform of a snapshot of the hub.
StartDrop(g) ==
  /\ phase[g] = "draining"
  /\ phase' = [phase EXCEPT ![g] = "dropping"]
  /\ todo' = [todo EXCEPT ![g] =
       {[user |-> Login[c].user, ids |-> Platforms(g, Login[c].user)] : c \in HubOf(g)}]
  /\ UNCHANGED <<redis, due, connection>>

DropUser(g, row) ==
  /\ phase[g] = "dropping" /\ row \in todo[g]
  /\ Free(<<"drop", g>>)
  /\ todo' = [todo EXCEPT ![g] = @ \ {row}]
  /\ Report(<<"drop", g>>, row.user, {}, row.ids)
  /\ UNCHANGED <<online, inbox, losses, phase, due, connection>>

\* The process ends: its goroutines and sockets are gone.  A call it was in is
\* lost, perhaps between the script and PUBLISH.
Die(g) ==
  /\ phase' = [phase EXCEPT ![g] = "down"]
  /\ due' = due \ {g}
  /\ todo' = [todo EXCEPT ![g] = {}]
  /\ inbox' = [inbox EXCEPT ![g] = <<>>]
  /\ call' = [x \in Process |-> IF HomeOf(x) = g THEN NoCall ELSE call[x]]
  /\ listed' = listed \ HubOf(g)
  /\ reading' = {c \in reading : Home(c) # g}
  /\ dial' = [c \in Client |-> IF Home(c) = g THEN "refused" ELSE dial[c]]
  /\ olds' = [c \in Client |-> IF Home(c) = g THEN {} ELSE olds[c]]
  /\ ending' = [c \in Client |-> IF Home(c) = g THEN [pc |-> "gone", by |-> c] ELSE ending[c]]
  /\ IF \A x \in Process : HomeOf(x) = g => Free(x) THEN UNCHANGED losses ELSE Lose(<<"drop", g>>)
  /\ UNCHANGED online

\* DropOnline is done, or its five seconds are over.
Exit(g) == phase[g] = "dropping" /\ Die(g)

Crash(g) == "crash" \in Stops /\ phase[g] # "down" /\ Die(g)
-----------------------------------------------------------------------------
(* Time.                                                                   *)

Closing(c) == ending[c].pc \in {"won", "removed", "reported"}
Dialling(c) == dial[c] \in {"checked", "replacing"}

\* A third of the expiry passes, ten minutes in the code.  A call to Redis is
\* given up after two seconds, a handshake after seconds, and a round of
\* renewals takes far less than the period of its ticker.
Tick ==
  /\ due = {}
  /\ \A g \in Gateway : todo[g] = {} /\ phase[g] \notin {"draining", "dropping"}
  /\ \A x \in Process : Free(x)
  /\ \A c \in Client : ~ Closing(c) /\ ~ Dialling(c)
  /\ online' = [u \in User |-> Aged(online[u])]
  /\ due' = {g \in Gateway : phase[g] = "up"}
  /\ UNCHANGED <<inbox, call, losses, phase, todo, connection>>

\* EXPIRE on the whole set runs from the last script, so it comes after the
\* expiry of every member.
DropKey(u) ==
  /\ DOMAIN online[u] # {} /\ Shown(online[u]) = {}
  /\ online' = [online EXCEPT ![u] = NoPlatform]
  /\ UNCHANGED <<inbox, call, losses, gateway, connection>>
-----------------------------------------------------------------------------
HandshakeStep(c) ==
  \/ AddToHub(c)
  \/ \E o \in Client : CloseOld(c, o) \/ NextOld(c, o)
  \/ Serve(c)

CloseStep(c) == RemoveFromHub(c) \/ ReportOffline(c) \/ CloseConn(c)

CallStep(x) == RunScript(x) \/ PublishChange(x)

GatewayStep(g) ==
  \/ HandleChange(g)
  \/ StartRenewal(g)
  \/ \E u \in User : RenewUser(g, u)
  \/ StartDrop(g)
  \/ \E row \in todo[g] : DropUser(g, row)
  \/ Exit(g)

Next ==
  \/ \E c \in Client :
       \/ CheckLimit(c) \/ RefuseDial(c) \/ HandshakeStep(c)
       \/ EndReading(c) \/ CloseStep(c)
  \/ \E x \in Process : CallStep(x) \/ FailScript(x) \/ FailPublish(x)
  \/ \E g \in Gateway : GatewayStep(g) \/ LoseChange(g) \/ Shutdown(g) \/ Crash(g)
  \/ Tick
  \/ \E u \in User : DropKey(u)

Spec == Init /\ [][Next]_vars

\* Goroutines run, Redis answers, tickers fire; nobody has to connect, leave
\* or fail.
FairSpec ==
  /\ Spec
  /\ \A c \in Client : WF_vars(HandshakeStep(c)) /\ WF_vars(CloseStep(c))
  /\ \A x \in Process : WF_vars(CallStep(x))
  /\ \A g \in Gateway : WF_vars(GatewayStep(g))
  /\ WF_vars(Tick)
-----------------------------------------------------------------------------
TypeOK ==
  /\ online \in [User -> UNION {[P -> 0..Rounds] : P \in SUBSET Platform}]
  /\ inbox \in [Gateway -> Seq([user : User, ids : SUBSET Platform])]
  /\ call \in [Process -> {NoCall}
        \cup [pc : {"script"}, user : User, on : SUBSET Platform, off : SUBSET Platform]
        \cup [pc : {"publish"}, user : User, ids : SUBSET Platform]]
  /\ phase \in [Gateway -> {"up", "draining", "dropping", "down"}]
  /\ due \subseteq Gateway
  /\ DOMAIN todo = Gateway
  /\ listed \subseteq Client /\ reading \subseteq Client
  /\ dial \in [Client -> {"new", "checked", "refused", "replacing", "served"}]
  /\ olds \in [Client -> SUBSET Client]
  /\ ending \in [Client -> [pc : {"open", "won", "removed", "reported", "gone"}, by : Client \cup {"none"}]]
  /\ losses \in [Process -> Nat]

\* A connection the gateway accepted and nobody has begun to close.
Connected(c) == dial[c] \in {"replacing", "served"} /\ ending[c] = Open
Visible(c) == Login[c].platform \in Shown(online[Login[c].user])

(* A connection that is not being closed is found by pushes and renewals   *)
(* through the hub, unless the handshake that took its place has it on its *)
(* list of connections to close: nobody is connected and deaf for ever.    *)
OpenIsListed ==
  \A c \in Client : Connected(c) => c \in listed \/ \E d \in Client : c \in olds[d]

(* The other way round: what the hub lists has a goroutine that will take  *)
(* it out again, so that no dead connection stays listed.                  *)
ListedWillLeave ==
  \A c \in listed :
    \/ ending[c].pc = "won"
    \/ ending[c] = Open /\ (dial[c] = "replacing" \/ c \in reading)

\* What will show c again: a script of its own gateway that names its platform,
\* or a change that does not, on its way to the gateway.
Restores(x, c) ==
  /\ call[x].pc = "script" /\ call[x].user = Login[c].user
  /\ Login[c].platform \in call[x].on
  /\ HomeOf(x) = Home(c)
Alerts(x, c) ==
  /\ call[x].pc = "publish" /\ call[x].user = Login[c].user
  /\ Login[c].platform \notin call[x].ids
Alerted(i, c) ==
  /\ inbox[Home(c)][i].user = Login[c].user
  /\ Login[c].platform \notin inbox[Home(c)][i].ids

RepairComing(c) ==
  \/ dial[c] = "replacing"
  \/ \E x \in Process : Restores(x, c) \/ Alerts(x, c)
  \/ \E i \in DOMAIN inbox[Home(c)] : Alerted(i, c)

(* As long as no call fails, a connection on a working gateway that Redis  *)
(* does not show is about to be shown: whatever overwrote it, the offline  *)
(* report of the connection it replaced, of a connection on another        *)
(* gateway or of a gateway that shuts down, a repair is under way.         *)
OfflineIsRepaired ==
  (\A x \in Process : losses[x] = 0) =>
    \A c \in listed : (phase[Home(c)] = "up" /\ ending[c] = Open /\ ~ Visible(c)) => RepairComing(c)

(* msggateway/internal/ws/online.go:57: renewals push a gateway's          *)
(* platforms forward "so a live connection does not expire".  Time hides a *)
(* live connection only if its own report had failed, or as many renewals  *)
(* of its gateway as fit into one expiry.                                  *)
LiveDoesNotExpire ==
  [][Tick => \A c \in listed :
       Visible(c) /\ ~ Visible(c)' =>
         losses[<<"dial", c>>] > 0 \/ losses[<<"renewal", Home(c)>>] >= Rounds - 1]_vars

(* A connection that stays on a working gateway is shown for good some day,*)
(* even if reports, publications or messages about it were lost.           *)
LiveIsShown ==
  \A c \in Client :
    <>[](c \in listed /\ dial[c] = "served" /\ phase[Home(c)] = "up") => <>[]Visible(c)

(* A platform nobody is connected on disappears for good some day, though  *)
(* late reports and repairs can show it again after its last connection,   *)
(* and a crashed gateway takes nothing back.                               *)
GhostsFade ==
  \A u \in User, p \in Platform :
    <>[](\A c \in listed : ~ (Login[c].user = u /\ Login[c].platform = p))
      => <>[](p \notin Shown(online[u]))
=============================================================================

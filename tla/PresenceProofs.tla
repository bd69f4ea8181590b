--------------------------- MODULE PresenceProofs ---------------------------
(***************************************************************************)
(* What the hubs of the gateways guarantee for any number of gateways,     *)
(* users and connections, whatever the calls to Redis do: a connection     *)
(* nobody closes is reachable through its hub or about to be closed by the *)
(* handshake that replaced it, and a hub lists nothing that is over.       *)
(***************************************************************************)
EXTENDS Presence, TLAPS

ConnTypeOK ==
  /\ listed \subseteq Client /\ reading \subseteq Client
  /\ dial \in [Client -> {"new", "checked", "refused", "replacing", "served"}]
  /\ olds \in [Client -> SUBSET Client]
  /\ ending \in [Client -> [pc : {"open", "won", "removed", "reported", "gone"},
                            by : Client \cup {"none"}]]

\* Only a connection whose handshake got as far as the hub is listed, read or
\* on somebody's list of connections to close.
Dialled(c) == dial[c] \notin {"new", "checked"}
OnlyDialled ==
  /\ \A c \in listed \cup reading : Dialled(c)
  /\ \A c \in Client : \A o \in olds[c] : Dialled(o)

\* A list of connections to close belongs to a handshake in progress, and
\* names connections of the same gateway, user and platform.
OldsOfHandshake ==
  \A c \in Client :
    /\ dial[c] # "replacing" => olds[c] = {}
    /\ \A o \in olds[c] : Login[o] = Login[c]

FreshIsOpen == \A c \in Client : ~ Dialled(c) => ending[c] = Open

HubInv ==
  /\ ConnTypeOK
  /\ OnlyDialled
  /\ OldsOfHandshake
  /\ FreshIsOpen
  /\ OpenIsListed
  /\ ListedWillLeave

USE DEF HubInv, ConnTypeOK, OnlyDialled, OldsOfHandshake, FreshIsOpen, Dialled,
        OpenIsListed, ListedWillLeave, Connected, Open
-----------------------------------------------------------------------------
(* A process that ends takes its own connections with it: the handshakes   *)
(* that would have closed one of them are of the same gateway.             *)
LEMMA DieKeepsHub ==
  ASSUME HubInv, NEW g \in Gateway, Die(g)
  PROVE  HubInv'
<1>1. ConnTypeOK'
  BY DEF Die, HubOf
<1>2. OnlyDialled'
  BY DEF Die, HubOf
<1>3. OldsOfHandshake'
  BY DEF Die
<1>4. FreshIsOpen'
  BY DEF Die
<1>5. OpenIsListed'
  <2> SUFFICES ASSUME NEW c \in Client, Connected(c)'
               PROVE  c \in listed' \/ \E d \in Client : c \in olds'[d]
    OBVIOUS
  <2>1. Home(c) # g /\ Connected(c)
    BY DEF Die
  <2>2. CASE c \in listed
    BY <2>1, <2>2 DEF Die, HubOf
  <2>3. ASSUME NEW d \in Client, c \in olds[d]
        PROVE  c \in olds'[d]
    BY <2>1, <2>3 DEF Die, Home
  <2> QED
    BY <2>1, <2>2, <2>3
<1>6. ListedWillLeave'
  BY DEF Die, HubOf
<1> QED
  BY <1>1, <1>2, <1>3, <1>4, <1>5, <1>6

(* One handshake's steps.  AddToHub hands the connections it takes off the *)
(* hub to the handshake that will close them.                              *)
LEMMA HandshakeKeepsHub ==
  ASSUME HubInv, NEW c \in Client,
         CheckLimit(c) \/ RefuseDial(c) \/ HandshakeStep(c)
  PROVE  HubInv'
<1>1. CASE CheckLimit(c)
  BY <1>1 DEF CheckLimit
<1>2. CASE RefuseDial(c)
  BY <1>2 DEF RefuseDial
<1>3. CASE AddToHub(c)
  <2> USE <1>3 DEF AddToHub
  <2>1. ConnTypeOK' /\ OnlyDialled' /\ FreshIsOpen'
    BY DEF Slot
  <2>2. OldsOfHandshake'
    BY DEF Slot
  <2>3. OpenIsListed'
    BY DEF Slot
  <2>4. ListedWillLeave'
    BY DEF Slot
  <2> QED
    BY <2>1, <2>2, <2>3, <2>4
<1>4. ASSUME NEW o \in Client, CloseOld(c, o)
      PROVE  HubInv'
  BY <1>4 DEF CloseOld
<1>5. ASSUME NEW o \in Client, NextOld(c, o)
      PROVE  HubInv'
  <2> USE <1>5 DEF NextOld
  <2>1. ConnTypeOK' /\ OnlyDialled' /\ FreshIsOpen' /\ OldsOfHandshake' /\ ListedWillLeave'
    OBVIOUS
  <2>2. ASSUME NEW d \in Client, NEW e \in Client, d \in olds[e], Connected(d)
        PROVE  d \in olds'[e]
    BY <2>2
  <2> QED
    BY <2>1, <2>2
<1>6. CASE Serve(c)
  BY <1>6 DEF Serve
<1> QED
  BY <1>1, <1>2, <1>3, <1>4, <1>5, <1>6 DEF HandshakeStep

(* The steps of a close, and the end of a read loop that begins one.       *)
LEMMA CloseKeepsHub ==
  ASSUME HubInv, NEW c \in Client, EndReading(c) \/ CloseStep(c)
  PROVE  HubInv'
<1>1. CASE EndReading(c)
  BY <1>1 DEF EndReading
<1>2. CASE RemoveFromHub(c)
  BY <1>2 DEF RemoveFromHub, CloseAt
<1>3. CASE ReportOffline(c)
  BY <1>3 DEF ReportOffline, CloseAt
<1>4. CASE CloseConn(c)
  BY <1>4 DEF CloseConn, CloseAt
<1> QED
  BY <1>1, <1>2, <1>3, <1>4 DEF CloseStep

(* Everything else leaves hubs, handshakes and closes alone.               *)
LEMMA RestKeepsConnections ==
  ASSUME Next,
         \A c \in Client : ~ (CheckLimit(c) \/ RefuseDial(c) \/ HandshakeStep(c)),
         \A c \in Client : ~ (EndReading(c) \/ CloseStep(c)),
         \A g \in Gateway : ~ Die(g)
  PROVE  UNCHANGED connection
<1>1. ASSUME NEW x \in Process, CallStep(x) \/ FailScript(x) \/ FailPublish(x)
      PROVE  UNCHANGED connection
  BY <1>1 DEF CallStep, RunScript, PublishChange, FailScript, FailPublish
<1>2. ASSUME NEW g \in Gateway, GatewayStep(g) \/ LoseChange(g) \/ Shutdown(g) \/ Crash(g)
      PROVE  UNCHANGED connection
  BY <1>2 DEF GatewayStep, HandleChange, StartRenewal, RenewUser, StartDrop, DropUser,
              Exit, Crash, LoseChange, Shutdown
<1>3. ASSUME Tick \/ \E u \in User : DropKey(u)
      PROVE  UNCHANGED connection
  BY <1>3 DEF Tick, DropKey
<1> QED
  BY <1>1, <1>2, <1>3 DEF Next
-----------------------------------------------------------------------------
LEMMA HubInitial == Init => HubInv
BY DEF Init

LEMMA HubStep == HubInv /\ [Next]_vars => HubInv'
<1> SUFFICES ASSUME HubInv, [Next]_vars
             PROVE  HubInv'
  OBVIOUS
<1>1. ASSUME NEW c \in Client, CheckLimit(c) \/ RefuseDial(c) \/ HandshakeStep(c)
      PROVE  HubInv'
  BY <1>1, HandshakeKeepsHub
<1>2. ASSUME NEW c \in Client, EndReading(c) \/ CloseStep(c)
      PROVE  HubInv'
  BY <1>2, CloseKeepsHub
<1>3. ASSUME NEW g \in Gateway, Die(g)
      PROVE  HubInv'
  BY <1>3, DieKeepsHub
<1>4. CASE UNCHANGED connection
  BY <1>4 DEF connection
<1>5. CASE UNCHANGED vars
  BY <1>4, <1>5 DEF vars
<1> QED
  BY <1>1, <1>2, <1>3, <1>4, <1>5, RestKeepsConnections

-----------------------------------------------------------------------------
HIDE DEF HubInv, ConnTypeOK, OnlyDialled, OldsOfHandshake, FreshIsOpen, Dialled,
         OpenIsListed, ListedWillLeave, Connected, Open

(* Calls to Redis: what goroutines hand to Status.Set, and when they are   *)
(* free to.                                                                *)

CallOK(x) ==
  /\ call[x].pc \in {"none", "script", "publish"}
  /\ call[x].pc = "none" => call[x] = NoCall
  /\ call[x].pc # "none" => call[x].user \in User
  /\ call[x].pc = "script" => call[x].on \subseteq Platform
  /\ call[x].pc = "publish" => call[x].ids \subseteq Platform

\* A handshake reports last, a close after the removal, and a handshake
\* reports its own platform.
StageOK(c) ==
  /\ dial[c] # "served" => Free(<<"dial", c>>)
  /\ ending[c].pc \in {"open", "won", "removed"} => Free(<<"close", c>>)
  /\ call[<<"dial", c>>].pc = "script" =>
       /\ call[<<"dial", c>>].user = Login[c].user
       /\ call[<<"dial", c>>].on = {Login[c].platform}

Change == [user : User, ids : SUBSET Platform]
SetOK(z) == DOMAIN z \subseteq Platform /\ \A p \in DOMAIN z : z[p] \in 0..Rounds

DataInv ==
  /\ DOMAIN online = User
  /\ \A u \in User : SetOK(online[u])
  /\ inbox \in [Gateway -> Seq(Change)]
  /\ DOMAIN call = Process
  /\ \A x \in Process : CallOK(x)
  /\ phase \in [Gateway -> {"up", "draining", "dropping", "down"}]
  /\ due \subseteq Gateway
  /\ DOMAIN todo = Gateway
  /\ \A g \in Gateway : phase[g] = "dropping" => \A row \in todo[g] : row.user \in User
  /\ losses \in [Process -> Nat]
  /\ \A c \in Client : StageOK(c)

LEMMA ProcessFacts ==
  /\ \A c \in Client : /\ <<"dial", c>> \in Process /\ <<"close", c>> \in Process
                       /\ HomeOf(<<"dial", c>>) = Home(c) /\ HomeOf(<<"close", c>>) = Home(c)
  /\ \A g \in Gateway : /\ <<"subscriber", g>> \in Process /\ HomeOf(<<"subscriber", g>>) = g
                        /\ <<"renewal", g>> \in Process /\ HomeOf(<<"renewal", g>>) = g
                        /\ <<"drop", g>> \in Process /\ HomeOf(<<"drop", g>>) = g
BY DEF Process, HomeOf

LEMMA LoginFacts ==
  \A c \in Client : /\ Home(c) \in Gateway /\ Login[c].user \in User
                   /\ Login[c].platform \in Platform
BY LoginAssumption DEF Home

LEMMA ConnTypes ==
  ASSUME HubInv
  PROVE  /\ listed \subseteq Client /\ reading \subseteq Client
         /\ DOMAIN dial = Client /\ DOMAIN ending = Client
         /\ \A c \in Client : DOMAIN ending[c] = {"pc", "by"}
BY DEF HubInv, ConnTypeOK

LEMMA PlatformsType ==
  ASSUME HubInv, NEW g, NEW u
  PROVE  Platforms(g, u) \subseteq Platform
BY LoginFacts, ConnTypes DEF Platforms, HubOf

(* setScript keeps a set of platforms well formed, and drops what expired. *)
LEMMA SetScriptType ==
  ASSUME NEW z, NEW on \in SUBSET Platform, NEW off, SetOK(z)
  PROVE  /\ SetOK(SetScript(z, on, off, Rounds))
         /\ Shown(SetScript(z, on, off, Rounds)) = DOMAIN SetScript(z, on, off, Rounds)
BY RoundsAssumption DEF SetScript, Kept, Shown, SetOK

LEMMA LoseType ==
  ASSUME losses \in [Process -> Nat], NEW x \in Process, Lose(x)
  PROVE  losses' \in [Process -> Nat]
BY DEF Lose

LEMMA QueueFacts ==
  ASSUME NEW S, NEW s \in Seq(S)
  PROVE  /\ \A e \in S : Append(s, e) \in Seq(S)
         /\ s # <<>> => Head(s) \in S /\ Tail(s) \in Seq(S)
OBVIOUS

(* The calls after a step that changes at most one of them.                *)
LEMMA CallChange ==
  ASSUME DOMAIN call = Process, \A y \in Process : CallOK(y),
         NEW x \in Process, NEW r,
         call' = [call EXCEPT ![x] = r]
  PROVE  /\ DOMAIN call' = Process
         /\ call'[x] = r
         /\ \A y \in Process : y # x => call'[y] = call[y] /\ CallOK(y)'
         /\ CallOK(x)' => \A y \in Process : CallOK(y)'
BY DEF CallOK

LEMMA ReportChange ==
  ASSUME DOMAIN call = Process, \A y \in Process : CallOK(y),
         NEW x \in Process, NEW u \in User, NEW on \in SUBSET Platform, NEW off,
         Report(x, u, on, off)
  PROVE  /\ DOMAIN call' = Process
         /\ call'[x] = [pc |-> "script", user |-> u, on |-> on, off |-> off]
         /\ \A y \in Process : y # x => call'[y] = call[y]
         /\ \A y \in Process : CallOK(y)'
BY DEF CallOK, Report, NoCall

(* A script keeps the sets of platforms well formed.                       *)
LEMMA ScriptKeepsSets ==
  ASSUME DOMAIN online = User, \A u \in User : SetOK(online[u]),
         NEW x \in Process, CallOK(x), call[x].pc = "script",
         ApplyScript(call[x]) \/ UNCHANGED online
  PROVE  DOMAIN online' = User /\ \A u \in User : SetOK(online'[u])
<1>1. CASE UNCHANGED online
  BY <1>1
<1>2. CASE ApplyScript(call[x])
  <2>1. SetOK(SetScript(online[call[x].user], call[x].on, call[x].off, Rounds))
    BY SetScriptType DEF CallOK
  <2> QED
    BY <1>2, <2>1 DEF ApplyScript, CallOK
<1> QED
  BY <1>1, <1>2

LEMMA CallStepKeepsData ==
  ASSUME HubInv, DataInv, NEW x \in Process, CallStep(x) \/ FailScript(x) \/ FailPublish(x)
  PROVE  DataInv'
<1> USE DEF DataInv
<1>1. UNCHANGED <<gateway, connection>>
  BY DEF CallStep, RunScript, PublishChange, FailScript, FailPublish
<1>2. /\ DOMAIN call' = Process
      /\ \A y \in Process : CallOK(y)'
      /\ \A y \in Process : call'[y] # call[y] => y = x /\ call[x].pc # "none" /\ call'[y].pc # "script"
  <2>1. CASE RunScript(x)
    <3>1. call[x].user \in User /\ DOMAIN online'[call[x].user] \subseteq Platform
      BY <2>1, ScriptKeepsSets DEF RunScript, CallOK, SetOK
    <3> QED
      BY <2>1, <3>1, CallChange DEF RunScript, CallOK, NoCall
  <2>2. CASE PublishChange(x) \/ FailScript(x) \/ FailPublish(x)
    <3>1. call' = [call EXCEPT ![x] = NoCall] /\ call[x].pc \in {"script", "publish"}
      BY <2>2 DEF PublishChange, FailScript, FailPublish
    <3>2. call'[x] = NoCall /\ \A y \in Process : y # x => call'[y] = call[y]
      BY <3>1
    <3>3. DOMAIN call' = Process /\ \A y \in Process : CallOK(y)'
      BY <3>1, <3>2 DEF CallOK, NoCall
    <3> QED
      BY <3>1, <3>2, <3>3 DEF NoCall
  <2> QED
    BY <2>1, <2>2 DEF CallStep
<1>3. DOMAIN online' = User /\ \A u \in User : SetOK(online'[u])
  <2>1. CASE RunScript(x) \/ FailScript(x)
    BY <2>1, ScriptKeepsSets DEF RunScript, FailScript
  <2>2. CASE PublishChange(x) \/ FailPublish(x)
    BY <2>2 DEF PublishChange, FailPublish
  <2> QED
    BY <2>1, <2>2 DEF CallStep
<1>4. inbox' \in [Gateway -> Seq(Change)]
  <2>1. CASE PublishChange(x)
    <3>1. [user |-> call[x].user, ids |-> call[x].ids] \in Change
      BY <2>1 DEF PublishChange, CallOK, Change
    <3>2. \A h \in Gateway :
            Append(inbox[h], [user |-> call[x].user, ids |-> call[x].ids]) \in Seq(Change)
      BY <3>1, QueueFacts
    <3> QED
      BY <2>1, <3>2 DEF PublishChange
  <2>2. CASE RunScript(x) \/ FailScript(x) \/ FailPublish(x)
    BY <2>2 DEF RunScript, FailScript, FailPublish
  <2> QED
    BY <2>1, <2>2 DEF CallStep
<1>5. losses' \in [Process -> Nat]
  BY DEF CallStep, RunScript, PublishChange, FailScript, FailPublish, Lose
<1>6. ASSUME NEW c \in Client
      PROVE  StageOK(c)'
  <2>1. StageOK(c) /\ UNCHANGED <<dial, ending>>
    BY <1>1 DEF connection
  <2>2. \A y \in Process : Free(y) => Free(y)' /\ call'[y] = call[y]
    BY <1>2 DEF Free, NoCall
  <2>3. call'[<<"dial", c>>].pc = "script" => call'[<<"dial", c>>] = call[<<"dial", c>>]
    BY <1>2, ProcessFacts
  <2> QED
    BY <2>1, <2>2, <2>3, ProcessFacts DEF StageOK
<1> QED
  BY <1>1, <1>2, <1>3, <1>4, <1>5, <1>6 DEF gateway

LEMMA ConnectionKeepsData ==
  ASSUME HubInv, DataInv, NEW c \in Client,
         \/ CheckLimit(c) \/ RefuseDial(c) \/ HandshakeStep(c)
         \/ EndReading(c) \/ CloseStep(c)
  PROVE  DataInv'
<1> USE DEF DataInv
<1>1. UNCHANGED <<online, inbox, losses, gateway>>
  BY DEF CheckLimit, RefuseDial, HandshakeStep, AddToHub, CloseOld, NextOld, Serve,
         EndReading, CloseStep, RemoveFromHub, ReportOffline, CloseConn, redis
<1>2. /\ DOMAIN call' = Process /\ \A x \in Process : CallOK(x)'
      /\ \A d \in Client : StageOK(d)'
  <2> USE ConnTypes
  <2>1. CASE CheckLimit(c) \/ RefuseDial(c) \/ AddToHub(c)
    <3>1. UNCHANGED <<call, ending>> /\ \A d \in Client : dial'[d] = "served" => dial[d] = "served"
      BY <2>1 DEF CheckLimit, RefuseDial, AddToHub, redis
    <3>2. \A d \in Client : dial[d] = "served" => dial'[d] = "served"
      BY <2>1 DEF CheckLimit, RefuseDial, AddToHub
    <3> QED
      BY <3>1, <3>2 DEF CallOK, StageOK, Free
  <2>2. ASSUME NEW o \in Client, CloseOld(c, o) \/ NextOld(c, o)
        PROVE  /\ DOMAIN call' = Process /\ \A x \in Process : CallOK(x)'
               /\ \A d \in Client : StageOK(d)'
    <3>1. UNCHANGED <<call, dial>>
      BY <2>2 DEF CloseOld, NextOld, redis
    <3>2. \A d \in Client : ending'[d].pc \in {"open", "won", "removed"}
                             => ending[d].pc \in {"open", "won", "removed"}
      <4>1. CASE CloseOld(c, o)
        BY <4>1 DEF CloseOld, Open
      <4>2. CASE NextOld(c, o)
        BY <4>2 DEF NextOld
      <4> QED
        BY <2>2, <4>1, <4>2
    <3> QED
      BY <3>1, <3>2 DEF CallOK, StageOK, Free
  <2>3. CASE Serve(c)
    <3>1. /\ DOMAIN call' = Process /\ \A y \in Process : CallOK(y)'
          /\ call'[<<"dial", c>>] =
               [pc |-> "script", user |-> Login[c].user, on |-> {Login[c].platform}, off |-> {}]
          /\ \A y \in Process : y # <<"dial", c>> => call'[y] = call[y]
      <4> DEFINE x == <<"dial", c>>
                 u == Login[c].user
                 on == {Login[c].platform}
      <4>1. /\ x \in Process /\ u \in User /\ on \in SUBSET Platform
            /\ Report(x, u, on, {})
        BY <2>3, LoginFacts, ProcessFacts DEF Serve
      <4> HIDE DEF x, u, on
      <4>2. /\ DOMAIN call' = Process /\ \A y \in Process : CallOK(y)'
            /\ \A y \in Process : y # x => call'[y] = call[y]
        BY <4>1, ReportChange
      <4>3. call'[x] = [pc |-> "script", user |-> u, on |-> on, off |-> {}]
        BY <4>1 DEF Report
      <4> QED
        BY <4>2, <4>3 DEF x, u, on
    <3>2. \A d \in Client : /\ <<"close", d>> # <<"dial", c>>
                            /\ d # c => <<"dial", d>> # <<"dial", c>> /\ dial'[d] = dial[d]
      BY <2>3 DEF Serve
    <3>3. ending' = ending /\ dial'[c] = "served"
      BY <2>3 DEF Serve
    <3>4. ASSUME NEW d \in Client
          PROVE  StageOK(d)'
      <4>1. call'[<<"close", d>>] = call[<<"close", d>>]
        BY <3>1, <3>2, ProcessFacts
      <4>2. CASE d = c
        <5>1. /\ call'[<<"dial", c>>].user = Login[c].user
              /\ call'[<<"dial", c>>].on = {Login[c].platform}
          BY <3>1
        <5> QED
          BY <3>3, <4>1, <4>2, <5>1 DEF StageOK, Free
      <4>3. CASE d # c
        <5>1. call'[<<"dial", d>>] = call[<<"dial", d>>] /\ dial'[d] = dial[d]
          BY <3>1, <3>2, <4>3, ProcessFacts
        <5> QED
          BY <3>3, <4>1, <5>1 DEF StageOK, Free
      <4> QED
        BY <4>2, <4>3
    <3> QED
      BY <3>1, <3>4
  <2>4. CASE EndReading(c) \/ RemoveFromHub(c) \/ CloseConn(c)
    <3>1. UNCHANGED <<call, dial>>
      BY <2>4 DEF EndReading, RemoveFromHub, CloseConn, redis
    <3>2. \A d \in Client : ending'[d].pc \in {"open", "won", "removed"}
                             => ending[d].pc \in {"open", "won", "removed"}
      <4>1. CASE EndReading(c)
        BY <4>1 DEF EndReading, Open
      <4>2. CASE RemoveFromHub(c)
        BY <4>2 DEF RemoveFromHub, CloseAt
      <4>3. CASE CloseConn(c)
        BY <4>3 DEF CloseConn, CloseAt
      <4> QED
        BY <2>4, <4>1, <4>2, <4>3
    <3> QED
      BY <3>1, <3>2 DEF CallOK, StageOK, Free
  <2>5. CASE ReportOffline(c)
    <3>1. /\ DOMAIN call' = Process /\ \A y \in Process : CallOK(y)'
          /\ \A y \in Process : y # <<"close", c>> => call'[y] = call[y]
      <4>1. CASE UNCHANGED call
        BY <4>1 DEF CallOK
      <4>2. CASE Report(<<"close", c>>, Login[c].user, {}, {Login[c].platform})
        BY <4>2, ReportChange, LoginFacts, ProcessFacts
      <4> QED
        BY <2>5, <4>1, <4>2 DEF ReportOffline
    <3> QED
      BY <2>5, <3>1, ProcessFacts DEF ReportOffline, CloseAt, StageOK, Free
  <2> QED
    BY <2>1, <2>2, <2>3, <2>4, <2>5 DEF HandshakeStep, CloseStep
<1> QED
  BY <1>1, <1>2 DEF gateway

LEMMA GatewayKeepsData ==
  ASSUME HubInv, DataInv, NEW g \in Gateway,
         GatewayStep(g) \/ LoseChange(g) \/ Shutdown(g),
         ~ Die(g)
  PROVE  DataInv'
<1> USE DEF DataInv
<1>1. CASE HandleChange(g)
  <2> DEFINE m == Head(inbox[g])
  <2>1. m.user \in User /\ inbox' \in [Gateway -> Seq(Change)]
    <3>1. inbox[g] \in Seq(Change) /\ inbox[g] # <<>>
      BY <1>1 DEF HandleChange
    <3>2. m \in Change /\ Tail(inbox[g]) \in Seq(Change)
      BY <3>1, QueueFacts
    <3> QED
      BY <1>1, <3>2 DEF HandleChange, Change
  <2>2. /\ DOMAIN call' = Process /\ \A y \in Process : CallOK(y)'
        /\ \A y \in Process : y # <<"subscriber", g>> => call'[y] = call[y]
    <3>1. CASE UNCHANGED call
      BY <3>1 DEF CallOK
    <3>2. CASE Report(<<"subscriber", g>>, m.user, Platforms(g, m.user) \ m.ids, {})
      BY <2>1, <3>2, ReportChange, PlatformsType, ProcessFacts
    <3> QED
      BY <1>1, <3>1, <3>2 DEF HandleChange
  <2> QED
    BY <1>1, <2>1, <2>2, ProcessFacts DEF HandleChange, StageOK, Free, gateway, connection
<1>2. CASE StartRenewal(g)
  BY <1>2 DEF StartRenewal, redis, connection, CallOK, StageOK, Free
<1>3. ASSUME NEW u \in User, RenewUser(g, u)
      PROVE  DataInv'
  <2>1. /\ DOMAIN call' = Process /\ \A y \in Process : CallOK(y)'
        /\ \A y \in Process : y # <<"renewal", g>> => call'[y] = call[y]
    <3>1. CASE UNCHANGED call
      BY <3>1 DEF CallOK
    <3>2. CASE Report(<<"renewal", g>>, u, Platforms(g, u), {})
      BY <3>2, ReportChange, PlatformsType, ProcessFacts
    <3> QED
      BY <1>3, <3>1, <3>2 DEF RenewUser
  <2> QED
    BY <1>3, <2>1, ProcessFacts DEF RenewUser, StageOK, Free, connection
<1>4. CASE StartDrop(g)
  <2>1. UNCHANGED <<redis, due, connection>>
    BY <1>4 DEF StartDrop
  <2>2. \A row \in todo'[g] : row.user \in User
    BY <1>4, LoginFacts, ConnTypes DEF StartDrop, HubOf
  <2>3. \A h \in Gateway : h # g => phase'[h] = phase[h] /\ todo'[h] = todo[h]
    BY <1>4 DEF StartDrop
  <2>4. /\ DOMAIN todo' = Gateway
        /\ phase' \in [Gateway -> {"up", "draining", "dropping", "down"}]
    BY <1>4 DEF StartDrop
  <2> QED
    BY <2>1, <2>2, <2>3, <2>4 DEF redis, connection, CallOK, StageOK, Free
<1>5. ASSUME NEW row \in todo[g], DropUser(g, row)
      PROVE  DataInv'
  <2>1. /\ DOMAIN call' = Process /\ \A y \in Process : CallOK(y)'
        /\ \A y \in Process : y # <<"drop", g>> => call'[y] = call[y]
    BY <1>5, ReportChange, ProcessFacts DEF DropUser
  <2> QED
    BY <1>5, <2>1, ProcessFacts DEF DropUser, StageOK, Free, connection
<1>6. CASE LoseChange(g)
  <2>1. inbox[g] \in Seq(Change) /\ inbox[g] # <<>>
    BY <1>6 DEF LoseChange
  <2>2. inbox' \in [Gateway -> Seq(Change)]
    BY <1>6, <2>1, QueueFacts DEF LoseChange
  <2>3. losses' \in [Process -> Nat]
    BY <1>6, ProcessFacts, LoseType DEF LoseChange
  <2>4. UNCHANGED <<online, call, gateway, connection>>
    BY <1>6 DEF LoseChange
  <2> QED
    BY <2>2, <2>3, <2>4 DEF gateway, connection, CallOK, StageOK, Free
<1>7. CASE Shutdown(g)
  <2>1. inbox' \in [Gateway -> Seq(Change)]
    BY <1>7 DEF Shutdown
  <2>2. /\ DOMAIN todo' = Gateway /\ due' \subseteq Gateway
        /\ phase' \in [Gateway -> {"up", "draining", "dropping", "down"}]
        /\ \A h \in Gateway : phase'[h] = "dropping" => \A row \in todo'[h] : row.user \in User
    BY <1>7 DEF Shutdown
  <2>3. UNCHANGED <<online, call, losses, connection>>
    BY <1>7 DEF Shutdown
  <2> QED
    BY <2>1, <2>2, <2>3 DEF connection, CallOK, StageOK, Free
<1> QED
  BY <1>1, <1>2, <1>3, <1>4, <1>5, <1>6, <1>7 DEF GatewayStep, Exit

LEMMA DieKeepsData ==
  ASSUME HubInv, DataInv, NEW g \in Gateway, Die(g)
  PROVE  DataInv'
<1> USE DEF DataInv
<1>1. DOMAIN call' = Process /\ \A y \in Process : CallOK(y)'
  BY DEF Die, CallOK, NoCall
<1>2. losses' \in [Process -> Nat]
  <2>1. CASE UNCHANGED losses
    BY <2>1
  <2>2. CASE Lose(<<"drop", g>>)
    BY <2>2, ProcessFacts, LoseType
  <2> QED
    BY <2>1, <2>2 DEF Die
<1>3. \A c \in Client : StageOK(c)'
  BY ProcessFacts DEF Die, StageOK, Free, NoCall
<1>4. /\ inbox' \in [Gateway -> Seq(Change)] /\ UNCHANGED online
      /\ DOMAIN todo' = Gateway /\ due' \subseteq Gateway
  BY DEF Die
<1>5. /\ phase' \in [Gateway -> {"up", "draining", "dropping", "down"}]
      /\ \A h \in Gateway : phase'[h] = "dropping" => \A row \in todo'[h] : row.user \in User
  BY DEF Die
<1> QED
  BY <1>1, <1>2, <1>3, <1>4, <1>5

LEMMA TimeKeepsData ==
  ASSUME DataInv, Tick \/ \E u \in User : DropKey(u)
  PROVE  DataInv'
<1> USE DEF DataInv
<1>1. UNCHANGED <<inbox, call, losses, phase, todo, connection>> /\ due' \subseteq Gateway
  BY DEF Tick, DropKey, gateway
<1>2. DOMAIN online' = User /\ \A u \in User : SetOK(online'[u])
  <2>1. CASE Tick
    <3>1. \A u \in User : SetOK(Aged(online[u]))
      BY RoundsAssumption DEF Aged, SetOK
    <3> QED
      BY <2>1, <3>1 DEF Tick
  <2>2. ASSUME NEW u \in User, DropKey(u)
        PROVE  DOMAIN online' = User /\ \A v \in User : SetOK(online'[v])
    <3>1. SetOK(NoPlatform)
      BY DEF SetOK, NoPlatform
    <3> QED
      BY <2>2, <3>1 DEF DropKey
  <2> QED
    BY <2>1, <2>2
<1> QED
  BY <1>1, <1>2 DEF CallOK, StageOK, Free, connection
-----------------------------------------------------------------------------
(* Who is shown.  An entry of Redis loses at most one round between two    *)
(* renewals of the gateway that has the connection; an entry that is gone  *)
(* is noticed by somebody, as long as nothing fails.                       *)

Live(c) == c \in listed /\ phase[Home(c)] = "up"
Left(c) == online[Login[c].user][Login[c].platform]
Reporting(c) == dial[c] = "replacing" \/ call[<<"dial", c>>].pc = "script"
RenewalDue(c) ==
  \/ Home(c) \in due
  \/ Login[c].user \in todo[Home(c)]
  \/ Restores(<<"renewal", Home(c)>>, c)
Missed(c) == losses[<<"renewal", Home(c)>>]

AgeOK(c) ==
  Live(c) /\ Visible(c) =>
    \/ Reporting(c)
    \/ losses[<<"dial", c>>] > 0
    \/ Left(c) + Missed(c) >= Rounds
    \/ RenewalDue(c) /\ Left(c) + Missed(c) + 1 >= Rounds

NoLoss == \A x \in Process : losses[x] = 0
RepairOK(c) ==
  (NoLoss /\ Live(c) /\ ending[c] = Open /\ ~ Visible(c)) => RepairComing(c)

\* A process that has ended has no connection, and takes none.
GoneInv ==
  \A c \in Client : phase[Home(c)] = "down" => c \notin listed /\ dial[c] # "checked"

PresenceInv ==
  /\ HubInv
  /\ DataInv
  /\ GoneInv
  /\ \A c \in Client : AgeOK(c) /\ RepairOK(c)

LEMMA LiveTypes ==
  ASSUME DataInv, NEW c \in Client
  PROVE  /\ Visible(c) => Left(c) \in Nat /\ Left(c) > 0
         /\ Missed(c) \in Nat /\ losses[<<"dial", c>>] \in Nat
         /\ SetOK(online[Login[c].user])
<1>1. SetOK(online[Login[c].user])
  BY LoginFacts DEF DataInv
<1>2. Missed(c) \in Nat /\ losses[<<"dial", c>>] \in Nat
  BY ProcessFacts, LoginFacts DEF DataInv, Missed
<1>3. Visible(c) => Left(c) \in Nat /\ Left(c) > 0
  BY <1>1, RoundsAssumption DEF SetOK, Visible, Left, Shown
<1> QED
  BY <1>1, <1>2, <1>3

LEMMA LossCounts ==
  ASSUME DataInv, NEW x \in Process, Lose(x)
  PROVE  /\ ~ NoLoss'
         /\ losses'[x] = losses[x] + 1
         /\ \A y \in Process : y # x => losses'[y] = losses[y]
BY DEF DataInv, Lose, NoLoss

(* Steps after which the entry of c, the reports on their way and the      *)
(* renewals to come are what they were, or more.                           *)
LEMMA AgeKept ==
  ASSUME DataInv, NEW c \in Client, AgeOK(c),
         Live(c)' => Live(c),
         Visible(c)' => Visible(c) /\ Left(c)' = Left(c),
         Live(c)' /\ Reporting(c) => Reporting(c)',
         Live(c)' /\ RenewalDue(c) => RenewalDue(c)',
         losses'[<<"dial", c>>] = losses[<<"dial", c>>],
         losses'[<<"renewal", Home(c)>>] = losses[<<"renewal", Home(c)>>]
  PROVE  AgeOK(c)'
BY RoundsAssumption, LiveTypes DEF AgeOK, Missed

LEMMA RepairKept ==
  ASSUME NEW c \in Client, RepairOK(c),
         NoLoss' => NoLoss,
         Live(c)' => Live(c),
         ending'[c] = Open => ending[c] = Open,
         Visible(c) => Visible(c)',
         NoLoss' /\ Live(c)' /\ RepairComing(c) => RepairComing(c)'
  PROVE  RepairOK(c)'
BY DEF RepairOK, Open

(* A script either renews the platform of c, or leaves it as it is, or     *)
(* takes it away, and then says that something changed.                    *)
LEMMA ScriptOnClient ==
  ASSUME DataInv, NEW x \in Process, NEW c \in Client,
         call[x].pc = "script", ApplyScript(call[x])
  PROVE  LET hit == call[x].user = Login[c].user /\ Login[c].platform \in call[x].on IN
         /\ hit => Visible(c)' /\ Left(c)' = Rounds
         /\ ~ hit /\ Visible(c)' => Visible(c) /\ Left(c)' = Left(c)
         /\ Visible(c) /\ ~ Visible(c)' =>
              /\ call[x].user = Login[c].user
              /\ Changed(online[call[x].user], call[x].on, call[x].off)
              /\ Login[c].platform \notin DOMAIN online'[call[x].user]
<1> DEFINE u == Login[c].user
           p == Login[c].platform
           on == call[x].on
           off == call[x].off
<1>1. CASE call[x].user # u
  <2>1. online'[u] = online[u]
    BY <1>1, LoginFacts DEF ApplyScript, DataInv
  <2> QED
    BY <1>1, <2>1 DEF Visible, Left
<1>2. CASE call[x].user = u
  <2>1. online'[u] = SetScript(online[u], on, off, Rounds)
    BY <1>2, LoginFacts DEF ApplyScript, DataInv
  <2>2. SetOK(online[u]) /\ on \in SUBSET Platform
    BY LoginFacts DEF DataInv, CallOK
  <2>3. Shown(online'[u]) = DOMAIN online'[u]
    BY <2>1, <2>2, SetScriptType
  <2>4. /\ DOMAIN online'[u] = Kept(online[u], off) \cup on
        /\ p \in on => online'[u][p] = Rounds
        /\ p \in DOMAIN online'[u] \ on => p \in Shown(online[u]) \ off /\ online'[u][p] = online[u][p]
        /\ p \in Shown(online[u]) \ off => p \in DOMAIN online'[u]
    BY <2>1 DEF SetScript, Kept
  <2>5. p \in on => Visible(c)' /\ Left(c)' = Rounds
    BY <2>3, <2>4 DEF Visible, Left
  <2>6. p \notin on /\ Visible(c)' => Visible(c) /\ Left(c)' = Left(c)
    BY <2>3, <2>4 DEF Visible, Left
  <2>7. ASSUME Visible(c), ~ Visible(c)'
        PROVE  Changed(online[u], on, off) /\ p \notin DOMAIN online'[u]
    <3>1. p \notin DOMAIN online'[u]
      BY <2>3, <2>7 DEF Visible
    <3>2. p \in DOMAIN online[u] /\ p \notin Kept(online[u], off)
      BY <2>4, <2>7, <3>1 DEF Visible, Shown
    <3> QED
      BY <3>1, <3>2 DEF Changed
  <2> QED
    BY <1>2, <2>5, <2>6, <2>7
<1> QED
  BY <1>1, <1>2

LEMMA RunScriptKeepsShown ==
  ASSUME PresenceInv, NEW c \in Client, NEW x \in Process, RunScript(x)
  PROVE  AgeOK(c)' /\ RepairOK(c)'
<1> DEFINE hit == call[x].user = Login[c].user /\ Login[c].platform \in call[x].on
<1>1. /\ call[x].pc = "script" /\ ApplyScript(call[x])
      /\ UNCHANGED <<inbox, losses, gateway, connection>>
      /\ \A y \in Process : y # x => call'[y] = call[y]
  BY DEF RunScript, PresenceInv, DataInv
<1>2. DataInv /\ AgeOK(c) /\ RepairOK(c)
  BY DEF PresenceInv
<1>3. CASE hit
  <2>1. Visible(c)' /\ Left(c)' = Rounds
    BY <1>1, <1>2, <1>3, ScriptOnClient
  <2>2. Missed(c)' \in Nat
    BY <1>1, <1>2, LiveTypes DEF Missed
  <2> QED
    BY <2>1, <2>2, RoundsAssumption DEF AgeOK, RepairOK
<1>4. CASE ~ hit
  <2>1. Visible(c)' => Visible(c) /\ Left(c)' = Left(c)
    BY <1>1, <1>2, <1>4, ScriptOnClient
  <2>2. Live(c)' => Live(c)
    BY <1>1 DEF Live, gateway, connection
  <2>3. Reporting(c) => Reporting(c)'
    <3>1. <<"dial", c>> # x \/ call[<<"dial", c>>].pc # "script"
      BY <1>2, <1>4 DEF DataInv, StageOK
    <3> QED
      BY <1>1, <3>1, ProcessFacts DEF Reporting, connection
  <2>4. ~ Restores(x, c) /\ ~ Alerts(x, c)
    BY <1>1, <1>4 DEF Restores, Alerts
  <2>6. RenewalDue(c) => RenewalDue(c)'
    <3>1. Restores(<<"renewal", Home(c)>>, c) => Restores(<<"renewal", Home(c)>>, c)'
      <4>1. Restores(<<"renewal", Home(c)>>, c) => call'[<<"renewal", Home(c)>>] = call[<<"renewal", Home(c)>>]
        BY <1>1, <2>4, ProcessFacts, LoginFacts
      <4> QED
        BY <4>1 DEF Restores
    <3> QED
      BY <1>1, <3>1 DEF RenewalDue, gateway
  <2>7. AgeOK(c)'
    BY <1>1, <1>2, <2>1, <2>2, <2>3, <2>6, AgeKept
  <2>8. CASE Visible(c) /\ ~ Visible(c)'
    <3>1. /\ call[x].user = Login[c].user
          /\ Changed(online[call[x].user], call[x].on, call[x].off)
          /\ Login[c].platform \notin DOMAIN online'[call[x].user]
      BY <1>1, <1>2, <2>8, ScriptOnClient
    <3>2. call'[x] = [pc |-> "publish", user |-> call[x].user, ids |-> DOMAIN online'[call[x].user]]
      BY <1>2, <3>1 DEF RunScript, DataInv
    <3>3. Alerts(x, c)'
      BY <3>1, <3>2 DEF Alerts
    <3> QED
      BY <2>7, <3>3 DEF RepairOK, RepairComing
  <2>9. CASE Visible(c) => Visible(c)'
    <3>1. RepairComing(c) => RepairComing(c)'
      <4>1. UNCHANGED <<dial, inbox>>
        BY <1>1 DEF connection
      <4>3. CASE \E y \in Process : Restores(y, c) \/ Alerts(y, c)
        <5> PICK y \in Process : Restores(y, c) \/ Alerts(y, c)
          BY <4>3
        <5>1. call'[y] = call[y]
          BY <1>1, <2>4
        <5>2. Restores(y, c)' \/ Alerts(y, c)'
          BY <5>1 DEF Restores, Alerts
        <5> QED
          BY <5>2 DEF RepairComing
      <4>4. CASE \E i \in DOMAIN inbox[Home(c)] : Alerted(i, c)
        BY <4>1, <4>4 DEF RepairComing, Alerted
      <4>5. CASE dial[c] = "replacing"
        BY <4>1, <4>5 DEF RepairComing
      <4> QED
        BY <4>3, <4>4, <4>5 DEF RepairComing
    <3>2. RepairOK(c)'
      BY <1>1, <1>2, <2>2, <2>9, <3>1, RepairKept DEF NoLoss, connection
    <3> QED
      BY <2>7, <3>2
  <2> QED
    BY <2>8, <2>9
<1> QED
  BY <1>3, <1>4

LEMMA PublishKeepsShown ==
  ASSUME PresenceInv, NEW c \in Client, NEW x \in Process, PublishChange(x)
  PROVE  AgeOK(c)' /\ RepairOK(c)'
<1>1. /\ call[x].pc = "publish"
      /\ UNCHANGED <<online, losses, gateway, connection>>
      /\ \A y \in Process : y # x => call'[y] = call[y]
  BY DEF PublishChange, PresenceInv, DataInv
<1>2. DataInv /\ AgeOK(c) /\ RepairOK(c)
  BY DEF PresenceInv
<1>3. (Visible(c)' <=> Visible(c)) /\ Left(c)' = Left(c) /\ (Live(c)' <=> Live(c))
  BY <1>1 DEF Visible, Left, Live, gateway, connection
<1>4. Reporting(c) => Reporting(c)'
  BY <1>1, ProcessFacts DEF Reporting, connection
<1>5. RenewalDue(c) => RenewalDue(c)'
  BY <1>1, ProcessFacts, LoginFacts DEF RenewalDue, Restores, gateway
<1>6. AgeOK(c)'
  BY <1>1, <1>2, <1>3, <1>4, <1>5, AgeKept
<1>7. ASSUME Live(c), RepairComing(c)
      PROVE  RepairComing(c)'
  <2> DEFINE q == inbox[Home(c)]
             m == [user |-> call[x].user, ids |-> call[x].ids]
  <2>1. q \in Seq(Change)
    BY <1>2, LoginFacts DEF DataInv
  <2>2. inbox'[Home(c)] = Append(q, m)
    BY <1>7, LoginFacts DEF PublishChange, Live
  <2> PICK k \in Nat : k = Len(q) + 1
    BY <2>1
  <2>3. /\ k \in DOMAIN inbox'[Home(c)] /\ inbox'[Home(c)][k] = m
        /\ \A i \in DOMAIN q : i \in DOMAIN inbox'[Home(c)] /\ inbox'[Home(c)][i] = q[i]
    BY <2>1, <2>2
  <2>4. CASE Alerts(x, c)
    <3>1. Alerted(k, c)'
      BY <2>3, <2>4 DEF Alerts, Alerted
    <3> QED
      BY <2>3, <3>1 DEF RepairComing
  <2>5. CASE \E i \in DOMAIN q : Alerted(i, c)
    BY <2>3, <2>5 DEF RepairComing, Alerted
  <2>6. CASE \E y \in Process : y # x /\ (Restores(y, c) \/ Alerts(y, c))
    <3> PICK y \in Process : y # x /\ (Restores(y, c) \/ Alerts(y, c))
      BY <2>6
    <3>1. Restores(y, c)' \/ Alerts(y, c)'
      BY <1>1 DEF Restores, Alerts
    <3> QED
      BY <3>1 DEF RepairComing
  <2>7. ~ Restores(x, c)
    BY <1>1 DEF Restores
  <2>8. CASE dial[c] = "replacing"
    BY <1>1, <2>8 DEF RepairComing, connection
  <2> QED
    BY <1>7, <2>4, <2>5, <2>6, <2>7, <2>8 DEF RepairComing
<1>8. RepairOK(c)'
  BY <1>1, <1>2, <1>3, <1>7, RepairKept DEF NoLoss, connection
<1> QED
  BY <1>6, <1>8

(* A failed report or renewal is counted, which is all AgeOK asks for.     *)
LEMMA FailureKeepsShown ==
  ASSUME PresenceInv, NEW c \in Client, NEW x \in Process, FailScript(x) \/ FailPublish(x)
  PROVE  AgeOK(c)' /\ RepairOK(c)'
<1>1. /\ Lose(x)
      /\ UNCHANGED <<inbox, gateway, connection>>
      /\ \A y \in Process : y # x => call'[y] = call[y]
      /\ (call[x].pc = "script" /\ ApplyScript(call[x])) \/ UNCHANGED online
  BY DEF FailScript, FailPublish, PresenceInv, DataInv
<1>2. DataInv /\ AgeOK(c)
  BY DEF PresenceInv
<1>3. RepairOK(c)'
  BY <1>1, <1>2, LossCounts DEF RepairOK
<1>4. /\ losses'[<<"dial", c>>] >= losses[<<"dial", c>>]
      /\ Missed(c)' >= Missed(c)
      /\ x = <<"dial", c>> => losses'[<<"dial", c>>] > 0
      /\ x = <<"renewal", Home(c)>> => Missed(c)' = Missed(c) + 1
      /\ Missed(c)' \in Nat /\ losses'[<<"dial", c>>] \in Nat
  <2> PICK d \in Process, r \in Process : d = <<"dial", c>> /\ r = <<"renewal", Home(c)>>
    BY ProcessFacts, LoginFacts
  <2>1. losses[d] \in Nat /\ losses[r] \in Nat /\ losses[x] \in Nat
    BY <1>2 DEF DataInv
  <2>2. /\ losses'[x] = losses[x] + 1
        /\ d # x => losses'[d] = losses[d]
        /\ r # x => losses'[r] = losses[r]
    BY <1>1, <1>2, LossCounts
  <2>3. /\ losses'[d] \in Nat /\ losses'[d] >= losses[d]
        /\ d = x => losses'[d] > 0
    BY <2>1, <2>2
  <2>4. /\ losses'[r] \in Nat /\ losses'[r] >= losses[r]
        /\ r = x => losses'[r] = losses[r] + 1
    BY <2>1, <2>2
  <2> QED
    BY <2>3, <2>4 DEF Missed
<1>5. Live(c)' => Live(c)
  BY <1>1 DEF Live, gateway, connection
<1>6. CASE Visible(c)' /\ ~ (Visible(c) /\ Left(c)' = Left(c))
  <2>1. Left(c)' = Rounds
    <3>1. CASE UNCHANGED online
      BY <1>6, <3>1 DEF Visible, Left
    <3>2. CASE call[x].pc = "script" /\ ApplyScript(call[x])
      BY <1>2, <1>6, <3>2, ScriptOnClient
    <3> QED
      BY <1>1, <3>1, <3>2
  <2> QED
    BY <1>3, <1>4, <2>1, RoundsAssumption DEF AgeOK
<1>7. CASE Visible(c)' => Visible(c) /\ Left(c)' = Left(c)
  <2>1. ASSUME Live(c), Visible(c)', Reporting(c), x # <<"dial", c>>
        PROVE  Reporting(c)'
    BY <1>1, <2>1, ProcessFacts DEF Reporting, connection
  <2>2. ASSUME RenewalDue(c), x # <<"renewal", Home(c)>>
        PROVE  RenewalDue(c)'
    BY <1>1, <2>2, ProcessFacts, LoginFacts DEF RenewalDue, Restores, gateway
  <2>3. Visible(c) => Left(c) \in Nat /\ Missed(c) \in Nat /\ losses[<<"dial", c>>] \in Nat
    BY <1>2, LiveTypes
  <2>4. AgeOK(c)'
    BY <1>2, <1>4, <1>5, <1>7, <2>1, <2>2, <2>3, RoundsAssumption DEF AgeOK
  <2> QED
    BY <1>3, <2>4
<1> QED
  BY <1>6, <1>7

(* A step that starts calls only where none was, and changes nothing else  *)
(* that bears on c, keeps what is on its way to c.                         *)
LEMMA RepairsPersist ==
  ASSUME NEW c \in Client, RepairComing(c),
         \A x \in Process : ~ Free(x) => call'[x] = call[x],
         inbox'[Home(c)] = inbox[Home(c)],
         dial[c] = "replacing" => RepairComing(c)'
  PROVE  RepairComing(c)'
<1>1. CASE dial[c] = "replacing"
  BY <1>1
<1>2. CASE \E x \in Process : Restores(x, c) \/ Alerts(x, c)
  <2> PICK x \in Process : Restores(x, c) \/ Alerts(x, c)
    BY <1>2
  <2>1. call'[x] = call[x]
    BY DEF Restores, Alerts, Free, NoCall
  <2>2. Restores(x, c)' \/ Alerts(x, c)'
    BY <2>1 DEF Restores, Alerts
  <2> QED
    BY <2>2 DEF RepairComing
<1>3. CASE \E i \in DOMAIN inbox[Home(c)] : Alerted(i, c)
  BY <1>3 DEF RepairComing, Alerted
<1> QED
  BY <1>1, <1>2, <1>3 DEF RepairComing

LEMMA CallsPersist ==
  ASSUME NEW c \in Client, \A x \in Process : ~ Free(x) => call'[x] = call[x]
  PROVE  /\ call[<<"dial", c>>].pc = "script" => call'[<<"dial", c>>].pc = "script"
         /\ Restores(<<"renewal", Home(c)>>, c) => Restores(<<"renewal", Home(c)>>, c)'
<1> PICK d \in Process, r \in Process : d = <<"dial", c>> /\ r = <<"renewal", Home(c)>>
  BY ProcessFacts, LoginFacts
<1>1. call[d].pc = "script" => call'[d] = call[d]
  BY DEF Free, NoCall
<1>2. call[r].pc = "script" => call'[r] = call[r]
  BY DEF Free, NoCall
<1>3. Restores(<<"renewal", Home(c)>>, c) => Restores(<<"renewal", Home(c)>>, c)'
  BY <1>2 DEF Restores
<1> QED
  BY <1>1, <1>3

LEMMA ConnectionKeepsShown ==
  ASSUME PresenceInv, NEW c \in Client, NEW d \in Client,
         \/ CheckLimit(d) \/ RefuseDial(d) \/ HandshakeStep(d)
         \/ EndReading(d) \/ CloseStep(d)
  PROVE  AgeOK(c)' /\ RepairOK(c)'
<1>1. DataInv /\ HubInv /\ AgeOK(c) /\ RepairOK(c)
  BY DEF PresenceInv
<1>2. UNCHANGED <<online, inbox, losses, gateway>>
  BY DEF CheckLimit, RefuseDial, HandshakeStep, AddToHub, CloseOld, NextOld, Serve,
         EndReading, CloseStep, RemoveFromHub, ReportOffline, CloseConn, redis
<1>3. \A x \in Process : ~ Free(x) => call'[x] = call[x]
  <2>1. CASE Serve(d)
    <3>1. Free(<<"dial", d>>)
      BY <1>1, <2>1 DEF Serve, DataInv, StageOK
    <3> QED
      BY <1>1, <2>1, <3>1 DEF Serve, Report, DataInv
  <2>2. CASE ReportOffline(d)
    <3>1. Free(<<"close", d>>)
      BY <1>1, <2>2 DEF ReportOffline, DataInv, StageOK
    <3> QED
      BY <1>1, <2>2, <3>1 DEF ReportOffline, Report, DataInv
  <2>3. CASE UNCHANGED call
    BY <2>3
  <2> QED
    BY <2>1, <2>2, <2>3
    DEF CheckLimit, RefuseDial, HandshakeStep, AddToHub, CloseOld, NextOld,
        EndReading, CloseStep, RemoveFromHub, CloseConn, redis
<1>4. CASE AddToHub(d) /\ d = c
  <2>1. dial'[c] = "replacing"
    BY <1>1, <1>4, ConnTypes DEF AddToHub
  <2> QED
    BY <2>1 DEF AgeOK, RepairOK, Reporting, RepairComing
<1>5. CASE Serve(d) /\ d = c
  <2> PICK x \in Process : x = <<"dial", c>>
    BY ProcessFacts
  <2>1. call'[x] = [pc |-> "script", user |-> Login[c].user, on |-> {Login[c].platform}, off |-> {}]
    BY <1>1, <1>5 DEF Serve, Report, DataInv
  <2>2. Restores(x, c)'
    <3>1. HomeOf(x) = Home(c)
      BY ProcessFacts
    <3> QED
      BY <2>1, <3>1 DEF Restores
  <2>3. RepairComing(c)'
    BY <2>2 DEF RepairComing
  <2> QED
    BY <2>1, <2>3 DEF AgeOK, RepairOK, Reporting
<1>6. CASE ~ (d = c /\ (AddToHub(d) \/ Serve(d)))
  <2>1. c \in listed' => c \in listed
    BY <1>6 DEF CheckLimit, RefuseDial, HandshakeStep, AddToHub, CloseOld, NextOld, Serve,
                EndReading, CloseStep, RemoveFromHub, ReportOffline, CloseConn
  <2>2. c \in listed => dial[c] \notin {"new", "checked"}
    BY <1>1 DEF HubInv, OnlyDialled, Dialled
  <2>3. c \in listed => dial'[c] = dial[c]
    BY <1>1, <1>6, <2>2, ConnTypes
    DEF CheckLimit, RefuseDial, HandshakeStep, AddToHub, CloseOld, NextOld, Serve,
        EndReading, CloseStep, RemoveFromHub, ReportOffline, CloseConn
  <2>4. ending'[c] = Open => ending[c] = Open
    BY <1>1, ConnTypes
    DEF CheckLimit, RefuseDial, HandshakeStep, AddToHub, CloseOld, NextOld, Serve,
        EndReading, CloseStep, RemoveFromHub, ReportOffline, CloseConn, CloseAt, Open
  <2>5. (Visible(c)' <=> Visible(c)) /\ Left(c)' = Left(c) /\ (Live(c)' => Live(c))
    BY <1>2, <2>1 DEF Visible, Left, Live, gateway
  <2>6. Live(c)' /\ Reporting(c) => Reporting(c)'
    BY <1>3, <2>3, <2>5, CallsPersist DEF Reporting, Live
  <2>7. RenewalDue(c) => RenewalDue(c)'
    BY <1>2, <1>3, CallsPersist DEF RenewalDue, gateway
  <2>8. AgeOK(c)'
    BY <1>1, <1>2, <2>5, <2>6, <2>7, AgeKept
  <2>9. Live(c)' /\ RepairComing(c) => RepairComing(c)'
    <3>1. Live(c)' /\ dial[c] = "replacing" => RepairComing(c)'
      BY <2>3, <2>5 DEF RepairComing, Live
    <3> QED
      BY <1>2, <1>3, <3>1, RepairsPersist
  <2>10. RepairOK(c)'
    BY <1>1, <1>2, <2>4, <2>5, <2>9, RepairKept DEF NoLoss
  <2> QED
    BY <2>8, <2>10
<1> QED
  BY <1>4, <1>5, <1>6

(* A report is a new call of a goroutine that was in none.                 *)
LEMMA ReportOnFree ==
  ASSUME DataInv, NEW x \in Process, Free(x), NEW u, NEW on, NEW off, Report(x, u, on, off)
  PROVE  /\ call'[x] = [pc |-> "script", user |-> u, on |-> on, off |-> off]
         /\ \A y \in Process : ~ Free(y) => call'[y] = call[y]
BY DEF Report, DataInv

(* The subscriber answers a change that does not name the platform of c,   *)
(* and passes on what the others behind it in the queue say.               *)
LEMMA HandleChangeRepairs ==
  ASSUME PresenceInv, NEW c \in Client, NEW g \in Gateway, HandleChange(g),
         Live(c), RepairComing(c)
  PROVE  RepairComing(c)'
<1>1. DataInv /\ HubInv
  BY DEF PresenceInv
<1>2. \A x \in Process : ~ Free(x) => call'[x] = call[x]
  BY <1>1, ProcessFacts, ReportOnFree DEF HandleChange
<1>3. dial' = dial
  BY DEF HandleChange, connection
<1>4. CASE g # Home(c)
  <2>1. inbox'[Home(c)] = inbox[Home(c)]
    BY <1>1, <1>4, LoginFacts DEF HandleChange, DataInv
  <2> QED
    BY <1>2, <1>3, <2>1, RepairsPersist DEF RepairComing
<1>5. CASE g = Home(c)
  <2> DEFINE q == inbox[g]
             m == Head(q)
             missing == Platforms(g, m.user) \ m.ids
  <2>1. q \in Seq(Change) /\ q # <<>> /\ inbox'[g] = Tail(q)
    BY <1>1 DEF HandleChange, DataInv
  <2>2. CASE Alerted(1, c)
    <3>1. m.user = Login[c].user /\ Login[c].platform \notin m.ids
      BY <1>5, <2>1, <2>2 DEF Alerted
    <3>2. Login[c].platform \in missing
      BY <1>5, <3>1 DEF Platforms, HubOf, Live
    <3> PICK x \in Process : x = <<"subscriber", g>>
      BY ProcessFacts
    <3>3. call'[x] = [pc |-> "script", user |-> m.user, on |-> missing, off |-> {}]
      <4>1. Free(x) /\ Report(x, m.user, missing, {})
        BY <3>2 DEF HandleChange
      <4> QED
        BY <1>1, <4>1, ReportOnFree
    <3>4. HomeOf(x) = Home(c)
      BY <1>5, ProcessFacts
    <3>5. Restores(x, c)'
      BY <3>1, <3>2, <3>3, <3>4 DEF Restores
    <3> QED
      BY <3>5 DEF RepairComing
  <2>3. ASSUME NEW i \in DOMAIN q, Alerted(i, c), i # 1
        PROVE  RepairComing(c)'
    <3> PICK j \in Nat : j + 1 = i /\ j \in 1..Len(Tail(q))
      <4>1. i \in 1..Len(q) /\ Len(q) \in Nat /\ Len(Tail(q)) = Len(q) - 1
        BY <2>1
      <4>2. i - 1 \in Nat /\ (i - 1) + 1 = i /\ i - 1 \in 1..Len(Tail(q))
        BY <2>3, <4>1
      <4> QED
        BY <4>2
    <3>1. Tail(q)[j] = q[i] /\ j \in DOMAIN Tail(q)
      BY <2>1
    <3>2. Alerted(j, c)'
      BY <1>5, <2>1, <2>3, <3>1 DEF Alerted
    <3> QED
      BY <1>5, <2>1, <3>1, <3>2 DEF RepairComing
  <2>4. CASE \E x \in Process : Restores(x, c) \/ Alerts(x, c)
    <3> PICK x \in Process : Restores(x, c) \/ Alerts(x, c)
      BY <2>4
    <3>1. call'[x] = call[x]
      BY <1>2 DEF Restores, Alerts, Free, NoCall
    <3>2. Restores(x, c)' \/ Alerts(x, c)'
      BY <3>1 DEF Restores, Alerts
    <3> QED
      BY <3>2 DEF RepairComing
  <2>5. CASE dial[c] = "replacing"
    BY <1>3, <2>5 DEF RepairComing
  <2> QED
    BY <1>5, <2>2, <2>3, <2>4, <2>5 DEF RepairComing
<1> QED
  BY <1>4, <1>5

(* A renewal in progress or due reaches the report that names c.           *)
LEMMA RenewalGoesOn ==
  ASSUME PresenceInv, NEW c \in Client, NEW g \in Gateway,
         StartRenewal(g) \/ \E u \in User : RenewUser(g, u),
         Live(c), RenewalDue(c)
  PROVE  RenewalDue(c)'
<1>1. DataInv /\ HubInv
  BY DEF PresenceInv
<1>2. CASE StartRenewal(g)
  <2>1. g = Home(c) => Login[c].user \in todo'[g]
    BY <1>1, <1>2 DEF StartRenewal, DataInv, HubOf, Live
  <2>2. g # Home(c) => todo'[Home(c)] = todo[Home(c)] /\ (Home(c) \in due => Home(c) \in due')
    BY <1>1, <1>2, LoginFacts DEF StartRenewal, DataInv
  <2>3. call' = call
    BY <1>2 DEF StartRenewal, redis
  <2> QED
    BY <2>1, <2>2, <2>3 DEF RenewalDue, Restores
<1>3. ASSUME NEW u \in User, RenewUser(g, u)
      PROVE  RenewalDue(c)'
  <2>1. \A x \in Process : ~ Free(x) => call'[x] = call[x]
    BY <1>1, <1>3, ProcessFacts, ReportOnFree DEF RenewUser
  <2>2. CASE g = Home(c) /\ u = Login[c].user
    <3> PICK x \in Process : x = <<"renewal", g>>
      BY ProcessFacts
    <3>1. Login[c].platform \in Platforms(g, u)
      BY <2>2 DEF Platforms, HubOf, Live
    <3>2. call'[x] = [pc |-> "script", user |-> u, on |-> Platforms(g, u), off |-> {}]
      <4>1. Free(x) /\ Report(x, u, Platforms(g, u), {})
        BY <1>3, <3>1 DEF RenewUser
      <4> QED
        BY <1>1, <4>1, ReportOnFree
    <3>3. HomeOf(x) = Home(c)
      BY <2>2, ProcessFacts
    <3>4. Restores(x, c)'
      BY <2>2, <3>1, <3>2, <3>3 DEF Restores
    <3> QED
      BY <2>2, <3>4 DEF RenewalDue
  <2>3. CASE ~ (g = Home(c) /\ u = Login[c].user)
    <3>1. due' = due /\ (Login[c].user \in todo[Home(c)] => Login[c].user \in todo'[Home(c)])
      BY <1>1, <1>3, <2>3, LoginFacts DEF RenewUser, DataInv
    <3> QED
      BY <2>1, <3>1, CallsPersist DEF RenewalDue
  <2> QED
    BY <2>2, <2>3
<1> QED
  BY <1>2, <1>3

LEMMA GatewayKeepsShown ==
  ASSUME PresenceInv, NEW c \in Client, NEW g \in Gateway,
         GatewayStep(g) \/ LoseChange(g) \/ Shutdown(g), ~ Die(g)
  PROVE  AgeOK(c)' /\ RepairOK(c)'
<1>1. DataInv /\ HubInv /\ AgeOK(c) /\ RepairOK(c)
  BY DEF PresenceInv
<1>2. UNCHANGED <<online, connection>>
  BY DEF GatewayStep, HandleChange, StartRenewal, RenewUser, StartDrop, DropUser, Exit,
         LoseChange, Shutdown, redis
<1>3. \A x \in Process : ~ Free(x) => call'[x] = call[x]
  BY <1>1, ProcessFacts, ReportOnFree
  DEF GatewayStep, HandleChange, StartRenewal, RenewUser, StartDrop, DropUser, Exit,
      LoseChange, Shutdown, redis
<1>4. Live(c)' => Live(c) /\ (Shutdown(g) \/ StartDrop(g) => g # Home(c))
  <2>1. phase'[Home(c)] = "up" => phase[Home(c)] = "up" /\ (Shutdown(g) \/ StartDrop(g) => g # Home(c))
    BY <1>1, LoginFacts
    DEF GatewayStep, HandleChange, StartRenewal, RenewUser, StartDrop, DropUser, Exit,
        LoseChange, Shutdown, gateway, DataInv
  <2> QED
    BY <1>2, <2>1 DEF Live, connection
<1>5. (Visible(c)' <=> Visible(c)) /\ Left(c)' = Left(c)
  BY <1>2 DEF Visible, Left
<1>6. Reporting(c) => Reporting(c)'
  BY <1>2, <1>3, CallsPersist DEF Reporting, connection
<1>7. ASSUME Live(c)', RenewalDue(c)
      PROVE  RenewalDue(c)'
  <2>1. CASE StartRenewal(g) \/ \E u \in User : RenewUser(g, u)
    BY <1>4, <1>7, <2>1, RenewalGoesOn
  <2>2. CASE HandleChange(g) \/ LoseChange(g)
    BY <1>3, <1>7, <2>2, CallsPersist DEF RenewalDue, HandleChange, LoseChange, gateway
  <2>3. CASE Shutdown(g) \/ StartDrop(g) \/ \E row \in todo[g] : DropUser(g, row)
    <3>1. g # Home(c)
      BY <1>1, <1>4, <1>7, <2>3 DEF DropUser, Live
    <3>2. todo'[Home(c)] = todo[Home(c)] /\ (Home(c) \in due => Home(c) \in due')
      BY <1>1, <2>3, <3>1, LoginFacts DEF Shutdown, StartDrop, DropUser, DataInv
    <3> QED
      BY <1>3, <1>7, <3>2, CallsPersist DEF RenewalDue
  <2> QED
    BY <2>1, <2>2, <2>3 DEF GatewayStep, Exit
<1>8. CASE LoseChange(g)
  <2>1. /\ ~ NoLoss'
        /\ losses'[<<"dial", c>>] = losses[<<"dial", c>>]
        /\ losses'[<<"renewal", Home(c)>>] = losses[<<"renewal", Home(c)>>]
    BY <1>1, <1>8, LossCounts, ProcessFacts, LoginFacts DEF LoseChange
  <2> QED
    BY <1>1, <1>4, <1>5, <1>6, <1>7, <2>1, AgeKept DEF RepairOK
<1>9. CASE ~ LoseChange(g)
  <2>1. losses' = losses
    BY <1>9
    DEF GatewayStep, HandleChange, StartRenewal, RenewUser, StartDrop, DropUser, Exit,
        Shutdown, redis
  <2>2. AgeOK(c)'
    BY <1>1, <1>4, <1>5, <1>6, <1>7, <2>1, AgeKept
  <2>3. ASSUME Live(c)', RepairComing(c)
        PROVE  RepairComing(c)'
    <3>1. CASE HandleChange(g)
      BY <1>4, <2>3, <3>1, HandleChangeRepairs
    <3>2. CASE ~ HandleChange(g)
      <4>1. inbox'[Home(c)] = inbox[Home(c)]
        BY <1>1, <1>4, <1>9, <2>3, <3>2, LoginFacts
        DEF GatewayStep, StartRenewal, RenewUser, StartDrop, DropUser, Exit, Shutdown, redis, DataInv
      <4> QED
        BY <1>2, <1>3, <2>3, <4>1, RepairsPersist DEF RepairComing, connection
    <3> QED
      BY <3>1, <3>2
  <2>4. RepairOK(c)'
    BY <1>1, <1>2, <1>4, <1>5, <2>1, <2>3, RepairKept DEF NoLoss, connection
  <2> QED
    BY <2>2, <2>4
<1> QED
  BY <1>8, <1>9

(* A gateway that ends while one of its goroutines is in a call loses the  *)
(* call, which counts; otherwise nothing of other gateways is disturbed.   *)
LEMMA DieKeepsShown ==
  ASSUME PresenceInv, NEW c \in Client, NEW g \in Gateway, Die(g)
  PROVE  AgeOK(c)' /\ RepairOK(c)'
<1>1. DataInv /\ HubInv /\ AgeOK(c) /\ RepairOK(c)
  BY DEF PresenceInv
<1>2. CASE ~ Live(c)'
  BY <1>2 DEF AgeOK, RepairOK
<1>3. CASE Live(c)'
  <2>1. g # Home(c) /\ Live(c)
    BY <1>1, <1>3, LoginFacts DEF Live, Die, DataInv
  <2>2. /\ inbox'[Home(c)] = inbox[Home(c)] /\ todo'[Home(c)] = todo[Home(c)]
        /\ dial'[c] = dial[c] /\ ending'[c] = ending[c]
        /\ Home(c) \in due => Home(c) \in due'
        /\ online' = online
    BY <1>1, <2>1, LoginFacts, ConnTypes DEF Die, DataInv
  <2>3. /\ call'[<<"dial", c>>] = call[<<"dial", c>>]
        /\ call'[<<"renewal", Home(c)>>] = call[<<"renewal", Home(c)>>]
    BY <2>1, ProcessFacts, LoginFacts DEF Die
  <2>4. (Visible(c)' <=> Visible(c)) /\ Left(c)' = Left(c)
    BY <2>2 DEF Visible, Left
  <2>5. /\ losses'[<<"dial", c>>] = losses[<<"dial", c>>]
        /\ losses'[<<"renewal", Home(c)>>] = losses[<<"renewal", Home(c)>>]
    <3>1. CASE UNCHANGED losses
      BY <3>1
    <3>2. CASE Lose(<<"drop", g>>)
      BY <1>1, <3>2, LossCounts, ProcessFacts, LoginFacts
    <3> QED
      BY <3>1, <3>2 DEF Die
  <2>6. AgeOK(c)'
    BY <1>1, <2>1, <2>2, <2>3, <2>4, <2>5, AgeKept DEF Reporting, RenewalDue, Restores
  <2>7. CASE UNCHANGED losses
    <3>1. \A x \in Process : ~ Free(x) => call'[x] = call[x]
      <4>1. ASSUME NEW x \in Process, ~ Free(x), HomeOf(x) = g
            PROVE  FALSE
        <5>1. Lose(<<"drop", g>>)
          BY <4>1 DEF Die
        <5> QED
          <6> PICK z \in Process : z = <<"drop", g>>
            BY ProcessFacts
          <6>1. losses'[z] = losses[z] + 1 /\ losses[z] \in Nat
            BY <1>1, <5>1, LossCounts DEF DataInv
          <6> QED
            BY <2>7, <6>1
      <4> QED
        BY <4>1 DEF Die
    <3>2. RepairComing(c) => RepairComing(c)'
      BY <2>2, <3>1, RepairsPersist DEF RepairComing
    <3> QED
      BY <1>1, <2>1, <2>2, <2>4, <2>6, <2>7, <3>2, RepairKept DEF NoLoss
  <2>8. CASE Lose(<<"drop", g>>)
    BY <1>1, <2>6, <2>8, LossCounts, ProcessFacts DEF RepairOK
  <2> QED
    BY <2>7, <2>8 DEF Die
<1> QED
  BY <1>2, <1>3

(* A tick comes when every report is done and every renewal of the last    *)
(* period too, so an entry of a live connection has lost one round since.  *)
LEMMA TickLosesOneRound ==
  ASSUME PresenceInv, NEW c \in Client, Tick, Live(c), Visible(c)
  PROVE  \/ losses[<<"dial", c>>] > 0
         \/ Left(c) + Missed(c) >= Rounds
<1>1. DataInv /\ HubInv /\ AgeOK(c)
  BY DEF PresenceInv
<1>2. ~ Reporting(c)
  <2>1. call[<<"dial", c>>].pc # "script"
    <3>1. Free(<<"dial", c>>)
      BY ProcessFacts DEF Tick
    <3> QED
      BY <3>1 DEF Free, NoCall
  <2> QED
    BY <2>1 DEF Tick, Dialling, Reporting
<1>3. ~ RenewalDue(c)
  <2>1. call[<<"renewal", Home(c)>>].pc # "script"
    <3>1. Free(<<"renewal", Home(c)>>)
      BY ProcessFacts, LoginFacts DEF Tick
    <3> QED
      BY <3>1 DEF Free, NoCall
  <2> QED
    BY <2>1, LoginFacts DEF Tick, RenewalDue, Restores
<1> QED
  BY <1>1, <1>2, <1>3 DEF AgeOK

(* What a tick does to an entry.                                           *)
LEMMA TickOnClient ==
  ASSUME DataInv, NEW c \in Client, Tick
  PROVE  /\ Visible(c)' => Visible(c) /\ Left(c)' = Left(c) - 1
         /\ Visible(c) /\ ~ Visible(c)' => Left(c) = 1
<1> DEFINE u == Login[c].user
           p == Login[c].platform
<1>1. online'[u] = Aged(online[u]) /\ SetOK(online[u])
  BY LoginFacts DEF Tick, DataInv
<1>2. DOMAIN online'[u] = DOMAIN online[u]
  BY <1>1 DEF Aged
<1>3. p \in DOMAIN online[u] =>
        /\ online[u][p] \in Nat
        /\ online'[u][p] = IF online[u][p] = 0 THEN 0 ELSE online[u][p] - 1
  BY <1>1, RoundsAssumption DEF Aged, SetOK
<1> QED
  BY <1>2, <1>3 DEF Visible, Shown, Left

LEMMA TimeKeepsShown ==
  ASSUME PresenceInv, NEW c \in Client, Tick \/ \E u \in User : DropKey(u)
  PROVE  AgeOK(c)' /\ RepairOK(c)'
<1>1. DataInv /\ HubInv /\ AgeOK(c) /\ RepairOK(c)
  BY DEF PresenceInv
<1>2. UNCHANGED <<inbox, call, losses, phase, todo, connection>>
  BY DEF Tick, DropKey, gateway
<1>3. RepairComing(c) => RepairComing(c)'
  BY <1>2 DEF RepairComing, Restores, Alerts, Alerted, connection
<1>4. Live(c)' <=> Live(c)
  BY <1>2 DEF Live, connection
<1>5. ASSUME NEW u \in User, DropKey(u)
      PROVE  AgeOK(c)' /\ RepairOK(c)'
  <2>1. (Visible(c)' <=> Visible(c)) /\ (Visible(c) => Left(c)' = Left(c))
    BY <1>1, <1>5, LoginFacts DEF DropKey, DataInv, Visible, Left, Shown, NoPlatform
  <2>2. due' = due
    BY <1>5 DEF DropKey, gateway
  <2>3. (Reporting(c)' <=> Reporting(c)) /\ (RenewalDue(c)' <=> RenewalDue(c))
    BY <1>2, <2>2 DEF Reporting, RenewalDue, Restores, connection
  <2>4. AgeOK(c)'
    BY <1>1, <1>2, <1>4, <2>1, <2>3, AgeKept
  <2>5. RepairOK(c)'
    BY <1>1, <1>2, <1>3, <1>4, <2>1, RepairKept DEF NoLoss, connection
  <2> QED
    BY <2>4, <2>5
<1>6. CASE Tick
  <2>1. /\ Visible(c)' => Visible(c) /\ Left(c)' = Left(c) - 1
        /\ Visible(c) /\ ~ Visible(c)' => Left(c) = 1
    BY <1>1, <1>6, TickOnClient
  <2>2. Live(c) /\ Visible(c) => losses[<<"dial", c>>] > 0 \/ Left(c) + Missed(c) >= Rounds
    BY <1>6, TickLosesOneRound
  <2>3. Live(c)' => RenewalDue(c)'
    BY <1>4, <1>6, LoginFacts DEF Tick, RenewalDue, Live
  <2>4. /\ Missed(c) \in Nat /\ Missed(c)' = Missed(c)
        /\ Visible(c) => Left(c) \in Nat
    BY <1>1, <1>2, LiveTypes DEF Missed
  <2>5. AgeOK(c)'
    BY <1>2, <1>4, <2>1, <2>2, <2>3, <2>4, RoundsAssumption DEF AgeOK
  <2>6. NoLoss => losses[<<"dial", c>>] = 0 /\ Missed(c) = 0
    BY ProcessFacts, LoginFacts DEF NoLoss, Missed
  <2>7. NoLoss /\ Live(c) /\ Visible(c) => Visible(c)'
    BY <2>1, <2>2, <2>4, <2>6, RoundsAssumption
  <2>8. RepairOK(c)'
    BY <1>1, <1>2, <1>3, <1>4, <2>7 DEF RepairOK, NoLoss, connection
  <2> QED
    BY <2>5, <2>8
<1> QED
  BY <1>5, <1>6

LEMMA GoneStep == HubInv /\ DataInv /\ GoneInv /\ [Next]_vars => GoneInv'
<1> SUFFICES ASSUME HubInv, DataInv, GoneInv, [Next]_vars
             PROVE  GoneInv'
  OBVIOUS
<1> USE DEF GoneInv
<1>1. ASSUME NEW d \in Client,
             \/ CheckLimit(d) \/ RefuseDial(d) \/ HandshakeStep(d)
             \/ EndReading(d) \/ CloseStep(d)
      PROVE  GoneInv'
  <2>1. phase' = phase
    BY <1>1
    DEF CheckLimit, RefuseDial, HandshakeStep, AddToHub, CloseOld, NextOld, Serve,
        EndReading, CloseStep, RemoveFromHub, ReportOffline, CloseConn, gateway
  <2>2. listed' \subseteq listed \/ (AddToHub(d) /\ listed' \subseteq listed \cup {d})
    BY <1>1
    DEF CheckLimit, RefuseDial, HandshakeStep, AddToHub, CloseOld, NextOld, Serve,
        EndReading, CloseStep, RemoveFromHub, ReportOffline, CloseConn
  <2>3. \A c \in Client : dial'[c] = "checked" => dial[c] = "checked" \/ phase[Home(c)] = "up"
    BY <1>1, ConnTypes
    DEF CheckLimit, RefuseDial, HandshakeStep, AddToHub, CloseOld, NextOld, Serve,
        EndReading, CloseStep, RemoveFromHub, ReportOffline, CloseConn
  <2>4. AddToHub(d) => dial[d] = "checked"
    BY DEF AddToHub
  <2> QED
    BY <2>1, <2>2, <2>3, <2>4
<1>2. ASSUME NEW x \in Process, CallStep(x) \/ FailScript(x) \/ FailPublish(x)
      PROVE  GoneInv'
  BY <1>2 DEF CallStep, RunScript, PublishChange, FailScript, FailPublish, gateway, connection
<1>3. ASSUME NEW g \in Gateway, Die(g)
      PROVE  GoneInv'
  BY <1>3, LoginFacts DEF Die, DataInv, HubOf
<1>4. ASSUME NEW g \in Gateway, GatewayStep(g) \/ LoseChange(g) \/ Shutdown(g), ~ Die(g)
      PROVE  GoneInv'
  <2>1. UNCHANGED connection
    BY <1>4
    DEF GatewayStep, HandleChange, StartRenewal, RenewUser, StartDrop, DropUser, Exit, LoseChange, Shutdown
  <2>2. \A h \in Gateway : phase'[h] = "down" => phase[h] = "down"
    BY <1>4
    DEF GatewayStep, HandleChange, StartRenewal, RenewUser, StartDrop, DropUser, Exit, LoseChange,
        Shutdown, gateway, DataInv
  <2> QED
    BY <2>1, <2>2, LoginFacts DEF connection
<1>5. CASE Tick \/ \E u \in User : DropKey(u)
  BY <1>5 DEF Tick, DropKey, gateway, connection
<1>6. CASE UNCHANGED vars
  BY <1>6 DEF vars, gateway, connection
<1> QED
  BY <1>1, <1>2, <1>3, <1>4, <1>5, <1>6 DEF Next, Crash

LEMMA PresenceInitial == Init => PresenceInv
<1> SUFFICES ASSUME Init
             PROVE  PresenceInv
  OBVIOUS
<1>1. HubInv
  BY HubInitial
<1>2. DataInv
  BY ProcessFacts DEF Init, DataInv, SetOK, NoPlatform, CallOK, StageOK, NoCall, Free
<1>3. GoneInv /\ \A c \in Client : AgeOK(c) /\ RepairOK(c)
  BY DEF Init, AgeOK, RepairOK, Live, GoneInv
<1> QED
  BY <1>1, <1>2, <1>3 DEF PresenceInv

LEMMA PresenceStep == PresenceInv /\ [Next]_vars => PresenceInv'
<1> SUFFICES ASSUME PresenceInv, [Next]_vars
             PROVE  PresenceInv'
  OBVIOUS
<1>1. HubInv' /\ GoneInv' /\ HubInv /\ DataInv
  BY HubStep, GoneStep DEF PresenceInv
<1> SUFFICES DataInv' /\ \A c \in Client : AgeOK(c)' /\ RepairOK(c)'
  BY <1>1 DEF PresenceInv
<1>2. ASSUME NEW d \in Client,
             \/ CheckLimit(d) \/ RefuseDial(d) \/ HandshakeStep(d)
             \/ EndReading(d) \/ CloseStep(d)
      PROVE  DataInv' /\ \A c \in Client : AgeOK(c)' /\ RepairOK(c)'
  BY <1>1, <1>2, ConnectionKeepsData, ConnectionKeepsShown
<1>3. ASSUME NEW x \in Process, CallStep(x) \/ FailScript(x) \/ FailPublish(x)
      PROVE  DataInv' /\ \A c \in Client : AgeOK(c)' /\ RepairOK(c)'
  BY <1>1, <1>3, CallStepKeepsData, RunScriptKeepsShown, PublishKeepsShown, FailureKeepsShown
  DEF CallStep
<1>4. ASSUME NEW g \in Gateway, Die(g)
      PROVE  DataInv' /\ \A c \in Client : AgeOK(c)' /\ RepairOK(c)'
  BY <1>1, <1>4, DieKeepsData, DieKeepsShown
<1>5. ASSUME NEW g \in Gateway, GatewayStep(g) \/ LoseChange(g) \/ Shutdown(g), ~ Die(g)
      PROVE  DataInv' /\ \A c \in Client : AgeOK(c)' /\ RepairOK(c)'
  BY <1>1, <1>5, GatewayKeepsData, GatewayKeepsShown
<1>6. CASE Tick \/ \E u \in User : DropKey(u)
  BY <1>1, <1>6, TimeKeepsData, TimeKeepsShown
<1>7. CASE UNCHANGED vars
  BY <1>1, <1>7
  DEF vars, redis, gateway, connection, DataInv, CallOK, StageOK, Free, PresenceInv, AgeOK, RepairOK,
      Live, Visible, Left, Reporting, RenewalDue, Missed, NoLoss, RepairComing, Restores, Alerts, Alerted
<1> QED
  BY <1>2, <1>3, <1>4, <1>5, <1>6, <1>7 DEF Next, Crash

-----------------------------------------------------------------------------
(* No connection is open and deaf: Hub.Add, the closes of replaced         *)
(* connections and read loops of any number of clients never lose one.     *)
THEOREM OpenConnectionsListed == Spec => []OpenIsListed
<1>1. HubInv => OpenIsListed
  BY DEF HubInv
<1> QED
  BY <1>1, HubInitial, HubStep, PTL DEF Spec

(* No connection that is over stays in a hub: whoever is listed is being   *)
(* removed, is in its handshake or has a read loop that will close it.     *)
THEOREM ListedConnectionsLeave == Spec => []ListedWillLeave
<1>1. HubInv => ListedWillLeave
  BY DEF HubInv
<1> QED
  BY <1>1, HubInitial, HubStep, PTL DEF Spec

(* A connection nobody shows is about to be shown, as long as no call      *)
(* fails: every script that takes its platform away is followed by a       *)
(* publication its gateway answers, in whatever order the reports of old   *)
(* and new connections of any number of gateways reach Redis.              *)
THEOREM OfflineRepaired == Spec => []OfflineIsRepaired
<1>1. PresenceInv => OfflineIsRepaired
  BY ConnTypes DEF PresenceInv, RepairOK, OfflineIsRepaired, NoLoss, Live
<1> QED
  BY <1>1, PresenceInitial, PresenceStep, PTL DEF Spec

(* Renewals every third of the expiry keep a live connection shown, unless *)
(* its own report or as many renewals as fit into an expiry failed.        *)
THEOREM RenewalsSuffice == Spec => LiveDoesNotExpire
<1>1. ASSUME PresenceInv, Tick, NEW c \in listed, Visible(c), ~ Visible(c)'
      PROVE  losses[<<"dial", c>>] > 0 \/ losses[<<"renewal", Home(c)>>] >= Rounds - 1
  <2>1. c \in Client /\ DataInv
    BY <1>1, ConnTypes DEF PresenceInv
  <2>2. Left(c) = 1
    BY <1>1, <2>1, TickOnClient
  <2>3. losses[<<"dial", c>>] > 0 \/ Left(c) + Missed(c) >= Rounds
    <3>1. Home(c) \in Gateway /\ phase[Home(c)] = "up"
      BY <1>1, <2>1, LoginFacts DEF PresenceInv, GoneInv, DataInv, Tick
    <3> QED
      BY <1>1, <2>1, <3>1, TickLosesOneRound DEF Live
  <2>4. Missed(c) \in Nat
    BY <2>1, LiveTypes
  <2> QED
    BY <2>2, <2>3, <2>4, RoundsAssumption DEF Missed
<1>2. PresenceInv =>
        [Tick => \A c \in listed :
           Visible(c) /\ ~ Visible(c)' =>
             losses[<<"dial", c>>] > 0 \/ losses[<<"renewal", Home(c)>>] >= Rounds - 1]_vars
  BY <1>1
<1> QED
  BY <1>2, PresenceInitial, PresenceStep, PTL DEF Spec, LiveDoesNotExpire

-----------------------------------------------------------------------------
(* Type correctness.  What the data invariant leaves open: that sets of    *)
(* platforms and calls are the records and functions they should be, and   *)
(* what DropOnline has yet to take back.                                   *)

PlatformSets == UNION {[P -> 0..Rounds] : P \in SUBSET Platform}
Scripts == [pc : {"script"}, user : User, on : SUBSET Platform, off : SUBSET Platform]
Publications == [pc : {"publish"}, user : User, ids : SUBSET Platform]
Calls == {NoCall} \cup Scripts \cup Publications

RecordsInv ==
  /\ online \in [User -> PlatformSets]
  /\ call \in [Process -> Calls]
  /\ \A g \in Gateway : phase[g] = "dropping" => \A row \in todo[g] : row.ids \subseteq Platform

LEMMA PlatformSetsIs == \A z : z \in PlatformSets <=> \E P \in SUBSET Platform : z \in [P -> 0..Rounds]
BY DEF PlatformSets

LEMMA PlatformSetIntro ==
  ASSUME NEW P \in SUBSET Platform, NEW z \in [P -> 0..Rounds]
  PROVE  z \in PlatformSets
BY PlatformSetsIs

LEMMA PlatformSetType ==
  ASSUME NEW z \in PlatformSets
  PROVE  DOMAIN z \in SUBSET Platform /\ \A p \in DOMAIN z : z[p] \in 0..Rounds
<1>1. PICK P \in SUBSET Platform : z \in [P -> 0..Rounds]
  BY PlatformSetsIs
<1> QED
  BY <1>1

LEMMA SetScriptTyped ==
  ASSUME NEW z \in PlatformSets, NEW on \in SUBSET Platform, NEW off
  PROVE  SetScript(z, on, off, Rounds) \in PlatformSets
<1> DEFINE P == Kept(z, off) \cup on
           y == SetScript(z, on, off, Rounds)
<1>1. DOMAIN z \in SUBSET Platform /\ \A p \in DOMAIN z : z[p] \in 0..Rounds
  BY PlatformSetType
<1>2. P \in SUBSET Platform /\ \A p \in P : p \in on \/ p \in DOMAIN z
  BY <1>1 DEF Kept, Shown
<1>3. y = [p \in P |-> IF p \in on THEN Rounds ELSE z[p]]
  BY DEF SetScript
<1>4. y \in [P -> 0..Rounds]
  BY <1>1, <1>2, <1>3, RoundsAssumption
<1> HIDE DEF P, y
<1>5. y \in PlatformSets
  BY <1>2, <1>4, PlatformSetIntro
<1> QED
  BY <1>5 DEF y

LEMMA AgedTyped ==
  ASSUME NEW z \in PlatformSets
  PROVE  Aged(z) \in PlatformSets
<1>1. DOMAIN z \in SUBSET Platform /\ \A p \in DOMAIN z : z[p] \in 0..Rounds
  BY PlatformSetType
<1>2. Aged(z) \in [DOMAIN z -> 0..Rounds]
  BY <1>1, RoundsAssumption DEF Aged
<1> QED
  BY <1>1, <1>2, PlatformSetIntro

LEMMA NoPlatformTyped == NoPlatform \in PlatformSets
<1>1. NoPlatform \in [{} -> 0..Rounds] /\ {} \in SUBSET Platform
  BY DEF NoPlatform
<1> QED
  BY <1>1, PlatformSetIntro

LEMMA CallsPut ==
  ASSUME call \in [Process -> Calls], NEW x \in Process, NEW r \in Calls,
         call' = [call EXCEPT ![x] = r]
  PROVE  call' \in [Process -> Calls]
OBVIOUS

LEMMA ReportTyped ==
  ASSUME call \in [Process -> Calls], NEW x \in Process, NEW u \in User,
         NEW on \in SUBSET Platform, NEW off \in SUBSET Platform, Report(x, u, on, off)
  PROVE  call' \in [Process -> Calls]
<1>1. [pc |-> "script", user |-> u, on |-> on, off |-> off] \in Scripts
  BY DEF Scripts
<1>2. [pc |-> "script", user |-> u, on |-> on, off |-> off] \in Calls
  BY <1>1 DEF Calls
<1> QED
  BY <1>2, CallsPut DEF Report

LEMMA ScriptRecord ==
  ASSUME NEW c \in Calls, c.pc = "script"
  PROVE  c.user \in User /\ c.on \in SUBSET Platform /\ c.off \in SUBSET Platform
BY DEF Calls, NoCall, Scripts, Publications

LEMMA CallStepTyped ==
  ASSUME DataInv, RecordsInv, NEW x \in Process, CallStep(x) \/ FailScript(x) \/ FailPublish(x)
  PROVE  RecordsInv'
<1>1. call[x] \in Calls /\ call \in [Process -> Calls] /\ online \in [User -> PlatformSets]
  BY DEF RecordsInv
<1>2. UNCHANGED <<phase, todo>>
  BY DEF CallStep, RunScript, FailScript, PublishChange, FailPublish, gateway
<1>3. ASSUME ApplyScript(call[x]), call[x].pc = "script"
      PROVE  /\ online' \in [User -> PlatformSets]
             /\ call[x].user \in User
             /\ DOMAIN online'[call[x].user] \in SUBSET Platform
  <2>1. call[x].user \in User /\ call[x].on \in SUBSET Platform
    BY <1>1, <1>3, ScriptRecord
  <2>2. SetScript(online[call[x].user], call[x].on, call[x].off, Rounds) \in PlatformSets
    BY <1>1, <2>1, SetScriptTyped
  <2>3. online' \in [User -> PlatformSets]
    BY <1>1, <1>3, <2>2 DEF ApplyScript
  <2>4. online'[call[x].user] \in PlatformSets
    BY <2>1, <2>3
  <2> QED
    BY <2>1, <2>3, <2>4, PlatformSetType
<1>4. NoCall \in Calls
  BY DEF Calls
<1>5. online' \in [User -> PlatformSets]
  <2>1. CASE RunScript(x) \/ FailScript(x)
    BY <1>1, <1>3, <2>1 DEF RunScript, FailScript
  <2>2. CASE PublishChange(x) \/ FailPublish(x)
    BY <1>1, <2>2 DEF PublishChange, FailPublish
  <2> QED
    BY <2>1, <2>2 DEF CallStep
<1>6. call' \in [Process -> Calls]
  <2>1. CASE RunScript(x)
    <3> DEFINE r == [pc |-> "publish", user |-> call[x].user, ids |-> DOMAIN online'[call[x].user]]
    <3>1. r \in Publications
      BY <1>3, <2>1 DEF RunScript, Publications
    <3>2. r \in Calls
      BY <3>1 DEF Calls
    <3>3. call' = [call EXCEPT ![x] = r] \/ call' = [call EXCEPT ![x] = NoCall]
      BY <2>1 DEF RunScript
    <3> HIDE DEF r
    <3> QED
      BY <1>1, <1>4, <3>2, <3>3, CallsPut
  <2>2. CASE PublishChange(x) \/ FailScript(x) \/ FailPublish(x)
    <3>1. call' = [call EXCEPT ![x] = NoCall]
      BY <2>2 DEF PublishChange, FailScript, FailPublish
    <3> QED
      BY <1>1, <1>4, <3>1, CallsPut
  <2> QED
    BY <2>1, <2>2 DEF CallStep
<1> QED
  BY <1>2, <1>5, <1>6 DEF RecordsInv

LEMMA ConnectionTyped ==
  ASSUME HubInv, RecordsInv, NEW c \in Client,
         \/ CheckLimit(c) \/ RefuseDial(c) \/ HandshakeStep(c)
         \/ EndReading(c) \/ CloseStep(c)
  PROVE  RecordsInv'
<1>1. UNCHANGED <<online, gateway>>
  BY DEF CheckLimit, RefuseDial, HandshakeStep, AddToHub, CloseOld, NextOld, Serve,
         EndReading, CloseStep, RemoveFromHub, ReportOffline, CloseConn, redis
<1>2. call \in [Process -> Calls]
  BY DEF RecordsInv
<1>3. <<"dial", c>> \in Process /\ <<"close", c>> \in Process
  BY ProcessFacts
<1>4. /\ Login[c].user \in User /\ {} \in SUBSET Platform
      /\ {Login[c].platform} \in SUBSET Platform
  BY LoginFacts
<1>5. call' \in [Process -> Calls]
  <2>1. CASE Serve(c)
    <3>1. Report(<<"dial", c>>, Login[c].user, {Login[c].platform}, {})
      BY <2>1 DEF Serve
    <3> QED
      BY <1>2, <1>3, <1>4, <3>1, ReportTyped
  <2>2. CASE ReportOffline(c)
    <3>1. CASE Report(<<"close", c>>, Login[c].user, {}, {Login[c].platform})
      BY <1>2, <1>3, <1>4, <3>1, ReportTyped
    <3> QED
      BY <1>2, <2>2, <3>1 DEF ReportOffline
  <2>3. CASE UNCHANGED call
    BY <1>2, <2>3
  <2>4. \/ Serve(c) \/ ReportOffline(c) \/ UNCHANGED call
    BY DEF CheckLimit, RefuseDial, HandshakeStep, AddToHub, CloseOld, NextOld,
           EndReading, CloseStep, RemoveFromHub, CloseConn, redis
  <2> QED
    BY <2>1, <2>2, <2>3, <2>4
<1> QED
  BY <1>1, <1>5 DEF RecordsInv, gateway

LEMMA GatewayTyped ==
  ASSUME HubInv, DataInv, RecordsInv, NEW g \in Gateway,
         GatewayStep(g) \/ LoseChange(g) \/ Shutdown(g),
         ~ Die(g)
  PROVE  RecordsInv'
<1>1. online' \in [User -> PlatformSets]
  BY DEF GatewayStep, HandleChange, StartRenewal, RenewUser, StartDrop, DropUser, Exit,
         LoseChange, Shutdown, redis, RecordsInv
<1>2. call \in [Process -> Calls] /\ {} \in SUBSET Platform
  BY DEF RecordsInv
<1>3. /\ <<"subscriber", g>> \in Process /\ <<"renewal", g>> \in Process
      /\ <<"drop", g>> \in Process
  BY ProcessFacts
<1>4. CASE HandleChange(g)
  <2> DEFINE m == Head(inbox[g])
             missing == Platforms(g, m.user) \ m.ids
  <2>1. m.user \in User
    <3>1. inbox[g] \in Seq(Change) /\ inbox[g] # <<>>
      BY <1>4 DEF HandleChange, DataInv
    <3>2. m \in Change
      BY <3>1, QueueFacts
    <3> QED
      BY <3>2 DEF Change
  <2>2. missing \in SUBSET Platform
    BY PlatformsType
  <2>3. UNCHANGED call \/ Report(<<"subscriber", g>>, m.user, missing, {})
    BY <1>4 DEF HandleChange
  <2> HIDE DEF m, missing
  <2>4. call' \in [Process -> Calls]
    BY <1>2, <1>3, <2>1, <2>2, <2>3, ReportTyped
  <2> QED
    BY <1>1, <1>4, <2>4 DEF HandleChange, RecordsInv, gateway
<1>5. CASE StartRenewal(g)
  <2>1. /\ UNCHANGED <<call, phase>> /\ phase[g] = "up"
        /\ \A h \in Gateway : h # g => todo'[h] = todo[h]
    BY <1>5 DEF StartRenewal, redis, DataInv
  <2> QED
    BY <1>1, <2>1 DEF RecordsInv
<1>6. ASSUME NEW u \in User, RenewUser(g, u)
      PROVE  RecordsInv'
  <2>1. Platforms(g, u) \in SUBSET Platform
    BY PlatformsType
  <2>2. UNCHANGED call \/ Report(<<"renewal", g>>, u, Platforms(g, u), {})
    BY <1>6 DEF RenewUser
  <2>3. call' \in [Process -> Calls]
    BY <1>2, <1>3, <2>1, <2>2, ReportTyped
  <2>4. /\ UNCHANGED phase /\ phase[g] = "up"
        /\ \A h \in Gateway : h # g => todo'[h] = todo[h]
    BY <1>6 DEF RenewUser, DataInv
  <2> QED
    BY <1>1, <2>3, <2>4 DEF RecordsInv
<1>7. CASE StartDrop(g)
  <2>1. /\ UNCHANGED call
        /\ \A h \in Gateway : h # g => phase'[h] = phase[h] /\ todo'[h] = todo[h]
    BY <1>7 DEF StartDrop, redis, DataInv
  <2>2. \A row \in todo'[g] : row.ids \subseteq Platform
    BY <1>7, PlatformsType DEF StartDrop, DataInv
  <2> QED
    BY <1>1, <2>1, <2>2 DEF RecordsInv
<1>8. ASSUME NEW row \in todo[g], DropUser(g, row)
      PROVE  RecordsInv'
  <2>1. row.user \in User /\ row.ids \in SUBSET Platform
    BY <1>8 DEF DropUser, DataInv, RecordsInv
  <2>2. Report(<<"drop", g>>, row.user, {}, row.ids)
    BY <1>8 DEF DropUser
  <2>3. call' \in [Process -> Calls]
    BY <1>2, <1>3, <2>1, <2>2, ReportTyped
  <2>4. /\ UNCHANGED phase
        /\ \A h \in Gateway : todo'[h] \subseteq todo[h]
    BY <1>8 DEF DropUser, DataInv
  <2> QED
    BY <1>1, <2>3, <2>4 DEF RecordsInv
<1>9. CASE LoseChange(g)
  BY <1>1, <1>9 DEF LoseChange, RecordsInv, gateway
<1>10. CASE Shutdown(g)
  <2>1. /\ UNCHANGED call
        /\ \A h \in Gateway : phase'[h] = "dropping" => phase[h] = "dropping" /\ todo'[h] = todo[h]
    BY <1>10 DEF Shutdown, DataInv
  <2> QED
    BY <1>1, <2>1 DEF RecordsInv
<1> QED
  BY <1>4, <1>5, <1>6, <1>7, <1>8, <1>9, <1>10 DEF GatewayStep, Exit

LEMMA DieTyped ==
  ASSUME DataInv, RecordsInv, NEW g \in Gateway, Die(g)
  PROVE  RecordsInv'
<1>1. NoCall \in Calls
  BY DEF Calls
<1>2. call' \in [Process -> Calls]
  BY <1>1 DEF Die, RecordsInv
<1>3. online' = online
  BY DEF Die
<1>4. \A h \in Gateway : phase'[h] = "dropping" => phase[h] = "dropping" /\ todo'[h] = todo[h]
  BY DEF Die, DataInv
<1> QED
  BY <1>2, <1>3, <1>4 DEF RecordsInv

LEMMA TimeTyped ==
  ASSUME RecordsInv, Tick \/ \E u \in User : DropKey(u)
  PROVE  RecordsInv'
<1>1. UNCHANGED <<call, phase, todo>>
  BY DEF Tick, DropKey, gateway
<1>2. online' \in [User -> PlatformSets]
  BY AgedTyped, NoPlatformTyped DEF Tick, DropKey, RecordsInv
<1> QED
  BY <1>1, <1>2 DEF RecordsInv

LEMMA RecordsInitial == Init => RecordsInv
BY NoPlatformTyped DEF Init, RecordsInv, Calls

LEMMA RecordsStep == PresenceInv /\ RecordsInv /\ [Next]_vars => RecordsInv'
<1> SUFFICES ASSUME PresenceInv, RecordsInv, [Next]_vars
             PROVE  RecordsInv'
  OBVIOUS
<1>1. HubInv /\ DataInv
  BY DEF PresenceInv
<1>2. ASSUME NEW c \in Client,
             \/ CheckLimit(c) \/ RefuseDial(c) \/ HandshakeStep(c)
             \/ EndReading(c) \/ CloseStep(c)
      PROVE  RecordsInv'
  BY <1>1, <1>2, ConnectionTyped
<1>3. ASSUME NEW x \in Process, CallStep(x) \/ FailScript(x) \/ FailPublish(x)
      PROVE  RecordsInv'
  BY <1>1, <1>3, CallStepTyped
<1>4. ASSUME NEW g \in Gateway, Die(g)
      PROVE  RecordsInv'
  BY <1>1, <1>4, DieTyped
<1>5. ASSUME NEW g \in Gateway, GatewayStep(g) \/ LoseChange(g) \/ Shutdown(g), ~ Die(g)
      PROVE  RecordsInv'
  BY <1>1, <1>5, GatewayTyped
<1>6. CASE Tick \/ \E u \in User : DropKey(u)
  BY <1>6, TimeTyped
<1>7. CASE UNCHANGED vars
  BY <1>7 DEF vars, redis, gateway, RecordsInv
<1> QED
  BY <1>2, <1>3, <1>4, <1>5, <1>6, <1>7 DEF Next, Crash

(* Redis, the goroutines' calls, the gateways and the connections stay     *)
(* within their types.                                                     *)
THEOREM PresenceTypeOK == Spec => []TypeOK
<1>1. PresenceInv /\ RecordsInv => TypeOK
  BY DEF PresenceInv, HubInv, ConnTypeOK, DataInv, RecordsInv, TypeOK, Change,
         PlatformSets, Calls, Scripts, Publications
<1> QED
  BY <1>1, PresenceInitial, PresenceStep, RecordsInitial, RecordsStep, PTL DEF Spec
=============================================================================

---------------------------- MODULE CallRegistry ----------------------------
(***************************************************************************)
(* What the call board promises, without locks, keys or clocks: a call is  *)
(* opened between two people who are in no other open call, is answered at *)
(* most once, and stays over once it is over.                              *)
(***************************************************************************)
EXTENDS FiniteSets

CONSTANTS User,    \* people
          CallID   \* identities a call can get, never used twice

VARIABLES phase,   \* how far each call has come
          who      \* the people in each open call

vars == <<phase, who>>

Phase == {"new", "ringing", "accepted", "over"}
Open(c) == phase[c] \in {"ringing", "accepted"}
Engaged(u) == \E c \in CallID : Open(c) /\ u \in who[c]

(* Every call is in a phase, with a set of people. *)
TypeOK ==
  /\ phase \in [CallID -> Phase]
  /\ who \in [CallID -> SUBSET User]

Init ==
  /\ phase = [c \in CallID |-> "new"]
  /\ who = [c \in CallID |-> {}]

Begin(c, u, v) ==
  /\ phase[c] = "new"
  /\ u # v
  /\ ~Engaged(u) /\ ~Engaged(v)
  /\ phase' = [phase EXCEPT ![c] = "ringing"]
  /\ who' = [who EXCEPT ![c] = {u, v}]

Answer(c) ==
  /\ phase[c] = "ringing"
  /\ phase' = [phase EXCEPT ![c] = "accepted"]
  /\ UNCHANGED who

\* Several calls may end at once: keys that expire at the same instant.
Finish(S) ==
  /\ S # {}
  /\ \A c \in S : Open(c)
  /\ phase' = [c \in CallID |-> IF c \in S THEN "over" ELSE phase[c]]
  /\ who' = [c \in CallID |-> IF c \in S THEN {} ELSE who[c]]

Next ==
  \/ \E c \in CallID, u, v \in User : Begin(c, u, v)
  \/ \E c \in CallID : Answer(c)
  \/ \E S \in SUBSET CallID : Finish(S)

Spec == Init /\ [][Next]_vars

(* Nobody is in two open calls. *)
Exclusive ==
  \A c, d \in CallID : c # d /\ Open(c) /\ Open(d) => who[c] \cap who[d] = {}
=============================================================================

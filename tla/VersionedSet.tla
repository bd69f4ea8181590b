---------------------------- MODULE VersionedSet ----------------------------
(***************************************************************************)
(* What a service promises the clients that sync from it: a set of one     *)
(* owner and its version log change together, one element at a time: an    *)
(* entry is logged for what is in afterwards, a departure only for what    *)
(* was in and is out.                                                      *)
(* The group service implements it for the joined groups of every user     *)
(* and the relation service for the friends of every user.                 *)
(***************************************************************************)
EXTENDS VersionLog

CONSTANT Elem        \* what the set may hold

VARIABLES
  set,               \* the elements in it
  log                \* the owner's version log

svars == <<set, log>>

Init ==
  /\ set = {}
  /\ log = EmptyLog(Elem)

Insert(e) ==
  /\ e \notin set
  /\ set' = set \cup {e}
  /\ log' = IncrVersion(log, <<e>>, "insert")

\* An element that is in is logged as inserted again: relation's agreement when
\* only one side had ended the friendship.
Renew(e) ==
  /\ e \in set
  /\ log' = IncrVersion(log, <<e>>, "insert")
  /\ UNCHANGED set

Delete(e) ==
  /\ e \in set
  /\ set' = set \ {e}
  /\ log' = IncrVersion(log, <<e>>, "delete")

Update(e) ==
  /\ e \in set
  /\ log' = IncrVersion(log, <<e>>, "update")
  /\ UNCHANGED set

Next == \E e \in Elem : Insert(e) \/ Renew(e) \/ Delete(e) \/ Update(e)

Spec == Init /\ [][Next]_svars
-----------------------------------------------------------------------------
TypeOK ==
  /\ set \subseteq Elem
  /\ log \in Logs(Elem)

\* The row of an element, read at any time, tells whether it is in the set, and
\* no row is newer than the head: what lets a reader apply rows out of order.
LogTellsSet ==
  \A e \in Elem : /\ e \in set <=> log.row[e].state # "delete"
                  /\ log.row[e].ver <= log.ver
=============================================================================

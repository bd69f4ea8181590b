----------------------------- MODULE VersionLog -----------------------------
(***************************************************************************)
(* The version log behind incremental sync, kept per owner: a head with    *)
(* the owner's version and one row per element holding its last change.    *)
(* The group service (joined groups and members) and the relation service  *)
(* (friends) write it with the same code inside the transaction that       *)
(* changes the rows it describes.                                          *)
(*                                                                         *)
(* A log is a value [ver, row]; row[e].ver = 0 says that e has no row.     *)
(* The random version id is drawn once, with the head, and a head exists   *)
(* exactly when ver > 0, so "no version id" is version 0.                  *)
(***************************************************************************)
EXTENDS Naturals, Sequences

States == {"insert", "delete", "update"}

NoRow == [state |-> "delete", ver |-> 0]

EmptyLog(Elems) == [ver |-> 0, row |-> [e \in Elems |-> NoRow]]

Logs(Elems) == [ver : Nat, row : [Elems -> [state : States, ver : Nat]]]

\* ON DUPLICATE KEY UPDATE that leaves the state of the row.
IncrVersion_KeepsState(log, eids, state) ==
  [ver |-> log.ver + Len(eids),
   row |-> [e \in DOMAIN log.row |->
              IF \E i \in DOMAIN eids : eids[i] = e
              THEN [state |-> IF log.row[e].ver = 0 THEN state ELSE log.row[e].state,
                    ver |-> log.ver + (CHOOSE i \in DOMAIN eids : eids[i] = e)]
              ELSE log.row[e]]]

\* incrVersion: the head is locked, the elements take the next versions in the
\* order of the batch, and each element's only row is overwritten.
IncrVersion(log, eids, state) ==
  [ver |-> log.ver + Len(eids),
   row |-> [e \in DOMAIN log.row |->
              IF \E i \in DOMAIN eids : eids[i] = e
              THEN [state |-> state,
                    ver |-> log.ver + (CHOOSE i \in DOMAIN eids : eids[i] = e)]
              ELSE log.row[e]]]

\* versionChanges without its LIMIT: the elements that changed after a version.
Changes(log, version) == {e \in DOMAIN log.row : log.row[e].ver > version}

\* splitIDs: the changed elements by the kind of their last change.
Deleted(log, ids) == {e \in ids : log.row[e].state = "delete"}
Present(log, ids) == ids \ Deleted(log, ids)
=============================================================================

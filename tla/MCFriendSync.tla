---------------------------- MODULE MCFriendSync ----------------------------
(* One friend who comes and goes, seen through the caches of a process.      *)
EXTENDS FriendSync

CONSTANTS e1, i1, w1, d1
=============================================================================

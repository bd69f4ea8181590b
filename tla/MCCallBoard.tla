---------------------------- MODULE MCCallBoard ----------------------------
(* Three people and three calls: a busy callee, a late script of a finished *)
(* call and locks that expire all happen.                                   *)
EXTENDS CallBoard
=============================================================================

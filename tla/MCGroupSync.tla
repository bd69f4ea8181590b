---------------------------- MODULE MCGroupSync -----------------------------
(* Two groups on two pages and a request that lists them.                   *)
EXTENDS GroupSync

CONSTANTS a, b, s1
=============================================================================

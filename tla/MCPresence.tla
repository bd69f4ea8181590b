----------------------------- MODULE MCPresence -----------------------------
(* One person's two connections on one platform of one gateway: the later   *)
(* replaces the earlier.                                                    *)
EXTENDS Presence, TLC

CONSTANTS g1, c1, c2

OnWeb == [home |-> g1, user |-> "u", platform |-> "web"]
MCReplace == (c1 :> OnWeb) @@ (c2 :> OnWeb)
=============================================================================

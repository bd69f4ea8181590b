---------------------------- MODULE MCCallSignal ----------------------------
(* Two people, one of them on two devices, or four people on one each. *)
EXTENDS CallSignal

MCOwnerOf == [n \in Conn |-> IF n = "a1" THEN "a" ELSE "b"]
MCOneEach == ("a1" :> "a") @@ ("b1" :> "b") @@ ("c1" :> "c") @@ ("d1" :> "d")
\* Calls and requests are only compared for equality.
Symmetry == Permutations(CallID) \cup Permutations(Handler)
=============================================================================

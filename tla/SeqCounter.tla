----------------------------- MODULE SeqCounter -----------------------------
(***************************************************************************)
(* What Malloc promises: reservations of consecutive numbers of one        *)
(* conversation, each starting right after the one before.                 *)
(***************************************************************************)
EXTENDS Naturals, Sequences

CONSTANT MaxBatch    \* numbers one reservation may take

VARIABLE granted     \* history: the reservations, in order

Top == IF granted = <<>> THEN 0 ELSE granted[Len(granted)].hi

Init == granted = <<>>
Grant(n) == granted' = Append(granted, [lo |-> Top + 1, hi |-> Top + n])
Next == \E n \in 1..MaxBatch : Grant(n)
Spec == Init /\ [][Next]_granted
=============================================================================

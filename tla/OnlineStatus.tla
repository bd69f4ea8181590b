---------------------------- MODULE OnlineStatus ----------------------------
(***************************************************************************)
(* pkg/online: the platforms one user is online on, as a Redis sorted set. *)
(* A set is a function from its members to the rounds of renewals left     *)
(* before the member expires; zero is a member that has expired and is     *)
(* still there, because only the next script drops it.                     *)
(***************************************************************************)
EXTENDS Integers

NoPlatform == [p \in {} |-> 0]

\* ZRANGE would name the expired members as well.
Shown_Expired(z) == DOMAIN z

\* Status.members, behind Get and List: ZRANGEBYSCORE from now on.
Shown(z) == {p \in DOMAIN z : z[p] > 0}

\* setScript: drop the expired, remove offline, add online with a full expiry.
Kept(z, off) == Shown(z) \ off
\* ZADD NX would keep the score of a member that is there.
SetScript_NX(z, on, off, full) ==
  [p \in Kept(z, off) \cup on |-> IF p \in Kept(z, off) THEN z[p] ELSE full]
SetScript(z, on, off, full) ==
  [p \in Kept(z, off) \cup on |-> IF p \in on THEN full ELSE z[p]]

\* The script counts members before, after the removals and after the additions.
Changed(z, on, off) == Kept(z, off) # DOMAIN z \/ ~ on \subseteq Kept(z, off)

\* One renewal period passes.
Aged_Below(z) == [p \in DOMAIN z |-> z[p] - 1]
Aged(z) == [p \in DOMAIN z |-> IF z[p] = 0 THEN 0 ELSE z[p] - 1]
=============================================================================

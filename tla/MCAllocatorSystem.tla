------------------------- MODULE MCAllocatorSystem -------------------------
(* Small instances of AllocatorSystem for TLC. *)
EXTENDS AllocatorSystem, TLC

CONSTANTS p1, p2, a1, a2

TwoProcs == {p1, p2}
TwoIds == {a1, a2}
TwoAddresses == [p \in TwoProcs |-> IF p = p1 THEN a1 ELSE a2]

\* The two addresses and their clients are interchangeable.
Swap == {p1 :> p2 @@ p2 :> p1 @@ a1 :> a2 @@ a2 :> a1}

Nothing == {}
=============================================================================

------------------------------- MODULE Words -------------------------------
(***************************************************************************)
(* Bit arithmetic on unsigned words, for the map of tables and for netmasks. *)
(***************************************************************************)
EXTENDS Integers

\* (w >> b) & 1
Bit(w, b) == (w \div 2^b) % 2

\* w ^ (1 << b)
FlipBit(w, b) == IF Bit(w, b) = 1 THEN w - 2^b ELSE w + 2^b

\* ffs(3) (external) of a word of n bits: one more than the index of the
\* lowest bit that is set, 0 without one.
ffs(w, n) ==
    IF w = 0 THEN 0
    ELSE 1 + CHOOSE b \in 0 .. n - 1 :
                 Bit(w, b) = 1 /\ \A c \in 0 .. b - 1 : Bit(w, c) = 0
=============================================================================

-------------------------- MODULE MCTableMapWords --------------------------
(* The words of TableMapWords, with their bit operations compared with those *)
(* of the Bitwise module, on every word and every bit.                       *)
EXTENDS TableMapWords, Bitwise

ASSUME BitwiseAssumption ==
    \A w \in 0 .. 2^WordBits - 1, b \in 0 .. WordBits - 1 :
        /\ FlipBit(w, b) = (w ^^ (2^b))
        /\ Bit(w, b) = 1 <=> (w & (2^b)) # 0
        /\ w # 0 => \E k \in 1 .. WordBits :
                       ffs(w, WordBits) = k /\ w % 2^k = 2^(k - 1)
=============================================================================

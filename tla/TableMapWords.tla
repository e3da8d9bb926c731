--------------------------- MODULE TableMapWords ---------------------------
(***************************************************************************)
(* The bitmap of one family as the code has it: an array of WordBits-bit   *)
(* words updated with shifts, masks, XOR and ffs.  Its operations are      *)
(* compared with those of TableMap, the set of free bits that TableServer  *)
(* uses.                                                                   *)
(***************************************************************************)
EXTENDS Words

CONSTANTS NumTables, TableOffset, WordBits,
          UintMod  \* unsigned subtraction wraps here; 2^32 in the code

VARIABLE words   \* ctx->tables_inet

Flat == INSTANCE TableMap

\* What TableMap assumes, and that the bits of the map are fewer than the
\* numbers of a uint32_t: a table below the offset, whose difference wraps,
\* is then never taken for one of the map.
ASSUME WordsAssumption ==
    /\ NumTables \in Nat \ {0}
    /\ TableOffset \in Nat \ {0}
    /\ WordBits \in Nat \ {0}
    /\ UintMod \in Nat
    /\ WordBits * Flat!num_table_elements < UintMod

Elements == 0 .. Flat!num_table_elements - 1

\* The set of free bits that an array of words stands for.
Abs(ws) == {b \in Flat!Bits : Bit(ws[b \div WordBits], b % WordBits) = 1}

-----------------------------------------------------------------------------
\* rt_table - table_offset, its word and its bit.
Offset(t) == (t - TableOffset) % UintMod
element_index(t) == Offset(t) \div WordBits
element_bit(t) == Offset(t) % WordBits

\* The scan stops at the first word that is not zero.
Scan(ws) ==
    CHOOSE i \in 0 .. Flat!num_table_elements :
        /\ i = Flat!num_table_elements \/ ws[i] # 0
        /\ \A j \in 0 .. i - 1 : ws[j] = 0

\* The words and the value allocate_table leaves behind.
MutAllocate(ws) ==
    LET i == Scan(ws)
    IN  IF i \notin Elements THEN [words |-> ws, rt_table |-> 0]
        ELSE LET bit == ffs(ws[i], WordBits)
                 rt  == bit + i * WordBits
             IN  [words |-> IF rt > NumTables THEN ws
                            ELSE [ws EXCEPT ![i] = FlipBit(@, bit - 1)],
                  rt_table |-> IF rt > NumTables THEN 0 ELSE rt]
allocate_table(ws) ==
    LET i == Scan(ws)
    IN  IF i \notin Elements THEN [words |-> ws, rt_table |-> 0]
        ELSE LET bit == ffs(ws[i], WordBits)
                 rt  == bit + i * WordBits
             IN  [words |-> [ws EXCEPT ![i] = FlipBit(@, bit - 1)],
                  rt_table |-> IF rt > NumTables THEN 0 ELSE rt]

release_table(ws, t) ==
    [ws EXCEPT ![element_index(t)] = FlipBit(@, element_bit(t))]

MutSetTable(ws, t) ==
    IF element_index(t) >= Flat!num_table_elements THEN ws
    ELSE [ws EXCEPT ![element_index(t)] = FlipBit(@, (element_bit(t) + 1) % WordBits)]
set_table(ws, t) ==
    IF element_index(t) >= Flat!num_table_elements THEN ws
    ELSE [ws EXCEPT ![element_index(t)] = FlipBit(@, element_bit(t))]

is_table_free(ws, t) ==
    /\ element_index(t) < Flat!num_table_elements
    /\ Bit(ws[element_index(t)], element_bit(t)) = 1

-----------------------------------------------------------------------------
\* populate_table_map: every bit of every word is set.
Init == words = [i \in Elements |-> 2^WordBits - 1]

Allocate == words' = allocate_table(words).words

Flip(t) == /\ t - TableOffset \in Flat!Bits
           /\ \/ words' = set_table(words, t)
              \/ words' = release_table(words, t)

\* Tables inside the map and one on either side of it.
Probes == (TableOffset - 1) .. (TableOffset + WordBits * Flat!num_table_elements)

Next == Allocate \/ \E t \in Probes : Flip(t)

Spec == Init /\ [][Next]_words

-----------------------------------------------------------------------------
\* Scanning words with ffs takes the lowest free bit of all words, loses a
\* bit past num_tables, and returns that bit's index plus one, or 0.
AllocateAgrees ==
    LET r == allocate_table(words)
    IN  IF Abs(words) = {}
        THEN r = [words |-> words, rt_table |-> 0]
        ELSE \E b \in Flat!Bits :
                /\ Flat!LowestFree(Abs(words), b)
                /\ Abs(r.words) = Abs(words) \ {b}
                /\ r.rt_table = IF Flat!InRange(b) THEN b + 1 ELSE 0

\* Shift, mask and XOR touch the bit of the table and no other, also for a
\* table just below the offset, whose unsigned difference wraps.
BitOpsAgree ==
    \A t \in Probes :
        /\ is_table_free(words, t) <=> Flat!is_table_free(Abs(words), t)
        /\ Abs(set_table(words, t)) = Flat!set_table(Abs(words), t)
        /\ Flat!Index(t) \in Flat!Bits =>
              Abs(release_table(words, t)) =
                  Flat!release_table(Abs(words), t)
=============================================================================

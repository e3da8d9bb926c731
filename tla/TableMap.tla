------------------------------ MODULE TableMap ------------------------------
(***************************************************************************)
(* The bitmap of free routing tables the server keeps for one address      *)
(* family (ctx->tables_inet, tables_inet6, tables_unspec).  The code keeps *)
(* an array of 32-bit words in which a set bit is a free table; here the   *)
(* array is the set of the indices of its set bits, index WordBits * word  *)
(* + bit.  TableMapWords checks that this view agrees with the words.      *)
(*                                                                         *)
(* Bits past NumTables exist in the last word whenever NumTables is not a  *)
(* multiple of WordBits, and start out free like all others.               *)
(*                                                                         *)
(* In every module a definition named Mut... is a deliberately wrong       *)
(* variant of the one after it, used to test that the properties notice.   *)
(***************************************************************************)
EXTENDS Integers

CONSTANTS
    NumTables,    \* ctx->num_tables
    TableOffset,  \* ctx->table_offset, the first table handed out
    WordBits      \* bits of one element of the map, 32 in the code

\* parse_config refuses a zero num_tables or table_offset.
ASSUME MapAssumption == /\ NumTables \in Nat \ {0}
                        /\ TableOffset \in Nat \ {0}
                        /\ WordBits \in Nat \ {0}

-----------------------------------------------------------------------------

\* configure_rt_tables: how many words are allocated.
num_table_elements ==
    IF NumTables < WordBits THEN 0
    ELSE IF NumTables % WordBits # 0 THEN (NumTables \div WordBits) + 1
    ELSE NumTables \div WordBits

\* Every bit of the allocated words.
Bits == 0 .. (WordBits * num_table_elements) - 1

\* populate_table_map: UINT32_MAX in every word.
AllFree == Bits

\* The tables the configuration promises.
Tables == TableOffset .. (TableOffset + NumTables - 1)

\* The bit of a table: rt_table - table_offset.
Index(t) == t - TableOffset

\* The table of a bit: allocate_table returns the index plus one, the caller
\* subtracts that one again and adds the offset.
TableOf(b) == TableOffset + b

Toggle(m, b) == IF b \in m THEN m \ {b} ELSE m \cup {b}

-----------------------------------------------------------------------------

\* An index outside the map is never free.
is_table_free(m, t) == Index(t) \in Bits /\ Index(t) \in m

\* Flips the bit; an index outside the map is ignored.
set_table(m, t) == IF Index(t) \in Bits THEN Toggle(m, Index(t)) ELSE m

\* Flips the bit, without the bounds check of set_table.
release_table(m, t) == Toggle(m, Index(t))

\* The bit the scan of allocate_table stops at: the lowest free one.
LowestFree(m, b) == b \in m /\ \A c \in m : b <= c

MutInRange(b) == b <= NumTables

\* allocate_table refuses a bit past num_tables only after having cleared it.
InRange(b) == b + 1 <= NumTables
=============================================================================

------------------------ MODULE TableMapWordsProofs ------------------------
(***************************************************************************)
(* The array of words agrees with the set of free bits, for every number   *)
(* of tables, every offset and every width of a word.                      *)
(***************************************************************************)
EXTENDS TableMapWords, WordsProofs

\* The number of words.
N == Flat!num_table_elements

\* Every element of the array is a word of WordBits bits.
WordsType == words \in [Elements -> 0 .. 2^WordBits - 1]

-----------------------------------------------------------------------------
(* Words and bits of an index.                                              *)

\* The words are finitely many, and the map has WordBits bits in each.
LEMMA Sizes ==
    /\ N \in Nat /\ Elements = 0 .. N - 1 /\ WordBits \in Nat \ {0}
    /\ WordBits * N \in Nat /\ Flat!Bits = 0 .. WordBits * N - 1
<1>1. N \in Nat
  BY WordsAssumption DEF N, Flat!num_table_elements
<1> QED
  BY <1>1, WordsAssumption DEF N, Elements, Flat!Bits

\* A bit of the map is one bit of one word.
LEMMA Place ==
    ASSUME NEW b \in Nat
    PROVE  /\ b \div WordBits \in Nat /\ b % WordBits \in 0 .. WordBits - 1
           /\ b = WordBits * (b \div WordBits) + (b % WordBits)
           /\ b \in Flat!Bits <=> b \div WordBits < N
<1> DEFINE q == b \div WordBits
           r == b % WordBits
<1>1. q \in Nat /\ r \in 0 .. WordBits - 1 /\ b = WordBits * q + r
  BY Sizes
<1> HIDE DEF q, r
<1>2. ASSUME q < N PROVE b < WordBits * N
  <2>1. WordBits * (q + 1) <= WordBits * N
    BY <1>1, <1>2, Sizes
  <2> QED
    BY <1>1, <2>1, Sizes
<1>3. ASSUME b < WordBits * N PROVE q < N
  <2> SUFFICES ASSUME N <= q PROVE FALSE
    BY <1>1, Sizes
  <2>1. WordBits * N <= WordBits * q
    BY <1>1, Sizes
  <2> QED
    BY <1>1, <1>3, <2>1, Sizes
<1> QED
  BY <1>1, <1>2, <1>3, Sizes DEF q, r

\* The word of a bit of the map is an element of the array.
LEMMA WordOf ==
    ASSUME NEW b \in Flat!Bits
    PROVE  /\ b \in Nat /\ b \div WordBits \in Elements
           /\ b % WordBits \in 0 .. WordBits - 1
           /\ b = WordBits * (b \div WordBits) + (b % WordBits)
<1>1. b \in Nat
  BY Sizes
<1> DEFINE q == b \div WordBits
<1>2. q \in Nat /\ q < N
  BY <1>1, Place
<1> HIDE DEF q
<1>3. q \in Elements
  BY <1>2, Sizes
<1> QED
  BY <1>1, <1>3, Place DEF q

\* Bit r of word q is bit WordBits * q + r of the map.
LEMMA PlaceOf ==
    ASSUME NEW q \in Nat, NEW r \in 0 .. WordBits - 1
    PROVE  /\ WordBits * q + r \in Nat
           /\ (WordBits * q + r) \div WordBits = q
           /\ (WordBits * q + r) % WordBits = r
<1> DEFINE b == WordBits * q + r
<1>1. b \in Nat /\ b \div WordBits = q
  BY Sizes, DivisionUnique
<1>2. b = WordBits * (b \div WordBits) + (b % WordBits)
  BY <1>1, Place
<1> QED
  BY <1>1, <1>2, Sizes

\* Turning one bit of one word over toggles one bit of the map.
LEMMA FlipIsToggle ==
    ASSUME NEW ws \in [Elements -> 0 .. 2^WordBits - 1], NEW b \in Flat!Bits
    PROVE  LET vs == [ws EXCEPT ![b \div WordBits] =
                                   FlipBit(@, b % WordBits)]
           IN  /\ vs \in [Elements -> 0 .. 2^WordBits - 1]
               /\ Abs(vs) = Flat!Toggle(Abs(ws), b)
<1> DEFINE i == b \div WordBits
           r == b % WordBits
           vs == [ws EXCEPT ![i] = FlipBit(@, r)]
<1>1. /\ b \in Nat /\ i \in Elements /\ r \in 0 .. WordBits - 1
      /\ b = WordBits * i + r
  BY WordOf
<1> HIDE DEF i, r
<1>2. ws[i] \in 0 .. 2^WordBits - 1 /\ ws[i] \in Nat
  BY <1>1, Sizes, PowerStep
<1>3. FlipBit(ws[i], r) \in 0 .. 2^WordBits - 1
  BY <1>1, <1>2, Sizes, FlipInWord
<1>4. vs \in [Elements -> 0 .. 2^WordBits - 1]
  BY <1>1, <1>3
<1>5. ASSUME NEW c \in Flat!Bits
      PROVE  Bit(vs[c \div WordBits], c % WordBits) =
               IF c = b THEN 1 - Bit(ws[i], r)
               ELSE Bit(ws[c \div WordBits], c % WordBits)
  <2>1. /\ c \in Nat /\ c \div WordBits \in Elements
        /\ c % WordBits \in 0 .. WordBits - 1
        /\ c = WordBits * (c \div WordBits) + (c % WordBits)
    BY WordOf
  <2> DEFINE s == c % WordBits
  <2> HIDE DEF s
  <2>2. CASE c \div WordBits # i
    <3>1. c # b
      BY <2>2 DEF i
    <3>2. vs[c \div WordBits] = ws[c \div WordBits]
      BY <2>1, <2>2
    <3> QED
      BY <3>1, <3>2
  <2>3. CASE c \div WordBits = i
    <3>1. vs[c \div WordBits] = FlipBit(ws[i], r)
      BY <2>3, <1>1
    <3>2. c = b <=> c % WordBits = r
      <4>1. ASSUME c % WordBits = r PROVE c = b
        BY <4>1, <2>1, <2>3, <1>1
      <4> QED
        BY <4>1 DEF r
    <3>3. s \in Nat /\ r \in Nat
      BY <1>1, <2>1 DEF s
    <3>4. Bit(FlipBit(ws[i], r), s) =
            IF s = r THEN 1 - Bit(ws[i], r) ELSE Bit(ws[i], s)
      BY <1>2, <3>3, FlipBits
    <3> QED
      BY <2>3, <3>1, <3>2, <3>4 DEF s
  <2> QED
    BY <2>2, <2>3
<1>6. Bit(ws[i], r) \in {0, 1}
  BY <1>1, <1>2, BitType
<1> HIDE DEF vs
<1>7. \A c \in Flat!Bits : c \in Abs(vs) <=>
          (IF c = b THEN c \notin Abs(ws) ELSE c \in Abs(ws))
  BY <1>5, <1>6 DEF Abs, i, r
<1>8. Abs(vs) \subseteq Flat!Bits /\ Abs(ws) \subseteq Flat!Bits
  BY DEF Abs
<1>9. Abs(vs) = Flat!Toggle(Abs(ws), b)
  BY <1>7, <1>8 DEF Flat!Toggle
<1> QED
  BY <1>4, <1>9 DEF vs, i, r

-----------------------------------------------------------------------------
(* The index of a table.                                                    *)

\* A table of the map has its index, and the tables just outside of it have
\* an index that is past the map, also the one whose difference wraps.
LEMMA ProbeOffset ==
    ASSUME NEW t \in Probes
    PROVE  /\ Offset(t) \in Nat
           /\ Flat!Index(t) \in Flat!Bits => Offset(t) = Flat!Index(t)
           /\ Flat!Index(t) \notin Flat!Bits => Offset(t) \notin Flat!Bits
<1> DEFINE x == t - TableOffset
           M == WordBits * N
<1>1. /\ x \in Int /\ x >= -1 /\ x <= M /\ M \in Nat /\ M < UintMod
      /\ UintMod \in Nat /\ Flat!Bits = 0 .. M - 1
  BY Sizes, WordsAssumption DEF Probes, N
<1>2. Offset(t) = x % UintMod /\ Flat!Index(t) = x
  BY DEF Offset, Flat!Index
<1> HIDE DEF x, M
<1>3. CASE x = -1
  <2>1. x % UintMod = UintMod - 1
    BY <1>1, <1>3
  <2> QED
    BY <1>1, <1>2, <1>3, <2>1
<1>4. CASE x \in Nat
  <2>1. x % UintMod = x
    BY <1>1, <1>4
  <2> QED
    BY <1>1, <1>2, <1>4, <2>1
<1> QED
  BY <1>1, <1>3, <1>4

\* The bounds check of set_table and is_table_free passes for the tables of
\* the map and for no other.
LEMMA BoundsCheck ==
    ASSUME NEW t \in Probes
    PROVE  /\ element_index(t) < N <=> Flat!Index(t) \in Flat!Bits
           /\ element_index(t) \in Nat
           /\ Flat!Index(t) \in Flat!Bits =>
                /\ element_index(t) = Flat!Index(t) \div WordBits
                /\ element_bit(t) = Flat!Index(t) % WordBits
<1> DEFINE o == Offset(t)
<1>1. /\ o \in Nat
      /\ Flat!Index(t) \in Flat!Bits => o = Flat!Index(t)
      /\ Flat!Index(t) \notin Flat!Bits => o \notin Flat!Bits
  BY ProbeOffset
<1>2. element_index(t) = o \div WordBits /\ element_bit(t) = o % WordBits
  BY DEF element_index, element_bit
<1> HIDE DEF o
<1>3. element_index(t) \in Nat /\ (o \in Flat!Bits <=> element_index(t) < N)
  BY <1>1, <1>2, Place
<1> QED
  BY <1>1, <1>2, <1>3

\* The operations on one table, on an array of words.
LEMMA FlipTable ==
    ASSUME NEW ws \in [Elements -> 0 .. 2^WordBits - 1], NEW t \in Probes
    PROVE  /\ is_table_free(ws, t) <=> Flat!is_table_free(Abs(ws), t)
           /\ set_table(ws, t) \in [Elements -> 0 .. 2^WordBits - 1]
           /\ Abs(set_table(ws, t)) = Flat!set_table(Abs(ws), t)
           /\ Flat!Index(t) \in Flat!Bits =>
                /\ release_table(ws, t) \in [Elements -> 0 .. 2^WordBits - 1]
                /\ Abs(release_table(ws, t)) = Flat!release_table(Abs(ws), t)
<1>1. CASE Flat!Index(t) \in Flat!Bits
  <2> DEFINE b == Flat!Index(t)
  <2>1. /\ element_index(t) < N /\ element_index(t) = b \div WordBits
        /\ element_bit(t) = b % WordBits /\ b \in Flat!Bits
        /\ element_index(t) \in Nat
    BY <1>1, BoundsCheck
  <2> HIDE DEF b
  <2> DEFINE vs == [ws EXCEPT ![b \div WordBits] = FlipBit(@, b % WordBits)]
  <2>2. /\ vs \in [Elements -> 0 .. 2^WordBits - 1]
        /\ Abs(vs) = Flat!Toggle(Abs(ws), b)
    BY <2>1, FlipIsToggle
  <2>3. ~(element_index(t) >= N)
    BY <2>1, Sizes
  <2>4. release_table(ws, t) = vs /\ set_table(ws, t) = vs
    BY <2>1, <2>3 DEF release_table, set_table, N
  <2>5. is_table_free(ws, t) <=> b \in Abs(ws)
    BY <2>1 DEF is_table_free, Abs, N
  <2> HIDE DEF vs
  <2> QED
    BY <2>1, <2>2, <2>4, <2>5
       DEF b, Flat!release_table, Flat!set_table, Flat!is_table_free
<1>2. CASE Flat!Index(t) \notin Flat!Bits
  <2>1. ~(element_index(t) < N) /\ element_index(t) >= N
    BY <1>2, BoundsCheck, Sizes
  <2> QED
    BY <1>2, <2>1
       DEF is_table_free, set_table, Flat!set_table, Flat!is_table_free, N
<1> QED
  BY <1>1, <1>2

-----------------------------------------------------------------------------
(* The scan of allocate_table.                                              *)

\* The scan ends, at the first word that is not zero or past the last one.
LEMMA ScanStops ==
    ASSUME NEW ws \in [Elements -> 0 .. 2^WordBits - 1]
    PROVE  /\ Scan(ws) \in 0 .. N
           /\ Scan(ws) = N \/ ws[Scan(ws)] # 0
           /\ \A j \in 0 .. Scan(ws) - 1 : ws[j] = 0
<1> DEFINE P(i) == /\ i = N \/ ws[i] # 0
                   /\ \A j \in 0 .. i - 1 : ws[j] = 0
           S == {i \in 0 .. N : i = N \/ ws[i] # 0}
<1>1. S \in SUBSET Nat /\ S # {}
  BY Sizes
<1>2. PICK i \in S : \A k \in S : i <= k
  BY <1>1, LeastElement
<1>3. \A j \in 0 .. i - 1 : j \in 0 .. N /\ j \notin S
  BY <1>2, Sizes
<1>4. i \in 0 .. N /\ P(i)
  BY <1>2, <1>3
<1>5. Scan(ws) = CHOOSE k \in 0 .. N : P(k)
  BY DEF Scan, N
<1> HIDE DEF P
<1>6. Scan(ws) \in 0 .. N /\ P(Scan(ws))
  BY <1>4, <1>5
<1> QED
  BY <1>6 DEF P

\* allocate_table takes the lowest free bit of all words, or finds none.
LEMMA AllocateWords ==
    ASSUME NEW ws \in [Elements -> 0 .. 2^WordBits - 1]
    PROVE  LET r == allocate_table(ws)
           IN  /\ r.words \in [Elements -> 0 .. 2^WordBits - 1]
               /\ IF Abs(ws) = {}
                  THEN r = [words |-> ws, rt_table |-> 0]
                  ELSE \E b \in Flat!Bits :
                         /\ Flat!LowestFree(Abs(ws), b)
                         /\ Abs(r.words) = Abs(ws) \ {b}
                         /\ r.rt_table = IF Flat!InRange(b) THEN b + 1 ELSE 0
<1> DEFINE i == Scan(ws)
           r == allocate_table(ws)
<1>1. /\ i \in 0 .. N /\ (i = N \/ ws[i] # 0)
      /\ \A j \in 0 .. i - 1 : ws[j] = 0
  BY ScanStops
<1>2. \A k \in 0 .. WordBits - 1 : Bit(0, k) = 0
  <2>1. ASSUME NEW k \in 0 .. WordBits - 1 PROVE Bit(0, k) = 0
    <3>1. 2^k \in Nat \ {0}
      BY PowerStep
    <3>2. 0 \div 2^k = 0
      BY <3>1
    <3>3. 0 % 2 = 0
      OBVIOUS
    <3> QED
      BY <3>2, <3>3 DEF Bit
  <2> QED
    BY <2>1
<1>3. CASE i = N
  <2>1. r = [words |-> ws, rt_table |-> 0]
    BY <1>3, Sizes DEF allocate_table
  <2>2. \A b \in Flat!Bits : Bit(ws[b \div WordBits], b % WordBits) = 0
    <3>1. ASSUME NEW b \in Flat!Bits
          PROVE  Bit(ws[b \div WordBits], b % WordBits) = 0
      <4>1. b \div WordBits \in Elements /\ b % WordBits \in 0 .. WordBits - 1
        BY WordOf
      <4>2. ws[b \div WordBits] = 0
        BY <1>1, <1>3, <4>1, Sizes
      <4> QED
        BY <4>1, <4>2, <1>2
    <3> QED
      BY <3>1
  <2>3. Abs(ws) = {}
    BY <2>2 DEF Abs
  <2> QED
    BY <2>1, <2>3
<1>4. CASE i # N
  <2> DEFINE f == ffs(ws[i], WordBits)
             k == f - 1
             b == WordBits * i + k
             vs == [ws EXCEPT ![i] = FlipBit(@, k)]
  <2>1. i \in Elements /\ i \in Nat /\ ws[i] \in 0 .. 2^WordBits - 1 /\ ws[i] # 0
    BY <1>1, <1>4, Sizes
  <2>2. /\ k \in 0 .. WordBits - 1 /\ f \in Nat /\ Bit(ws[i], k) = 1
        /\ \A c \in 0 .. k - 1 : Bit(ws[i], c) = 0
    <3>1. /\ k \in 0 .. WordBits - 1 /\ f \in Nat /\ Bit(ws[i], k) = 1
          /\ \A c \in 0 .. f - 2 : Bit(ws[i], c) = 0
      BY <2>1, Sizes, FfsLowest
    <3> HIDE DEF f
    <3>2. f - 2 = k - 1
      BY <3>1
    <3> QED
      BY <3>1, <3>2
  <2>3. r = [words |-> vs,
             rt_table |-> IF f + i * WordBits > NumTables THEN 0
                          ELSE f + i * WordBits]
    BY <2>1 DEF allocate_table
  <2>4. f + i * WordBits = b + 1
    BY <2>1, <2>2, Sizes
  <2> HIDE DEF f, i, r
  <2>5. b \in Nat /\ b \div WordBits = i /\ b % WordBits = k
    BY <2>1, <2>2, PlaceOf
  <2> HIDE DEF k, b
  <2>6. b \in Flat!Bits
    <3>1. i < N
      BY <2>1, Sizes
    <3> QED
      BY <2>5, <3>1, Place
  <2>7. b \in Abs(ws)
    BY <2>2, <2>5, <2>6 DEF Abs
  <2>8. ASSUME NEW c \in Abs(ws) PROVE b <= c
    <3> DEFINE q == c \div WordBits
               s == c % WordBits
    <3>1. /\ c \in Nat /\ q \in Elements /\ s \in 0 .. WordBits - 1
          /\ c = WordBits * q + s /\ Bit(ws[q], s) = 1
      BY WordOf DEF Abs
    <3>2. b = WordBits * i + k
      BY DEF b
    <3> HIDE DEF q, s
    <3>3. ~(q < i)
      <4> SUFFICES ASSUME q < i PROVE FALSE
        OBVIOUS
      <4>1. ws[q] = 0
        BY <3>1, <2>1, <1>1, Sizes DEF i
      <4> QED
        BY <3>1, <4>1, <1>2
    <3>4. CASE q = i
      <4>1. ~(s < k)
        BY <3>1, <3>4, <2>1, <2>2
      <4> QED
        BY <3>1, <3>2, <3>4, <4>1, <2>1, <2>2, Sizes
    <3>5. CASE q > i
      <4>1. WordBits * q >= WordBits * i + WordBits
        BY <3>1, <3>5, <2>1, Sizes
      <4> QED
        <5>1. WordBits * q \in Int /\ WordBits * i \in Int /\ k < WordBits
              /\ k \in Int /\ s >= 0 /\ s \in Int
          BY <3>1, <2>1, <2>2, Sizes
        <5> QED
          BY <3>1, <3>2, <4>1, <5>1, Sizes
    <3>6. q \in Nat
      BY <3>1, Sizes
    <3>7. q < i \/ q = i \/ q > i
      BY <3>6, <2>1
    <3> QED
      BY <3>3, <3>4, <3>5, <3>7
  <2>9. Flat!LowestFree(Abs(ws), b)
    BY <2>7, <2>8 DEF Flat!LowestFree
  <2>10. /\ vs \in [Elements -> 0 .. 2^WordBits - 1]
         /\ Abs(vs) = Flat!Toggle(Abs(ws), b)
    BY <2>5, <2>6, FlipIsToggle
  <2> HIDE DEF vs
  <2>11. Abs(vs) = Abs(ws) \ {b}
    BY <2>7, <2>10 DEF Flat!Toggle
  <2>12. r.rt_table = IF Flat!InRange(b) THEN b + 1 ELSE 0
    BY <2>3, <2>4, <2>5, WordsAssumption DEF Flat!InRange
  <2> QED
    BY <2>3, <2>6, <2>7, <2>9, <2>10, <2>11, <2>12 DEF r
<1> QED
  BY <1>3, <1>4

-----------------------------------------------------------------------------
(* The theorems.                                                            *)

\* populate_table_map and every operation leave words of WordBits bits.
LEMMA WordsTypeInvariant == Spec => []WordsType
<1>1. Init => WordsType
  <2>1. 2^WordBits \in Nat \ {0}
    BY Sizes, PowerStep
  <2> QED
    BY <2>1 DEF Init, WordsType
<1>2. WordsType /\ [Next]_words => WordsType'
  <2> SUFFICES ASSUME WordsType, [Next]_words PROVE WordsType'
    OBVIOUS
  <2>1. CASE Allocate
    BY <2>1, AllocateWords DEF Allocate, WordsType
  <2>2. ASSUME NEW t \in Probes, Flip(t) PROVE WordsType'
    BY <2>2, FlipTable DEF Flip, WordsType, Flat!Index
  <2>3. CASE UNCHANGED words
    BY <2>3 DEF WordsType
  <2> QED
    BY <2>1, <2>2, <2>3 DEF Next
<1> QED
  BY <1>1, <1>2, PTL DEF Spec

\* allocate_table's scan with ffs hands out the lowest free table of the whole
\* map, for every size of the map and of its words: TableServer's choice of
\* the lowest bit is the code's.
THEOREM AllocateIsLowestFree == Spec => []AllocateAgrees
<1>1. WordsType => AllocateAgrees
  BY AllocateWords DEF WordsType, AllocateAgrees
<1> QED
  BY <1>1, WordsTypeInvariant, PTL

\* Shift, mask and XOR read and turn over the bit of the table and no other,
\* for every size of the map and of its words, also where the difference of
\* table and offset wraps.
THEOREM WordOperationsAgree == Spec => []BitOpsAgree
<1>1. WordsType => BitOpsAgree
  BY FlipTable DEF WordsType, BitOpsAgree
<1> QED
  BY <1>1, WordsTypeInvariant, PTL
=============================================================================

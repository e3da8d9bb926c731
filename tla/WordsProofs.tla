---------------------------- MODULE WordsProofs ----------------------------
(***************************************************************************)
(* What the bit operations of Words do, for words of every width.  The     *)
(* library's induction rules take an operator as a parameter; induction    *)
(* over a set of numbers, from the well-foundedness of <, needs none.      *)
(***************************************************************************)
EXTENDS Words, FiniteSetTheorems, FunctionTheorems, WellFoundedInduction, TLAPS

\* A set of natural numbers that is not empty has a least element.
LEMMA LeastElement ==
    ASSUME NEW S \in SUBSET Nat, S # {}
    PROVE  \E m \in S : \A k \in S : m <= k
<1> DEFINE R == OpToRel(<, Nat)
<1>1. IsWellFoundedOn(R, Nat)
  BY NatLessThanWellFounded, Zenon
<1>2. \A x, y \in Nat : <<y, x>> \in R <=> y < x
  BY DEF OpToRel
<1> HIDE DEF R
<1>3. PICK m \in S : \A k \in S : ~(<<k, m>> \in R)
  BY <1>1, WFMin
<1>4. \A k \in S : ~(k < m)
  BY <1>2, <1>3, Zenon
<1>5. \A k \in S : m <= k
  BY <1>4
<1> QED
  BY <1>5

\* Induction: a set with 0 and with the successor of each of its numbers has
\* every natural number.
LEMMA SetInduction ==
    ASSUME NEW S, 0 \in S, \A n \in Nat : n \in S => n + 1 \in S
    PROVE  \A n \in Nat : n \in S
<1> SUFFICES ASSUME Nat \ S # {} PROVE FALSE
  OBVIOUS
<1>1. PICK m \in Nat \ S : \A k \in Nat \ S : m <= k
  BY LeastElement
<1>2. m # 0 /\ m - 1 \in Nat /\ ~(m <= m - 1) /\ (m - 1) + 1 = m
  BY <1>1
<1>3. m - 1 \in S
  BY <1>1, <1>2
<1> QED
  BY <1>1, <1>2, <1>3

-----------------------------------------------------------------------------
(* Powers of two, of which the provers know 2^0 only: they count subsets.   *)

\* The next power is twice the last.
LEMMA PowerStep ==
    ASSUME NEW n \in Nat
    PROVE  2^n \in Nat \ {0} /\ 2^(n + 1) = 2 * 2^n
<1> DEFINE A == 1 .. n
           B == 1 .. n + 1
           New == {x \cup {n + 1} : x \in SUBSET A}
           f == [x \in SUBSET A |-> x \cup {n + 1}]
<1>1. IsFiniteSet(A) /\ Cardinality(A) = n /\ IsFiniteSet(B)
      /\ Cardinality(B) = n + 1
  BY FS_Interval
<1>2. n + 1 \notin A /\ B = A \cup {n + 1}
  OBVIOUS
<1> HIDE DEF A, B
<1>3. /\ IsFiniteSet(SUBSET A) /\ Cardinality(SUBSET A) = 2^n
      /\ IsFiniteSet(SUBSET B) /\ Cardinality(SUBSET B) = 2^(n + 1)
  BY <1>1, FS_SUBSET
<1>4. f \in Bijection(SUBSET A, New)
  <2>1. f \in [SUBSET A -> New]
    OBVIOUS
  <2>2. \A x, y \in SUBSET A : f[x] = f[y] => x = y
    BY <1>2
  <2>3. \A z \in New : \E x \in SUBSET A : f[x] = z
    OBVIOUS
  <2> QED
    BY <2>1, <2>2, <2>3 DEF Bijection, Injection, Surjection, IsInjective
<1>5. IsFiniteSet(New) /\ Cardinality(New) = 2^n
  <2>1. ExistsBijection(SUBSET A, New)
    BY <1>4 DEF ExistsBijection
  <2> QED
    BY <2>1, <1>3, FS_Bijection
<1>6. SUBSET B = (SUBSET A) \cup New
  <2>1. ASSUME NEW x \in SUBSET B, n + 1 \in x PROVE x \in New
    <3>1. x \ {n + 1} \in SUBSET A /\ x = (x \ {n + 1}) \cup {n + 1}
      BY <1>2, <2>1
    <3> QED
      BY <3>1
  <2>2. ASSUME NEW x \in SUBSET B, n + 1 \notin x PROVE x \in SUBSET A
    BY <1>2, <2>2
  <2>3. ASSUME NEW x \in New PROVE x \in SUBSET B
    BY <1>2, <2>3
  <2> QED
    BY <1>2, <2>1, <2>2, <2>3
<1>7. (SUBSET A) \cap New = {}
  BY <1>2
<1> HIDE DEF New
<1>8. Cardinality((SUBSET A) \cap New) = 0
  BY <1>7, FS_EmptySet
<1>9. Cardinality(SUBSET B) = 2^n + 2^n - 0
  BY <1>3, <1>5, <1>6, <1>8, FS_Union
<1>10. 2^n \in Nat /\ 2^n # 0
  <2>1. 2^n \in Nat
    BY <1>3, FS_CardinalityType
  <2>2. {} \in SUBSET A
    OBVIOUS
  <2> QED
    BY <2>1, <2>2, <1>3, FS_EmptySet
<1> QED
  BY <1>3, <1>9, <1>10

-----------------------------------------------------------------------------
(* Halving a word moves every bit down by one.                              *)

\* Quotient and remainder are unique.
LEMMA DivisionUnique ==
    ASSUME NEW d \in Nat \ {0}, NEW q \in Nat, NEW r \in 0 .. d - 1
    PROVE  (d * q + r) \div d = q
<1> DEFINE x == d * q + r
           p == x \div d
           s == x % d
<1>1. x = d * p + s /\ s \in 0 .. d - 1 /\ p \in Nat /\ x \in Nat
  OBVIOUS
<1> HIDE DEF p, s
<1>2. CASE p > q
  <2>1. d * p >= d * q + d
    BY <1>1, <1>2
  <2> QED
    BY <1>1, <2>1
<1>3. CASE p < q
  <2>1. d * q >= d * p + d
    BY <1>1, <1>3
  <2> QED
    BY <1>1, <2>1
<1> QED
  BY <1>1, <1>2, <1>3 DEF p

\* Dividing by 2d is halving and then dividing by d.
LEMMA DivideTwice ==
    ASSUME NEW w \in Nat, NEW d \in Nat \ {0}
    PROVE  w \div (2 * d) = (w \div 2) \div d
<1> DEFINE h == w \div 2
           q == h \div d
           s == h % d
           r == 2 * s + (w % 2)
<1>1. w = 2 * h + (w % 2) /\ w % 2 \in 0 .. 1 /\ h \in Nat
  OBVIOUS
<1>2. h = d * q + s /\ s \in 0 .. d - 1 /\ q \in Nat
  BY <1>1
<1> HIDE DEF h, q, s
<1>3. w = (2 * d) * q + r
  BY <1>1, <1>2
<1>4. r \in 0 .. 2 * d - 1 /\ 2 * d \in Nat \ {0}
  BY <1>1, <1>2
<1> HIDE DEF r
<1>5. w \div (2 * d) = q
  BY <1>2, <1>3, <1>4, DivisionUnique
<1> QED
  BY <1>5 DEF q, h

\* A bit is 0 or 1, and the lowest bit is the parity.
LEMMA BitType ==
    ASSUME NEW w \in Nat, NEW b \in Nat
    PROVE  Bit(w, b) \in {0, 1} /\ Bit(w, 0) = w % 2 /\ w \div 2 \in Nat
<1>1. 2^b \in Nat \ {0} /\ 2^0 = 1
  BY PowerStep
<1>2. w \div 2^b \in Nat /\ w \div 1 = w
  BY <1>1
<1> QED
  BY <1>1, <1>2 DEF Bit

\* Bit b + 1 of a word is bit b of its half.
LEMMA BitOfHalf ==
    ASSUME NEW w \in Nat, NEW b \in Nat
    PROVE  Bit(w, b + 1) = Bit(w \div 2, b)
  BY PowerStep, DivideTwice DEF Bit

\* Flipping the lowest bit leaves the half; flipping another leaves the
\* parity, and flips a bit of the half.
LEMMA FlipOfHalf ==
    ASSUME NEW w \in Nat, NEW b \in Nat
    PROVE  /\ FlipBit(w, 0) \in Nat /\ FlipBit(w, 0) \div 2 = w \div 2
           /\ FlipBit(w, 0) % 2 = 1 - (w % 2)
           /\ FlipBit(w \div 2, b) \in Nat =>
                /\ FlipBit(w, b + 1) \in Nat
                /\ FlipBit(w, b + 1) \div 2 = FlipBit(w \div 2, b)
                /\ FlipBit(w, b + 1) % 2 = w % 2
<1>1. /\ 2^0 = 1 /\ Bit(w, 0) = w % 2 /\ w \div 2 \in Nat
      /\ w = 2 * (w \div 2) + (w % 2) /\ w % 2 \in {0, 1}
  BY BitType
<1>2. FlipBit(w, 0) = IF w % 2 = 1 THEN w - 1 ELSE w + 1
  BY <1>1 DEF FlipBit
<1>3. /\ FlipBit(w, 0) \in Nat /\ FlipBit(w, 0) \div 2 = w \div 2
      /\ FlipBit(w, 0) % 2 = 1 - (w % 2)
  BY <1>1, <1>2
<1>4. ASSUME FlipBit(w \div 2, b) \in Nat
      PROVE  /\ FlipBit(w, b + 1) \in Nat
             /\ FlipBit(w, b + 1) \div 2 = FlipBit(w \div 2, b)
             /\ FlipBit(w, b + 1) % 2 = w % 2
  <2>1. Bit(w, b + 1) = Bit(w \div 2, b) /\ 2^(b + 1) = 2 * 2^b /\ 2^b \in Nat
    BY BitOfHalf, PowerStep
  <2>2. FlipBit(w, b + 1) = 2 * FlipBit(w \div 2, b) + (w % 2)
    BY <1>1, <2>1 DEF FlipBit
  <2> HIDE DEF FlipBit
  <2> DEFINE h == FlipBit(w \div 2, b)
             x == FlipBit(w, b + 1)
  <2>3. h \in Nat /\ x = 2 * h + (w % 2)
    BY <1>4, <2>2
  <2> HIDE DEF h, x
  <2>4. x \in Nat /\ x \div 2 = h /\ x % 2 = w % 2
    BY <1>1, <2>3
  <2> QED
    BY <2>4 DEF h, x
<1> QED
  BY <1>3, <1>4

-----------------------------------------------------------------------------
(* XOR with 1 << b, ffs and leading ones.                                   *)

\* XOR with 1 << b turns bit b over and leaves every other bit.
LEMMA FlipBits ==
    ASSUME NEW w \in Nat, NEW b \in Nat
    PROVE  /\ FlipBit(w, b) \in Nat
           /\ \A c \in Nat : Bit(FlipBit(w, b), c) =
                  IF c = b THEN 1 - Bit(w, b) ELSE Bit(w, c)
<1> DEFINE Good(u, a) ==
             /\ FlipBit(u, a) \in Nat
             /\ \A c \in Nat : Bit(FlipBit(u, a), c) =
                    IF c = a THEN 1 - Bit(u, a) ELSE Bit(u, c)
           S == {a \in Nat : \A u \in Nat : Good(u, a)}
<1>1. 0 \in S
  <2> SUFFICES ASSUME NEW u \in Nat PROVE Good(u, 0)
    OBVIOUS
  <2> DEFINE x == FlipBit(u, 0)
  <2>1. x \in Nat /\ x \div 2 = u \div 2 /\ x % 2 = 1 - (u % 2)
    BY FlipOfHalf
  <2> HIDE DEF x
  <2>2. Bit(x, 0) = 1 - Bit(u, 0)
    BY <2>1, BitType
  <2>3. ASSUME NEW c \in Nat, c # 0 PROVE Bit(x, c) = Bit(u, c)
    <3>1. c - 1 \in Nat /\ (c - 1) + 1 = c
      BY <2>3
    <3>2. Bit(x, c) = Bit(x \div 2, c - 1) /\ Bit(u, c) = Bit(u \div 2, c - 1)
      BY <2>1, <3>1, BitOfHalf
    <3> QED
      BY <2>1, <3>2
  <2> QED
    BY <2>1, <2>2, <2>3 DEF x
<1>2. ASSUME NEW a \in Nat, a \in S PROVE a + 1 \in S
  <2> SUFFICES ASSUME NEW u \in Nat PROVE Good(u, a + 1)
    OBVIOUS
  <2> DEFINE x == FlipBit(u, a + 1)
             h == u \div 2
  <2>1. h \in Nat
    BY BitType
  <2>2. Good(h, a)
    BY <1>2, <2>1
  <2>3. x \in Nat /\ x \div 2 = FlipBit(h, a) /\ x % 2 = u % 2
    BY <2>2, FlipOfHalf
  <2> HIDE DEF x, h
  <2>4. Bit(x, 0) = Bit(u, 0)
    BY <2>3, BitType
  <2>5. ASSUME NEW c \in Nat, c # 0
        PROVE  Bit(x, c) = IF c = a + 1 THEN 1 - Bit(u, a + 1) ELSE Bit(u, c)
    <3>1. c - 1 \in Nat /\ (c - 1) + 1 = c /\ (c = a + 1 <=> c - 1 = a)
      BY <2>5
    <3>2. Bit(x, c) = Bit(FlipBit(h, a), c - 1)
      BY <2>3, <3>1, BitOfHalf
    <3>3. Bit(u, c) = Bit(h, c - 1) /\ Bit(u, a + 1) = Bit(h, a)
      BY <3>1, BitOfHalf DEF h
    <3> QED
      BY <2>2, <3>1, <3>2, <3>3
  <2> QED
    BY <2>3, <2>4, <2>5 DEF x
<1> HIDE DEF S
<1>3. b \in S
  BY <1>1, <1>2, SetInduction
<1> QED
  BY <1>3 DEF S

\* A word of n bits stays one.
LEMMA FlipInWord ==
    ASSUME NEW n \in Nat, NEW w \in 0 .. 2^n - 1, NEW b \in 0 .. n - 1
    PROVE  FlipBit(w, b) \in 0 .. 2^n - 1
<1> DEFINE S == {a \in Nat : \A m \in Nat : \A u \in Nat :
                    a < m /\ u < 2^m => FlipBit(u, a) < 2^m}
<1>0. ASSUME NEW m \in Nat \ {0}, NEW u \in Nat
      PROVE  /\ m - 1 \in Nat /\ 2^m = 2 * 2^(m - 1) /\ 2^(m - 1) \in Nat
             /\ u < 2^m <=> u \div 2 < 2^(m - 1)
  <2>1. m - 1 \in Nat /\ (m - 1) + 1 = m
    OBVIOUS
  <2>2. 2^m = 2 * 2^(m - 1) /\ 2^(m - 1) \in Nat
    BY <2>1, PowerStep
  <2>3. u = 2 * (u \div 2) + (u % 2) /\ u % 2 \in {0, 1} /\ u \div 2 \in Nat
    OBVIOUS
  <2> QED
    BY <2>1, <2>2, <2>3
<1>1. 0 \in S
  <2> SUFFICES ASSUME NEW m \in Nat, NEW u \in Nat, 0 < m, u < 2^m
               PROVE  FlipBit(u, 0) < 2^m
    OBVIOUS
  <2>1. FlipBit(u, 0) \in Nat /\ FlipBit(u, 0) \div 2 = u \div 2
    BY FlipOfHalf
  <2> QED
    BY <1>0, <2>1
<1>2. ASSUME NEW a \in Nat, a \in S PROVE a + 1 \in S
  <2> SUFFICES ASSUME NEW m \in Nat, NEW u \in Nat, a + 1 < m, u < 2^m
               PROVE  FlipBit(u, a + 1) < 2^m
    OBVIOUS
  <2>1. u \div 2 \in Nat /\ u \div 2 < 2^(m - 1) /\ m - 1 \in Nat /\ a < m - 1
    BY <1>0, BitType
  <2>2. FlipBit(u \div 2, a) < 2^(m - 1) /\ FlipBit(u \div 2, a) \in Nat
    BY <1>2, <2>1, FlipBits
  <2>3. FlipBit(u, a + 1) \in Nat
        /\ FlipBit(u, a + 1) \div 2 = FlipBit(u \div 2, a)
    BY <2>2, FlipOfHalf
  <2> QED
    BY <1>0, <2>2, <2>3
<1> HIDE DEF S
<1>3. b \in S
  BY <1>1, <1>2, SetInduction
<1>4. w \in Nat /\ w < 2^n /\ b \in Nat /\ b < n /\ 2^n \in Nat
  BY PowerStep
<1> QED
  BY <1>3, <1>4, FlipBits DEF S

\* A word of n bits that is not 0 has one of them set.
LEMMA SomeBitSet ==
    ASSUME NEW n \in Nat, NEW w \in 0 .. 2^n - 1, w # 0
    PROVE  \E b \in 0 .. n - 1 : Bit(w, b) = 1
<1> DEFINE S == {m \in Nat : \A u \in Nat : u < 2^m /\ u # 0 =>
                    \E b \in 0 .. m - 1 : Bit(u, b) = 1}
<1>1. 0 \in S
  <2>1. 2^0 = 1
    OBVIOUS
  <2> QED
    BY <2>1
<1>2. ASSUME NEW m \in Nat, m \in S PROVE m + 1 \in S
  <2> SUFFICES ASSUME NEW u \in Nat, u < 2^(m + 1), u # 0
               PROVE  \E b \in 0 .. (m + 1) - 1 : Bit(u, b) = 1
    BY <1>2
  <2>1. /\ u = 2 * (u \div 2) + (u % 2) /\ u % 2 \in {0, 1} /\ u \div 2 \in Nat
        /\ Bit(u, 0) = u % 2 /\ 2^(m + 1) = 2 * 2^m /\ 2^m \in Nat
    BY BitType, PowerStep
  <2>2. CASE u % 2 = 1
    BY <2>1, <2>2
  <2>3. CASE u % 2 = 0
    <3>1. u \div 2 < 2^m /\ u \div 2 # 0
      BY <2>1, <2>3
    <3>2. PICK b \in 0 .. m - 1 : Bit(u \div 2, b) = 1
      BY <1>2, <2>1, <3>1
    <3>3. Bit(u, b + 1) = 1 /\ b + 1 \in 0 .. (m + 1) - 1
      BY <3>2, BitOfHalf
    <3> QED
      BY <3>3
  <2> QED
    BY <2>1, <2>2, <2>3
<1> HIDE DEF S
<1>3. n \in S
  BY <1>1, <1>2, SetInduction
<1>4. w \in Nat /\ w < 2^n
  BY PowerStep
<1> QED
  BY <1>3, <1>4 DEF S

\* ffs of a word that is not 0 is one more than the index of a set bit below
\* which no bit is set.
LEMMA FfsLowest ==
    ASSUME NEW n \in Nat, NEW w \in 0 .. 2^n - 1, w # 0
    PROVE  /\ ffs(w, n) - 1 \in 0 .. n - 1 /\ ffs(w, n) \in Nat
           /\ Bit(w, ffs(w, n) - 1) = 1
           /\ \A c \in 0 .. ffs(w, n) - 2 : Bit(w, c) = 0
<1> DEFINE P(b) == Bit(w, b) = 1 /\ \A c \in 0 .. b - 1 : Bit(w, c) = 0
           S == {b \in 0 .. n - 1 : Bit(w, b) = 1}
<1>1. \E b \in 0 .. n - 1 : P(b)
  <2>1. S \in SUBSET Nat /\ S # {}
    BY SomeBitSet
  <2>2. PICK b \in S : \A k \in S : b <= k
    BY <2>1, LeastElement
  <2>3. \A c \in 0 .. b - 1 : c \notin S /\ c \in 0 .. n - 1
    BY <2>2
  <2>4. \A c \in 0 .. b - 1 : Bit(w, c) = 0
    <3>1. w \in Nat
      BY PowerStep
    <3> QED
      BY <2>3, <3>1, BitType
  <2> QED
    BY <2>2, <2>4
<1> DEFINE f == CHOOSE b \in 0 .. n - 1 : P(b)
<1>2. f \in 0 .. n - 1 /\ P(f)
  <2> HIDE DEF P
  <2> QED
    BY <1>1
<1>3. ffs(w, n) = 1 + f
  BY DEF ffs
<1> HIDE DEF f
<1>4. ffs(w, n) - 1 = f /\ ffs(w, n) - 2 = f - 1
  BY <1>2, <1>3
<1> QED
  BY <1>2, <1>3, <1>4

\* ffs is determined by the lowest set bit.
LEMMA FfsUnique ==
    ASSUME NEW n \in Nat, NEW w \in 0 .. 2^n - 1, NEW k \in 0 .. n - 1,
           w # 0, Bit(w, k) = 1, \A c \in 0 .. k - 1 : Bit(w, c) = 0
    PROVE  ffs(w, n) = k + 1
<1> DEFINE f == ffs(w, n) - 1
<1>1. /\ f \in 0 .. n - 1 /\ Bit(w, f) = 1 /\ ffs(w, n) = f + 1
      /\ \A c \in 0 .. f - 1 : Bit(w, c) = 0
  BY FfsLowest
<1> HIDE DEF f
<1>2. f = k
  BY <1>1
<1> QED
  BY <1>1, <1>2

\* n ones followed by k zeros: the lowest set bit is bit k.
LEMMA OnesAndZeros ==
    ASSUME NEW k \in Nat, NEW n \in Nat \ {0}
    PROVE  /\ 2^(k + n) - 2^k \in 1 .. 2^(k + n) - 1
           /\ Bit(2^(k + n) - 2^k, k) = 1
           /\ \A c \in 0 .. k - 1 : Bit(2^(k + n) - 2^k, c) = 0
<1> DEFINE w(a) == 2^(a + n) - 2^a
           S == {a \in Nat : /\ w(a) \in Nat \ {0}
                             /\ Bit(w(a), a) = 1
                             /\ \A c \in 0 .. a - 1 : Bit(w(a), c) = 0}
<1>1. 0 \in S
  <2>1. n - 1 \in Nat /\ (n - 1) + 1 = n /\ 0 + n = n /\ 2^0 = 1
    OBVIOUS
  <2>2. 2^n = 2 * 2^(n - 1) /\ 2^(n - 1) \in Nat \ {0}
    BY <2>1, PowerStep
  <2>3. w(0) \in Nat \ {0} /\ w(0) % 2 = 1
    BY <2>1, <2>2
  <2>4. Bit(w(0), 0) = 1
    <3> HIDE DEF w
    <3> QED BY <2>3, BitType
  <2> HIDE DEF w
  <2> QED
    BY <2>3, <2>4
<1>2. ASSUME NEW a \in Nat, a \in S PROVE a + 1 \in S
  <2>1. a + n \in Nat /\ (a + n) + 1 = (a + 1) + n
    OBVIOUS
  <2>2. 2^((a + 1) + n) = 2 * 2^(a + n) /\ 2^(a + 1) = 2 * 2^a
        /\ 2^(a + n) \in Nat /\ 2^a \in Nat
    BY <2>1, PowerStep
  <2>3. w(a + 1) = 2 * w(a)
    BY <2>2
  <2>4. w(a) \in Nat \ {0}
    BY <1>2
  <2> HIDE DEF w
  <2>5. /\ w(a + 1) \in Nat \ {0} /\ w(a + 1) \div 2 = w(a)
        /\ w(a + 1) % 2 = 0
    BY <2>3, <2>4
  <2>6. Bit(w(a + 1), a + 1) = 1
    BY <1>2, <2>5, BitOfHalf
  <2>7. ASSUME NEW c \in 0 .. (a + 1) - 1 PROVE Bit(w(a + 1), c) = 0
    <3>1. CASE c = 0
      BY <3>1, <2>5, BitType
    <3>2. CASE c # 0
      <4>1. PICK d \in 0 .. a - 1 : c = d + 1
        BY <3>2
      <4>2. Bit(w(a + 1), d + 1) = Bit(w(a + 1) \div 2, d)
        BY <4>1, <2>5, BitOfHalf
      <4> QED
        BY <4>1, <4>2, <2>5, <1>2
    <3> QED
      BY <3>1, <3>2
  <2> QED
    BY <2>5, <2>6, <2>7
<1> HIDE DEF S
<1>3. k \in S
  BY <1>1, <1>2, SetInduction
<1>4. 2^(k + n) \in Nat /\ 2^k \in Nat \ {0}
  BY PowerStep
<1>5. w(k) \in 1 .. 2^(k + n) - 1
  BY <1>3, <1>4 DEF S
<1> QED
  BY <1>3, <1>5 DEF S
=============================================================================

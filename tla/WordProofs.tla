---- MODULE WordProofs ----
\* Arithmetic of a guest at every width of its words, the code's included: first
\* the riscv32 interpreter, for every register file - the immediates of every
\* instruction word, the zero register, that no legal instruction stops the
\* emulator, and that each does what the manual says - and then the division of
\* double words that klib gives a guest without one, and klib's functions on
\* strings and memory.
EXTENDS Riscv32, Int64, KlibString, FiniteSetTheorems, WellFoundedInduction, TLAPS

\* Each format's immediate is the manual's for every one of the 2^32 words: a
\* bit of the immediate is one bit of the word, whatever the others are.
THEOREM EveryWordDecodes == \A w \in Bits32 : DecodesPerISA(w)
<1> SUFFICES ASSUME NEW w \in Bits32 PROVE DecodesPerISA(w)
  OBVIOUS
<1>0. \A i \in BitIndex : w[i] \in {0, 1}
  BY DEF Bits32
<1>1. decode_I(w) = ImmI(w)
  BY DEF decode_I, ImmI, SField, BitIndex
<1>2. decode_S(w) = ImmS(w)
  BY <1>0 DEF decode_S, ImmS, SField, Field, Shl, Or, BitIndex
<1>3. decode_B(w) = ImmB(w)
  BY <1>0 DEF decode_B, ImmB, SField, Field, Shl, Or, BitIndex
<1>4. decode_U(w) = ImmU(w)
  BY DEF decode_U, ImmU, Field, Shl, BitIndex
<1>5. decode_J(w) = ImmJ(w)
  BY <1>0 DEF decode_J, ImmJ, SField, Field, Shl, Or, BitIndex
<1> QED
  BY <1>1, <1>2, <1>3, <1>4, <1>5 DEF DecodesPerISA

\* The words the run checks are among them.
THEOREM DecodeOKHolds == DecodeOK
<1> SUFFICES ASSUME NEW j \in BitIndex, NEW k \in BitIndex
             PROVE  DecodesPerISA([i \in BitIndex |-> IF i \in {j, k} THEN 1 ELSE 0])
  BY DEF DecodeOK, SparseWordsDecode
<1>1. [i \in BitIndex |-> IF i \in {j, k} THEN 1 ELSE 0] \in Bits32
  BY DEF Bits32
<1> QED
  BY <1>1, EveryWordDecodes

--------------------------------------------------------------------------
\* Induction over the naturals, for a set of them.
LEMMA Induction ==
  ASSUME NEW T, 0 \in T, \A n \in Nat : n \in T => n + 1 \in T
  PROVE  \A n \in Nat : n \in T
<1> DEFINE R == OpToRel(<, Nat)
           U == {n \in Nat : n \notin T}
<1>1. IsWellFoundedOn(R, Nat)
  BY NatLessThanWellFounded, Zenon
<1>2. \A x, y \in Nat : x < y => <<x, y>> \in R
  BY DEF OpToRel
<1> HIDE DEF R
<1> SUFFICES ASSUME U # {} PROVE FALSE
  OBVIOUS
<1>3. PICK x \in U : \A y \in U : ~ (<<y, x>> \in R)
  <2>1. U \subseteq Nat
    OBVIOUS
  <2> HIDE DEF U
  <2>2. QED BY <1>1, <2>1, WFMin, Zenon
<1>4. x # 0 /\ x - 1 \in Nat /\ x - 1 < x /\ (x - 1) + 1 = x
  BY <1>3
<1>5. x - 1 \in T
  BY <1>2, <1>3, <1>4
<1> QED
  BY <1>3, <1>4, <1>5

\* There are 2^n subsets of 1 .. n, and twice as many with one more element.
LEMMA Subsets ==
  ASSUME NEW n \in Nat
  PROVE  2^n \in Nat /\ 2^(n + 1) = 2 * 2^n
<1> DEFINE S == 1 .. n
           B == SUBSET S
           C == {A \in SUBSET (1 .. n + 1) : n + 1 \in A}
<1>1. IsFiniteSet(S) /\ Cardinality(S) = n /\ IsFiniteSet(1 .. n + 1) /\ Cardinality(1 .. n + 1) = n + 1
  BY FS_Interval
<1>2. IsFiniteSet(B) /\ Cardinality(B) = 2^n
  BY <1>1, FS_SUBSET
<1>3. Cardinality(SUBSET (1 .. n + 1)) = 2^(n + 1)
  BY <1>1, FS_SUBSET
<1>4. IsFiniteSet(C) /\ Cardinality(C) = Cardinality(B)
  <2> DEFINE f == [A \in B |-> A \cup {n + 1}]
  <2>1. f \in Bijection(B, C)
    <3>1. f \in [B -> C]
      OBVIOUS
    <3>2. \A X, Y \in B : f[X] = f[Y] => X = Y
      <4> SUFFICES ASSUME NEW X \in B, NEW Y \in B, f[X] = f[Y] PROVE X = Y
        OBVIOUS
      <4>1. n + 1 \notin X /\ n + 1 \notin Y
        OBVIOUS
      <4> QED BY <4>1
    <3>3. \A D \in C : \E X \in B : f[X] = D
      <4> TAKE D \in C
      <4>1. D \ {n + 1} \in B /\ (D \ {n + 1}) \cup {n + 1} = D
        OBVIOUS
      <4> QED BY <4>1
    <3> HIDE DEF f, B, C
    <3>4. QED BY <3>1, <3>2, <3>3 DEF Bijection, Injection, IsInjective, Surjection
  <2> HIDE DEF f, B, C
  <2>2. ExistsBijection(B, C)
    BY <2>1 DEF ExistsBijection
  <2>3. QED BY <1>2, <2>2, FS_Bijection
<1>5. B \cup C = SUBSET (1 .. n + 1) /\ B \cap C = {}
  <2>1. ASSUME NEW A \in SUBSET (1 .. n + 1), n + 1 \notin A PROVE A \in B
    BY <2>1
  <2>2. QED BY <2>1
<1> HIDE DEF B, C, S
<1>6. Cardinality(B \cup C) = Cardinality(B) + Cardinality(C) - Cardinality(B \cap C)
  BY <1>2, <1>4, FS_Union
<1>7. Cardinality({}) = 0
  BY FS_EmptySet
<1>8. Cardinality(B) \in Nat
  BY <1>2, FS_CardinalityType
<1>9. 2^n \in Nat
  BY <1>2, <1>8
<1>10. Cardinality(B \cup C) = 2^(n + 1)
  BY <1>3, <1>5, Zenon
<1>11. Cardinality(B \cap C) = 0
  BY <1>5, <1>7, Zenon
<1>12. 2^(n + 1) = Cardinality(B) + Cardinality(B)
  BY <1>4, <1>6, <1>8, <1>10, <1>11
<1> QED
  BY <1>2, <1>9, <1>12

\* Powers of two.
LEMMA PowerZero == 2^0 = 1
<1>1. IsFiniteSet({}) /\ Cardinality({}) = 0
  BY FS_EmptySet
<1>2. Cardinality(SUBSET {}) = 2^0
  BY <1>1, FS_SUBSET
<1>3. Cardinality({{}}) = 1
  BY FS_Singleton
<1> QED
  BY <1>2, <1>3

\* 2^n is positive.
LEMMA Power == \A n \in Nat : 2^n \in Nat \ {0}
<1> DEFINE T == {n \in Nat : 2^n \in Nat \ {0}}
<1>1. 0 \in T
  BY PowerZero
<1>2. \A n \in Nat : n \in T => n + 1 \in T
  BY Subsets
<1> HIDE DEF T
<1>3. \A n \in Nat : n \in T
  BY <1>1, <1>2, Induction
<1> QED BY <1>3 DEF T

\* 2^(a + b) is the product of both.
LEMMA PowerSum == \A a, b \in Nat : 2^(a + b) = 2^a * 2^b
<1> SUFFICES ASSUME NEW a \in Nat PROVE \A b \in Nat : 2^(a + b) = 2^a * 2^b
  OBVIOUS
<1> DEFINE T == {b \in Nat : 2^(a + b) = 2^a * 2^b}
<1>1. 0 \in T
  BY PowerZero, Power
<1>2. ASSUME NEW b \in Nat, b \in T PROVE b + 1 \in T
  <2>1. 2^(a + (b + 1)) = 2 * 2^(a + b) /\ 2^(b + 1) = 2 * 2^b
    <3>1. a + (b + 1) = (a + b) + 1 /\ a + b \in Nat
      OBVIOUS
    <3>2. QED BY <3>1, Subsets
  <2>2. 2^(a + b) = 2^a * 2^b
    BY <1>2
  <2>3. \A x, y \in Nat : 2 * (x * y) = x * (2 * y)
    OBVIOUS
  <2>4. 2^a \in Nat /\ 2^b \in Nat
    BY Power
  <2>5. QED BY <2>1, <2>2, <2>3, <2>4
<1> HIDE DEF T
<1>3. \A b \in Nat : b \in T
  BY <1>1, <1>2, Induction
<1> QED BY <1>3 DEF T

--------------------------------------------------------------------------
\* Quotient and remainder.
LEMMA Division ==
  ASSUME NEW a \in Int, NEW n \in Nat \ {0}
  PROVE  a = n * (a \div n) + (a % n) /\ a % n \in 0 .. n - 1 /\ a \div n \in Int
OBVIOUS

\* Quotient and remainder are the only such numbers.
LEMMA UniqueDivision ==
  ASSUME NEW a \in Int, NEW n \in Nat \ {0}, NEW q \in Int, NEW r \in 0 .. n - 1, a = n * q + r
  PROVE  a \div n = q /\ a % n = r
OBVIOUS

\* Dividing twice is dividing by the product.
LEMMA DivisionTwice ==
  ASSUME NEW a \in Int, NEW n \in Nat \ {0}, NEW m \in Nat \ {0}
  PROVE  (a \div n) \div m = a \div (n * m)
OBVIOUS

\* x is a and q times n.
Beyond(x, a, n, q) == x = a + n * q

\* Adding a multiple of the divisor.
LEMMA AddMultiple ==
  ASSUME NEW a \in Int, NEW n \in Nat \ {0}, NEW q \in Int, NEW x, Beyond(x, a, n, q)
  PROVE  x \div n = (a \div n) + q /\ x % n = a % n
<1>0. x = a + n * q
  BY DEF Beyond
<1> DEFINE d == a \div n
           r == a % n
<1>1. a = n * d + r /\ d \in Int /\ r \in Int
  <2>1. a = n * d + r /\ r \in 0 .. n - 1 /\ d \in Int
    BY Division, Zenon
  <2> HIDE DEF d, r
  <2>2. QED BY <2>1
<1> HIDE DEF d, r
<1>2. x = n * (d + q) + r
  <2>1. n * (d + q) = n * d + n * q
    BY <1>1
  <2>2. n * d \in Int /\ n * q \in Int
    BY <1>1
  <2>3. QED BY <1>0, <1>1, <2>1, <2>2
<1>3. d + q \in Int /\ x \in Int /\ r \in 0 .. n - 1
  BY <1>0, <1>1, Division DEF r
<1> QED
  BY <1>2, <1>3, UniqueDivision DEF d, r

\* One more doubles it.
LEMMA PowerStep == ASSUME NEW n \in Nat PROVE 2^(n + 1) = 2 * 2^n
BY Subsets

\* The bits of numbers: of a quotient and a product by a power of two, of a
\* number and a multiple of a power of two beyond the bit.
LEMMA BitValue == ASSUME NEW a \in Int, NEW k \in Nat PROVE Bit(a, k) \in {0, 1}
<1>1. a \div 2^k \in Int
  BY Power, Division
<1> QED
  BY <1>1 DEF Bit

\* A shift to the right.
LEMMA BitOfShifted ==
  ASSUME NEW a \in Int, NEW s \in Nat, NEW k \in Nat
  PROVE  Bit(a \div 2^s, k) = Bit(a, k + s)
<1>1. (a \div 2^s) \div 2^k = a \div (2^s * 2^k)
  BY Power, DivisionTwice
<1>2. 2^(k + s) = 2^s * 2^k
  <2>1. 2^(s + k) = 2^s * 2^k /\ s + k = k + s
    BY PowerSum
  <2>2. QED BY <2>1
<1> QED
  BY <1>1, <1>2 DEF Bit

\* A word's multiples do not reach below it.
LEMMA BitOfSum ==
  ASSUME NEW a \in Int, NEW q \in Int, NEW m \in Nat, NEW k \in Nat, k < m, NEW x, Beyond(x, a, 2^m, q)
  PROVE  Bit(x, k) = Bit(a, k)
<1> DEFINE h == 2^(m - (k + 1))
           p == 2^k
           z == h * q
<1>1. h \in Nat /\ p \in Nat \ {0} /\ z \in Int
  BY Power
<1>2. 2^m = p * (2 * h)
  <2>1. 2^(k + (m - (k + 1) + 1)) = 2^k * 2^(m - (k + 1) + 1)
    BY PowerSum
  <2>2. 2^(m - (k + 1) + 1) = 2 * h
    BY PowerStep
  <2>3. k + (m - (k + 1) + 1) = m
    OBVIOUS
  <2>4. QED BY <2>1, <2>2, <2>3
<1>3. x = a + p * (2 * z)
  <2>1. \A u, v \in Nat : (u * (2 * v)) * q = u * (2 * (v * q))
    OBVIOUS
  <2>2. x = a + 2^m * q
    BY DEF Beyond
  <2> HIDE DEF h, p
  <2>3. QED BY <1>1, <1>2, <2>1, <2>2
<1> HIDE DEF h, p, z
<1>4. x \div p = (a \div p) + 2 * z
  <2>1. 2 * z \in Int
    BY <1>1
  <2>2. Beyond(x, a, p, 2 * z)
    BY <1>3 DEF Beyond
  <2>3. QED BY <1>1, <2>1, <2>2, AddMultiple
<1>5. a \div p \in Int
  BY <1>1, Division
<1>6. (x \div p) % 2 = (a \div p) % 2
  BY <1>1, <1>4, <1>5, AddMultiple DEF Beyond
<1> QED
  BY <1>6 DEF Bit, p

\* A cut to the lowest bits.
LEMMA BitOfRemainder ==
  ASSUME NEW a \in Int, NEW m \in Nat, NEW k \in Nat, k < m
  PROVE  Bit(a % 2^m, k) = Bit(a, k)
<1> DEFINE p == 2^m
           r == a % p
           q == a \div p
<1>1. p \in Nat \ {0}
  BY Power
<1> HIDE DEF p
<1>2. a = p * q + r /\ r \in Int /\ q \in Int
  BY <1>1, Division
<1> HIDE DEF q, r
<1>3. Beyond(a, r, 2^m, q)
  <2>1. p * q \in Int
    BY <1>1, <1>2
  <2>2. QED BY <1>2, <2>1 DEF p, Beyond
<1>4. Bit(a, k) = Bit(r, k)
  BY <1>2, <1>3, BitOfSum
<1> QED
  BY <1>4 DEF r, p

\* Beyond its width a number has its sign's bits.
LEMMA BitBeyond ==
  ASSUME NEW m \in Nat, NEW k \in Nat, k >= m, NEW a \in -2^m .. 2^m - 1
  PROVE  Bit(a, k) = IF a < 0 THEN 1 ELSE 0
<1>1. 2^m \in Nat \ {0} /\ 2^k \in Nat \ {0} /\ 2^m <= 2^k
  <2>1. 2^(m + (k - m)) = 2^m * 2^(k - m) /\ m + (k - m) = k
    BY PowerSum
  <2>2. 2^(k - m) \in Nat \ {0} /\ 2^m \in Nat \ {0} /\ 2^k \in Nat \ {0}
    BY Power
  <2>3. \A x, y \in Nat \ {0} : x <= x * y
    OBVIOUS
  <2>4. QED BY <2>1, <2>2, <2>3
<1>2. CASE a < 0
  <2>1. a = 2^k * (-1) + (a + 2^k) /\ a + 2^k \in 0 .. 2^k - 1
    BY <1>1, <1>2
  <2>2. a \div 2^k = -1
    BY <1>1, <2>1, UniqueDivision
  <2>3. (-1) % 2 = 1
    <3>1. -1 = 2 * (-1) + 1 /\ 1 \in 0 .. 2 - 1 /\ -1 \in Int /\ 2 \in Nat \ {0}
      OBVIOUS
    <3>2. QED BY <3>1, UniqueDivision, Zenon
  <2>4. QED BY <1>2, <2>2, <2>3 DEF Bit
<1>3. CASE a >= 0
  <2>1. a = 2^k * 0 + a /\ a \in 0 .. 2^k - 1
    BY <1>1, <1>3
  <2>2. a \div 2^k = 0
    BY <1>1, <2>1, UniqueDivision
  <2>3. 0 % 2 = 0 /\ ~ (a < 0)
    BY <1>1, <1>3
  <2>4. QED BY <2>2, <2>3 DEF Bit
<1> QED
  BY <1>2, <1>3

\* A shift to the left.
LEMMA BitOfProduct ==
  ASSUME NEW a \in Int, NEW s \in Nat, NEW k \in Nat
  PROVE  Bit(a * 2^s, k) = IF k >= s THEN Bit(a, k - s) ELSE 0
<1>1. CASE k >= s
  <2>1. (a * 2^s) \div 2^s = a
    <3>1. a * 2^s = 2^s * a + 0 /\ 2^s \in Nat \ {0} /\ a * 2^s \in Int
      BY Power
    <3>2. QED BY <3>1, UniqueDivision
  <2>2. Bit((a * 2^s) \div 2^s, k - s) = Bit(a * 2^s, (k - s) + s)
    <3>1. a * 2^s \in Int
      BY Power
    <3>2. QED BY <1>1, <3>1, BitOfShifted
  <2>3. (k - s) + s = k
    OBVIOUS
  <2>4. QED BY <1>1, <2>1, <2>2, <2>3
<1>2. CASE k < s
  <2>0. 0 \in Int
    OBVIOUS
  <2>1. Beyond(a * 2^s, 0, 2^s, a)
    BY Power DEF Beyond
  <2>2. Bit(a * 2^s, k) = Bit(0, k)
    BY <1>2, <2>1, <2>0, BitOfSum
  <2>3. Bit(0, k) = 0
    <3>1. 0 \div 2^k = 0
      <4>1. 0 = 2^k * 0 + 0 /\ 2^k \in Nat \ {0} /\ 0 \in 0 .. 2^k - 1
        BY Power
      <4>2. QED BY <4>1, UniqueDivision
    <3>2. 0 % 2 = 0
      OBVIOUS
    <3>3. QED BY <3>1, <3>2 DEF Bit
  <2>4. QED BY <1>2, <2>1, <2>2, <2>3
<1> QED
  BY <1>1, <1>2

--------------------------------------------------------------------------
half == 2^(W - 1)

\* The words and their signed values.
LEMMA WordFacts ==
  /\ half \in Nat /\ half >= 8 /\ N = 2 * half /\ N \div 2 = half
  /\ N \in Nat \ {0} /\ W \in Nat /\ W >= 4 /\ W - 1 \in Nat /\ 2^W = N
<1>1. W \in Nat /\ W >= 4 /\ W - 1 \in Nat /\ W - 4 \in Nat
  BY WidthAssumption
<1>2. half \in Nat \ {0}
  BY <1>1, Power DEF half
<1>3. N = 2 * half
  <2>1. (W - 1) + 1 = W
    BY <1>1
  <2>2. QED BY <1>1, <2>1, PowerStep DEF N, half
<1>4. N \div 2 = half
  <2>1. N = 2 * half + 0 /\ N \in Int /\ half \in Int /\ 0 \in 0 .. 2 - 1 /\ 2 \in Nat \ {0}
    BY <1>2, <1>3
  <2>2. QED BY <2>1, UniqueDivision, Zenon
<1>5. half >= 8
  <2>1. 2^(W - 4) \in Nat \ {0}
    BY <1>1, Power
  <2>2. 2^((W - 4) + 1) = 2 * 2^(W - 4)
    BY <1>1, PowerStep
  <2>3. 2^(((W - 4) + 1) + 1) = 2 * 2^((W - 4) + 1)
    BY <1>1, PowerStep
  <2>4. 2^((((W - 4) + 1) + 1) + 1) = 2 * 2^(((W - 4) + 1) + 1)
    BY <1>1, PowerStep
  <2>5. (((W - 4) + 1) + 1) + 1 = W - 1
    BY <1>1
  <2>6. QED BY <2>1, <2>2, <2>3, <2>4, <2>5 DEF half
<1> QED
  BY <1>1, <1>2, <1>3, <1>4, <1>5 DEF N

\* A word's signed value.
LEMMA SignedOfWord ==
  ASSUME NEW a \in Word
  PROVE  /\ Signed(a) \in Int /\ Signed(a) \in -half .. half - 1
         /\ Signed(a) = a \/ Signed(a) = a - N
         /\ Signed(a) < 0 <=> a >= half
BY WordFacts DEF Signed, Word

\* A number cut to a word.
LEMMA WordOf ==
  ASSUME NEW x \in Int
  PROVE  /\ ToWord(x) \in Word
         /\ \E q \in Int : x = N * q + ToWord(x)
BY WordFacts, Division DEF ToWord, Word

\* The remainder of what differs by a multiple of N.
LEMMA WordsAgree ==
  ASSUME NEW x \in Int, NEW q \in Int, NEW r \in Word, x = N * q + r
  PROVE  ToWord(x) = r
BY WordFacts, UniqueDivision DEF ToWord, Word

\* A number in the signed range survives the cut to a word.
LEMMA SignedOfInt ==
  ASSUME NEW x \in -half .. half - 1
  PROVE  Signed(ToWord(x)) = x
<1>1. CASE x >= 0
  <2>1. x = N * 0 + x /\ x \in Word /\ x \in Int
    BY <1>1, WordFacts DEF Word
  <2>2. ToWord(x) = x
    BY <2>1, WordsAgree
  <2>3. QED BY <1>1, <2>2, WordFacts DEF Signed
<1>2. CASE x < 0
  <2>1. x = N * (-1) + (x + N) /\ x + N \in Word /\ x \in Int
    BY <1>2, WordFacts DEF Word
  <2>2. ToWord(x) = x + N
    BY <2>1, WordsAgree
  <2>3. QED BY <1>2, <2>2, WordFacts DEF Signed
<1> QED
  BY <1>1, <1>2, WordFacts

\* A word has the bits of the number it was cut from.
LEMMA BitOfToWord ==
  ASSUME NEW x \in Int, NEW k \in 0 .. W - 1
  PROVE  Bit(ToWord(x), k) = Bit(x, k)
BY WordFacts, BitOfRemainder DEF ToWord

\* A number of m bits read as a signed one has its sign's bit beyond them.
LEMMA SignExtended ==
  ASSUME NEW m \in Nat \ {0}, NEW a \in 0 .. 2^m - 1, NEW x,
         x = IF a < 2^(m - 1) THEN a ELSE a - 2^m, NEW k \in Nat
  PROVE  Bit(x, k) = IF k < m THEN Bit(a, k) ELSE Bit(a, m - 1)
<1> DEFINE h == 2^(m - 1)
<1>1. m - 1 \in Nat /\ h \in Nat \ {0} /\ 2^m = 2 * h
  <2>1. m - 1 \in Nat /\ (m - 1) + 1 = m
    OBVIOUS
  <2>2. QED BY <2>1, Power, PowerStep
<1>2. a \in Int /\ 0 <= a /\ a < 2 * h /\ x = (IF a < h THEN a ELSE a - 2 * h)
  BY <1>1
<1> HIDE DEF h
<1>3. ASSUME k < m PROVE Bit(x, k) = Bit(a, k)
  <2>1. CASE a < h
    BY <1>2, <2>1
  <2>2. CASE ~ (a < h)
    <3>1. Beyond(x, a, 2^m, -1)
      BY <1>1, <1>2, <2>2 DEF Beyond
    <3>2. QED BY <1>2, <1>3, <3>1, BitOfSum
  <2>3. QED BY <2>1, <2>2
<1>4. ASSUME k >= m - 1 PROVE Bit(x, k) = IF a < h THEN 0 ELSE 1
  <2>1. x \in -2^(m - 1) .. 2^(m - 1) - 1 /\ (x < 0 <=> ~ (a < h))
    BY <1>1, <1>2 DEF h
  <2>2. QED BY <1>1, <1>4, <2>1, BitBeyond
<1>5. Bit(a, m - 1) = IF a < h THEN 0 ELSE 1
  <2>1. CASE a < h
    <3>1. a = h * 0 + a /\ a \in 0 .. h - 1
      BY <1>1, <1>2, <2>1
    <3>2. a \div h = 0
      BY <1>1, <1>2, <3>1, UniqueDivision
    <3>3. Bit(a, m - 1) = 0
      <4>1. 0 % 2 = 0
        OBVIOUS
      <4>2. QED BY <3>2, <4>1 DEF Bit, h
    <3>4. QED BY <2>1, <3>3
  <2>2. CASE ~ (a < h)
    <3>1. a = h * 1 + (a - h) /\ a - h \in 0 .. h - 1
      BY <1>1, <1>2, <2>2
    <3>2. a \div h = 1
      BY <1>1, <1>2, <3>1, UniqueDivision
    <3>3. Bit(a, m - 1) = 1
      <4>1. 1 % 2 = 1
        OBVIOUS
      <4>2. QED BY <3>2, <4>1 DEF Bit, h
    <3>4. QED BY <2>2, <3>3
  <2>3. QED BY <2>1, <2>2
<1> QED
  BY <1>3, <1>4, <1>5

\* The bits of a word's signed value.
LEMMA BitOfSigned ==
  ASSUME NEW a \in Word, NEW k \in Nat
  PROVE  Bit(Signed(a), k) = IF k < W THEN Bit(a, k) ELSE Bit(a, W - 1)
<1>1. W \in Nat \ {0} /\ a \in 0 .. 2^W - 1
  BY WordFacts DEF Word
<1>2. Signed(a) = IF a < 2^(W - 1) THEN a ELSE a - 2^W
  BY WordFacts DEF Signed, half
<1> QED
  BY <1>1, <1>2, SignExtended

\* Every set of bits is that of a number.
LEMMA NumberWith ==
  \A m \in Nat : \A B \in SUBSET (0 .. m - 1) :
    \E x \in 0 .. 2^m - 1 : {i \in 0 .. m - 1 : Bit(x, i) = 1} = B
<1> DEFINE Has(m) == \A B \in SUBSET (0 .. m - 1) :
                       \E x \in 0 .. 2^m - 1 : {i \in 0 .. m - 1 : Bit(x, i) = 1} = B
           T == {m \in Nat : Has(m)}
<1>1. 0 \in T
  <2>1. 0 \in 0 .. 2^0 - 1
    BY PowerZero
  <2>2. 0 .. 0 - 1 = {}
    OBVIOUS
  <2>3. QED BY <2>1, <2>2
<1>2. ASSUME NEW m \in Nat, m \in T PROVE m + 1 \in T
  <2> SUFFICES ASSUME NEW B \in SUBSET (0 .. m)
               PROVE  \E x \in 0 .. 2^(m + 1) - 1 : {i \in 0 .. m : Bit(x, i) = 1} = B
    <3>1. (m + 1) - 1 = m
      OBVIOUS
    <3>2. QED BY <3>1
  <2> DEFINE p == 2^m
  <2>1. B \ {m} \in SUBSET (0 .. m - 1) /\ p \in Nat \ {0} /\ 2^(m + 1) = 2 * p
    BY Power, PowerStep
  <2>2. PICK y \in 0 .. 2^m - 1 : {i \in 0 .. m - 1 : Bit(y, i) = 1} = B \ {m}
    BY <1>2, <2>1
  <2> HIDE DEF p
  <2>3. y \in 0 .. p - 1 /\ y \in Int
    BY <2>1, <2>2 DEF p
  <2>4. ASSUME NEW x \in 0 .. 2^(m + 1) - 1, \A i \in 0 .. m - 1 : Bit(x, i) = Bit(y, i),
               Bit(x, m) = IF m \in B THEN 1 ELSE 0
        PROVE  {i \in 0 .. m : Bit(x, i) = 1} = B
    <3>1. \A i \in 0 .. m : i = m \/ i \in 0 .. m - 1
      OBVIOUS
    <3>2. \A i \in 0 .. m - 1 : Bit(x, i) = 1 <=> i \in B
      BY <2>2, <2>4
    <3>3. m \in 0 .. m
      OBVIOUS
    <3>4. \A i \in 0 .. m : Bit(x, i) = 1 <=> i \in B
      BY <2>4, <3>1, <3>2, <3>3
    <3>5. B \subseteq 0 .. m
      OBVIOUS
    <3> QED BY <3>4, <3>5, Zenon
  <2>5. CASE m \in B
    <3>1. y + p \in 0 .. 2^(m + 1) - 1
      BY <2>1, <2>3
    <3>2. Beyond(y + p, y, 2^m, 1) /\ 1 \in Int
      BY <2>1, <2>3 DEF Beyond, p
    <3>3. \A i \in 0 .. m - 1 : Bit(y + p, i) = Bit(y, i)
      BY <2>3, <3>2, BitOfSum
    <3>4. (y + p) \div p = 1
      <4>1. y + p = p * 1 + y /\ y + p \in Int
        BY <2>1, <2>3
      <4>2. QED BY <2>1, <2>3, <4>1, UniqueDivision
    <3>5. Bit(y + p, m) = 1
      BY <3>4 DEF Bit, p
    <3>6. QED BY <2>4, <2>5, <3>1, <3>3, <3>5
  <2>6. CASE m \notin B
    <3>1. y \in 0 .. 2^(m + 1) - 1
      BY <2>1, <2>3
    <3>2. Bit(y, m) = 0
      <4>1. y \in -2^m .. 2^m - 1 /\ ~ (y < 0)
        BY <2>1, <2>3 DEF p
      <4>2. QED BY <4>1, BitBeyond
    <3>3. QED BY <2>4, <2>6, <3>1, <3>2
  <2>7. QED BY <2>5, <2>6
<1> HIDE DEF T
<1>3. \A m \in Nat : m \in T
  BY <1>1, <1>2, Induction
<1> QED BY <1>3 DEF T

\* FromBits is the word with these bits.
LEMMA FromBitsFacts ==
  ASSUME NEW B \in SUBSET (0 .. W - 1)
  PROVE  /\ FromBits(B) \in Word
         /\ \A k \in 0 .. W - 1 : Bit(FromBits(B), k) = IF k \in B THEN 1 ELSE 0
<1>1. \E x \in Word : BitSet(x) = B
  BY WordFacts, NumberWith DEF BitSet, Word
<1>2. FromBits(B) \in Word /\ BitSet(FromBits(B)) = B
  BY <1>1 DEF FromBits
<1>3. \A k \in 0 .. W - 1 : Bit(FromBits(B), k) \in {0, 1}
  BY <1>2, BitValue, WordFacts DEF Word
<1> QED
  BY <1>2, <1>3 DEF BitSet

--------------------------------------------------------------------------
\* A sum, a difference, a product cut to a word.
LEMMA CutToWord ==
  ASSUME NEW x \in Int
  PROVE  ToWord(x) \in Word /\ (ToWord(x) - x) % N = 0
<1>1. PICK q \in Int : x = N * q + ToWord(x)
  BY WordOf
<1>2. ToWord(x) \in Word /\ ToWord(x) \in Int
  BY WordOf DEF Word
<1>3. ToWord(x) - x = N * (-q) + 0 /\ -q \in Int /\ ToWord(x) - x \in Int /\ 0 \in 0 .. N - 1
  <2>1. N * (-q) = -(N * q) /\ N * q \in Int
    BY <1>1, WordFacts
  <2>2. QED BY <1>1, <1>2, <2>1, WordFacts
<1> QED
  BY <1>2, <1>3, WordFacts, UniqueDivision

\* The RTL operations give what the manual says, on all operands.
LEMMA ShiftAmount == ASSUME NEW b \in Word PROVE b % W \in 0 .. W - 1 /\ b % W \in Nat
BY WordFacts, Division DEF Word

\* The manual's base operations and their alternatives.
BasePerISA(f3, a, b, v) == IsaBase(f3, FALSE, a, b, v)
AltPerISA(f3, a, b, v)  == IsaBase(f3, TRUE, a, b, v)

\* Which of the two funct7 chooses.
LEMMA PerISA ==
  ASSUME NEW f3, NEW f7, NEW a, NEW b, NEW v,
         IF f7 = ALT THEN AltPerISA(f3, a, b, v) ELSE BasePerISA(f3, a, b, v)
  PROVE  IsaBase(f3, f7 = ALT, a, b, v)
<1>1. CASE f7 = ALT
  BY <1>1 DEF AltPerISA, IsaBase, Bitwise
<1>2. CASE f7 # ALT
  BY <1>2 DEF BasePerISA, IsaBase, Bitwise
<1> QED
  BY <1>1, <1>2

\* add and sub (c_op.h).
LEMMA AddSub ==
  ASSUME NEW a \in Word, NEW b \in Word
  PROVE  /\ c_op("add", a, b) \in Word /\ BasePerISA(0, a, b, c_op("add", a, b))
         /\ c_op("sub", a, b) \in Word /\ AltPerISA(0, a, b, c_op("sub", a, b))
<1>1. a + b \in Int /\ a - b \in Int /\ a \in Int /\ b \in Int
  BY DEF Word
<1>2. ToWord(a + b) \in Word /\ (ToWord(a + b) - (a + b)) % N = 0
  BY <1>1, CutToWord
<1>3. ToWord(a - b) \in Word /\ (ToWord(a - b) - (a - b)) % N = 0
  BY <1>1, CutToWord
<1>4. \A v \in Int : (v - a) - b = v - (a + b) /\ v + (b - a) = v - (a - b)
  BY <1>1
<1>5. ToWord(a + b) \in Int /\ ToWord(a - b) \in Int
  BY <1>2, <1>3 DEF Word
<1>6. c_op("add", a, b) = ToWord(a + b) /\ c_op("sub", a, b) = ToWord(a - b)
  BY DEF c_op
<1>7. ((ToWord(a + b) - a) - b) % N = 0 /\ (ToWord(a - b) + (b - a)) % N = 0
  BY <1>2, <1>3, <1>4, <1>5
<1>8. BasePerISA(0, a, b, ToWord(a + b))
  BY <1>7 DEF BasePerISA, AltPerISA, IsaBase, Bitwise
<1>9. AltPerISA(0, a, b, ToWord(a - b))
  BY <1>7 DEF BasePerISA, AltPerISA, IsaBase, Bitwise
<1> QED
  BY <1>2, <1>3, <1>6, <1>8, <1>9

\* sll.
LEMMA ShiftLeft ==
  ASSUME NEW a \in Word, NEW b \in Word
  PROVE  c_op("shl", a, b) \in Word /\ BasePerISA(1, a, b, c_op("shl", a, b))
<1> DEFINE s == b % W
           v == ToWord(a * 2^s)
<1>1. s \in Nat /\ a \in Int
  BY ShiftAmount DEF Word
<1>2. a * 2^s \in Int
  BY <1>1, Power
<1>3. v \in Word
  BY <1>2, WordOf
<1>4. ASSUME NEW k \in 0 .. W - 1
      PROVE  Bit(v, k) = IF k >= s THEN Bit(a, k - s) ELSE 0
  <2>1. Bit(v, k) = Bit(a * 2^s, k)
    BY <1>2, BitOfToWord
  <2>2. k \in Nat
    BY WordFacts
  <2>3. QED BY <1>1, <2>1, <2>2, BitOfProduct
<1>5. c_op("shl", a, b) = v
  BY DEF c_op
<1> QED
  BY <1>3, <1>4, <1>5 DEF BasePerISA, AltPerISA, IsaBase, Bitwise

\* srl and sra, which shifts the signed value.
LEMMA ShiftRight ==
  ASSUME NEW a \in Word, NEW b \in Word
  PROVE  /\ c_op("shr", a, b) \in Word /\ BasePerISA(5, a, b, c_op("shr", a, b))
         /\ c_op("sar", a, b) \in Word /\ AltPerISA(5, a, b, c_op("sar", a, b))
<1> DEFINE s == b % W
           v == a \div 2^s
           u == ToWord(Signed(a) \div 2^s)
<1>1. s \in Nat /\ a \in Int /\ Signed(a) \in Int
  BY ShiftAmount, SignedOfWord DEF Word
<1>2. v \in Int /\ Signed(a) \div 2^s \in Int
  BY <1>1, Power, Division
<1>3. v \in Word
  <2> DEFINE p == 2^s
  <2>1. p \in Nat \ {0}
    BY <1>1, Power
  <2> HIDE DEF p
  <2>2. \A x \in 0 .. N - 1 : x \div p \in 0 .. N - 1
    <3> TAKE x \in 0 .. N - 1
    <3>1. x \in Int /\ N \in Nat
      BY WordFacts
    <3> HIDE DEF N
    <3> DEFINE d == x \div p
               r == x % p
    <3>2. x = p * d + r /\ r \in 0 .. p - 1 /\ d \in Int
      BY <2>1, <3>1, Division, Zenon
    <3> HIDE DEF d, r
    <3>3. d >= 0
      <4> SUFFICES ASSUME d <= -1 PROVE FALSE
        BY <3>2
      <4>1. p * d <= -p
        BY <2>1, <3>2
      <4>2. QED BY <2>1, <3>1, <3>2, <4>1
    <3>4. d <= p * d
      BY <2>1, <3>2, <3>3
    <3>5. p * d \in Int
      BY <2>1, <3>2
    <3>6. d \in 0 .. N - 1
      BY <3>1, <3>2, <3>3, <3>4, <3>5, <2>1
    <3>7. QED BY <3>6 DEF d
  <2>3. QED BY <2>2 DEF p, Word
<1>4. u \in Word
  BY <1>2, WordOf
<1>5. ASSUME NEW k \in 0 .. W - 1
      PROVE  Bit(v, k) = IF k + s < W THEN Bit(a, k + s) ELSE 0
  <2>1. k \in Nat
    BY WordFacts
  <2>2. Bit(v, k) = Bit(a, k + s)
    BY <1>1, <2>1, BitOfShifted
  <2>3. k + s >= W => Bit(a, k + s) = 0
    <3>1. a \in -2^W .. 2^W - 1 /\ ~ (a < 0) /\ W \in Nat /\ k + s \in Nat
      BY <1>1, <2>1, WordFacts DEF Word
    <3>2. QED BY <3>1, BitBeyond
  <2>4. QED BY <1>1, <2>1, <2>2, <2>3, WordFacts
<1>6. ASSUME NEW k \in 0 .. W - 1
      PROVE  Bit(u, k) = IF k + s < W THEN Bit(a, k + s) ELSE Bit(a, W - 1)
  <2>1. k \in Nat /\ k + s \in Nat
    BY <1>1, WordFacts
  <2>2. Bit(u, k) = Bit(Signed(a) \div 2^s, k)
    BY <1>2, BitOfToWord
  <2>3. Bit(Signed(a) \div 2^s, k) = Bit(Signed(a), k + s)
    BY <1>1, <2>1, BitOfShifted
  <2>4. QED BY <2>1, <2>2, <2>3, BitOfSigned
<1>7. c_op("shr", a, b) = v /\ c_op("sar", a, b) = u
  BY DEF c_op
<1> QED
  BY <1>3, <1>4, <1>5, <1>6, <1>7 DEF BasePerISA, AltPerISA, IsaBase, Bitwise

\* and, or, xor.
LEMMA BitOperations ==
  ASSUME NEW a \in Word, NEW b \in Word
  PROVE  /\ c_op("and", a, b) \in Word /\ BasePerISA(7, a, b, c_op("and", a, b))
         /\ c_op("or", a, b) \in Word /\ BasePerISA(6, a, b, c_op("or", a, b))
         /\ c_op("xor", a, b) \in Word /\ BasePerISA(4, a, b, c_op("xor", a, b))
<1>1. \A k \in 0 .. W - 1 : Bit(a, k) \in {0, 1} /\ Bit(b, k) \in {0, 1}
  BY BitValue, WordFacts DEF Word
<1>2. BitSet(a) \in SUBSET (0 .. W - 1) /\ BitSet(b) \in SUBSET (0 .. W - 1)
  BY DEF BitSet
<1> DEFINE X == BitSet(a) \cap BitSet(b)
           Y == BitSet(a) \cup BitSet(b)
           Z == Y \ X
<1>3. X \in SUBSET (0 .. W - 1) /\ Y \in SUBSET (0 .. W - 1) /\ Z \in SUBSET (0 .. W - 1)
  BY <1>2
<1>4. \A k \in 0 .. W - 1 : /\ k \in X <=> Bit(a, k) = 1 /\ Bit(b, k) = 1
                            /\ k \in Y <=> Bit(a, k) = 1 \/ Bit(b, k) = 1
                            /\ k \in Z <=> Bit(a, k) # Bit(b, k)
  BY <1>1 DEF BitSet
<1>5. c_op("and", a, b) = FromBits(X) /\ c_op("or", a, b) = FromBits(Y) /\ c_op("xor", a, b) = FromBits(Z)
  BY DEF c_op
<1> HIDE DEF X, Y, Z
<1>6. /\ FromBits(X) \in Word /\ FromBits(Y) \in Word /\ FromBits(Z) \in Word
      /\ \A k \in 0 .. W - 1 : /\ Bit(FromBits(X), k) = IF k \in X THEN 1 ELSE 0
                               /\ Bit(FromBits(Y), k) = IF k \in Y THEN 1 ELSE 0
                               /\ Bit(FromBits(Z), k) = IF k \in Z THEN 1 ELSE 0
  BY <1>3, FromBitsFacts
<1>7. \A k \in 0 .. W - 1 : Bit(FromBits(X), k) = Bit(a, k) * Bit(b, k)
  BY <1>1, <1>4, <1>6
<1>8. \A k \in 0 .. W - 1 : Bit(FromBits(Y), k) = Truth(1 \in {Bit(a, k), Bit(b, k)})
  BY <1>1, <1>4, <1>6 DEF Truth
<1>9. \A k \in 0 .. W - 1 : Bit(FromBits(Z), k) = Truth(Bit(a, k) # Bit(b, k))
  BY <1>1, <1>4, <1>6 DEF Truth
<1> QED
  BY <1>5, <1>6, <1>7, <1>8, <1>9 DEF BasePerISA, AltPerISA, IsaBase, Bitwise

\* slt and sltu.
LEMMA Compared ==
  ASSUME NEW a \in Word, NEW b \in Word
  PROVE  /\ setrelop("LT", a, b) \in Word /\ BasePerISA(2, a, b, setrelop("LT", a, b))
         /\ setrelop("LTU", a, b) \in Word /\ BasePerISA(3, a, b, setrelop("LTU", a, b))
<1>1. 0 \in Word /\ 1 \in Word
  BY WordFacts DEF Word
<1>2. setrelop("LT", a, b) = Truth(Signed(a) < Signed(b)) /\ setrelop("LTU", a, b) = Truth(a < b)
  BY DEF setrelop, interpret_relop, Truth
<1>3. BasePerISA(2, a, b, setrelop("LT", a, b))
  BY <1>2 DEF BasePerISA, AltPerISA, IsaBase, Bitwise
<1>4. BasePerISA(3, a, b, setrelop("LTU", a, b))
  BY <1>2 DEF BasePerISA, AltPerISA, IsaBase, Bitwise
<1> QED
  BY <1>1, <1>2, <1>3, <1>4 DEF Truth

\* The product of two words, signed or not, and its upper word.
LEMMA Products ==
  ASSUME NEW a \in Word, NEW b \in Word
  PROVE  /\ c_op("mul_lo", a, b) \in Word /\ IsaMulDiv(0, a, b, c_op("mul_lo", a, b))
         /\ c_op("mul_hi", a, b) \in Word /\ IsaMulDiv(3, a, b, c_op("mul_hi", a, b))
         /\ c_op("imul_hi", a, b) \in Word /\ IsaMulDiv(1, a, b, c_op("imul_hi", a, b))
<1> DEFINE p == a * b
           x == Signed(a)
           y == Signed(b)
           s == x * y
           u == p \div N
           v == s \div N
<1>1. a \in 0 .. N - 1 /\ b \in 0 .. N - 1 /\ N \in Nat \ {0} /\ half \in Nat /\ N = 2 * half /\ half >= 8
  BY WordFacts DEF Word
<1>2. x \in -half .. half - 1 /\ y \in -half .. half - 1
  BY SignedOfWord
<1> HIDE DEF x, y, N, half
<1>3. p \in Int /\ 0 <= p /\ p <= (N - 1) * (N - 1)
  BY <1>1
<1>4. s \in Int /\ -(half * half) <= s /\ s <= half * half
  BY <1>1, <1>2
<1> HIDE DEF p, s
<1>5. p = N * u + (p % N) /\ p % N \in 0 .. N - 1 /\ u \in Int
  BY <1>1, <1>3, Division, Zenon
<1>6. s = N * v + (s % N) /\ s % N \in 0 .. N - 1 /\ v \in Int
  BY <1>1, <1>4, Division, Zenon
<1> HIDE DEF u, v
<1>7. u \in 0 .. N - 1
  <2>1. u >= 0
    <3> SUFFICES ASSUME u <= -1 PROVE FALSE
      BY <1>5
    <3>1. N * u <= -N
      BY <1>1, <1>5
    <3>2. QED BY <1>1, <1>3, <1>5, <3>1
  <2>2. u <= N - 1
    <3> SUFFICES ASSUME u >= N PROVE FALSE
      BY <1>1, <1>5
    <3>1. N * u >= N * N
      BY <1>1, <1>5
    <3>2. (N - 1) * (N - 1) < N * N
      BY <1>1
    <3>3. N * N \in Int /\ N * u \in Int /\ (N - 1) * (N - 1) \in Int
      BY <1>1, <1>5
    <3>4. QED BY <1>3, <1>5, <3>1, <3>2, <3>3
  <2>3. QED BY <1>5, <2>1, <2>2, <1>1
<1>8. v \in -half .. half - 1
  <2>1. v >= -half
    <3> SUFFICES ASSUME v <= -half - 1 PROVE FALSE
      BY <1>1, <1>6
    <3>1. N * v <= N * (-half - 1)
      BY <1>1, <1>6
    <3>2. N * (-half - 1) = -(2 * (half * half)) - 2 * half
      BY <1>1
    <3>3. N * v \in Int /\ half * half \in Nat
      BY <1>1, <1>6
    <3>4. QED BY <1>1, <1>4, <1>6, <3>1, <3>2, <3>3
  <2>2. v <= half - 1
    <3> SUFFICES ASSUME v >= half PROVE FALSE
      BY <1>1, <1>6
    <3>1. N * v >= N * half
      BY <1>1, <1>6
    <3>2. N * half = 2 * (half * half) /\ half * half >= 64
      BY <1>1
    <3>3. N * v \in Int /\ half * half \in Nat
      BY <1>1, <1>6
    <3>4. QED BY <1>1, <1>4, <1>6, <3>1, <3>2, <3>3
  <2>3. QED BY <1>1, <1>6, <2>1, <2>2
<1>9. ToWord(p) \in Word /\ (ToWord(p) - p) % N = 0
  BY <1>3, CutToWord
<1>10. IsaMulDiv(0, a, b, ToWord(p))
  BY <1>9 DEF IsaMulDiv, p
<1>11. IsaMulDiv(3, a, b, u)
  <2>1. p - u * N \in Word
    <3>1. N * u = u * N /\ u * N \in Int
      BY <1>1, <1>5
    <3>2. QED BY <1>1, <1>3, <1>5, <3>1 DEF Word
  <2>2. QED BY <2>1 DEF IsaMulDiv, UpperWord, p
<1>12. ToWord(v) \in Word /\ Signed(ToWord(v)) = v
  BY <1>6, <1>8, WordOf, SignedOfInt
<1>13. IsaMulDiv(1, a, b, ToWord(v))
  <2>1. s - v * N \in Word
    <3>1. N * v = v * N /\ v * N \in Int
      BY <1>1, <1>6
    <3>2. QED BY <1>1, <1>4, <1>6, <3>1 DEF Word
  <2>2. QED BY <1>12, <2>1 DEF IsaMulDiv, UpperWord, s, x, y
<1>14. c_op("mul_lo", a, b) = ToWord(p) /\ c_op("mul_hi", a, b) = u /\ c_op("imul_hi", a, b) = ToWord(v)
  BY DEF c_op, p, u, v, s, x, y
<1>15. u \in Word
  BY <1>7 DEF Word
<1> QED
  BY <1>9, <1>10, <1>11, <1>12, <1>13, <1>14, <1>15

\* C's division is the manual's: toward zero, the remainder's sign the dividend's.
LEMMA Truncated ==
  ASSUME NEW x \in Int, NEW y \in Int, y # 0
  PROVE  /\ Quot(x, y) \in Int /\ x - y * Quot(x, y) \in Int
         /\ Rounded(x, y, Quot(x, y), x - y * Quot(x, y))
         /\ Abs(Quot(x, y)) <= Abs(x)
         /\ y # 1 /\ y # -1 => 2 * Abs(Quot(x, y)) <= Abs(x)
         /\ y = 1 => Quot(x, y) = x
         /\ y = -1 => Quot(x, y) = -x
<1> DEFINE A == Abs(x)
           B == Abs(y)
           d == A \div B
           m == A % B
           q == Quot(x, y)
           r == x - y * q
<1>1. A \in Nat /\ B \in Nat \ {0} /\ A = (IF x < 0 THEN -x ELSE x) /\ B = (IF y < 0 THEN -y ELSE y)
  BY DEF Abs
<1> HIDE DEF A, B
<1>2. A = B * d + m /\ m \in 0 .. B - 1 /\ d \in Int
  <2>1. A \in Int /\ B \in Nat \ {0}
    BY <1>1
  <2>2. QED BY <2>1, Division
<1>3. q = IF (x < 0) = (y < 0) THEN d ELSE -d
  BY DEF Quot, A, B
<1> HIDE DEF d, m, q
<1>4. d >= 0
  <2> SUFFICES ASSUME d <= -1 PROVE FALSE
    BY <1>2
  <2>1. B * d <= -B
    BY <1>1, <1>2
  <2>2. QED BY <1>1, <1>2, <2>1
<1>5. q \in Int /\ Abs(q) = d
  BY <1>2, <1>3, <1>4 DEF Abs
<1>6. r = IF x < 0 THEN -m ELSE m
  <2>1. B * d \in Int
    BY <1>1, <1>2
  <2>2. y * q = IF x < 0 THEN -(B * d) ELSE B * d
    <3>1. CASE y < 0 /\ x < 0
      <4>1. q = d /\ y = -B
        BY <1>1, <1>3, <3>1
      <4>2. QED BY <1>1, <1>2, <3>1, <4>1
    <3>2. CASE y < 0 /\ ~ (x < 0)
      <4>1. q = -d /\ y = -B
        BY <1>1, <1>3, <3>2
      <4>2. QED BY <1>1, <1>2, <3>2, <4>1
    <3>3. CASE ~ (y < 0) /\ x < 0
      <4>1. q = -d /\ y = B
        BY <1>1, <1>3, <3>3
      <4>2. QED BY <1>1, <1>2, <3>3, <4>1
    <3>4. CASE ~ (y < 0) /\ ~ (x < 0)
      <4>1. q = d /\ y = B
        BY <1>1, <1>3, <3>4
      <4>2. QED BY <1>1, <1>2, <3>4, <4>1
    <3> QED BY <3>1, <3>2, <3>3, <3>4
  <2>3. QED BY <1>1, <1>2, <2>1, <2>2
<1>7. r \in Int /\ Abs(r) = m /\ (r # 0 => (r < 0) = (x < 0)) /\ x = y * q + r
  <2>1. y * q \in Int
    BY <1>5
  <2>2. x = y * q + r
    BY <2>1
  <2> HIDE DEF r
  <2>3. QED BY <1>1, <1>2, <1>6, <2>2 DEF Abs
<1>8. Rounded(x, y, q, r)
  <2>1. Abs(y) = B
    BY DEF B
  <2>2. QED BY <1>1, <1>2, <1>7, <2>1 DEF Rounded
<1>9. d <= A
  <2>1. d <= B * d
    BY <1>1, <1>2, <1>4
  <2>2. B * d \in Int
    BY <1>1, <1>2
  <2>3. QED BY <1>1, <1>2, <2>1, <2>2
<1>10. B # 1 => 2 * d <= A
  <2>1. B # 1 => 2 * d <= B * d
    BY <1>1, <1>2, <1>4
  <2>2. B * d \in Int
    BY <1>1, <1>2
  <2>3. QED BY <1>1, <1>2, <2>1, <2>2
<1>11. B = 1 => d = A
  BY <1>1, <1>2
<1>12. Abs(x) = A
  BY DEF A
<1>13. y # 1 /\ y # -1 => B # 1
  BY <1>1
<1>14. y = 1 => q = x
  BY <1>1, <1>3, <1>11
<1>15. y = -1 => q = -x
  <2> SUFFICES ASSUME y = -1 PROVE q = -x
    OBVIOUS
  <2>1. y < 0 /\ B = 1
    <3>1. y + 1 = 0
      OBVIOUS
    <3>2. \A z \in Int : z + 1 = 0 => z < 0 /\ -z = 1
      OBVIOUS
    <3>3. y < 0 /\ -y = 1
      BY <3>1, <3>2, Zenon
    <3>4. QED BY <1>1, <3>3
  <2>2. d = A
    BY <1>11, <2>1
  <2>3. QED BY <1>1, <1>3, <2>1, <2>2
<1> HIDE DEF r
<1>16. /\ q \in Int /\ r \in Int /\ Rounded(x, y, q, r) /\ Abs(q) <= Abs(x)
       /\ y # 1 /\ y # -1 => 2 * Abs(q) <= Abs(x)
       /\ y = 1 => q = x
       /\ y = -1 => q = -x
  BY <1>5, <1>7, <1>8, <1>9, <1>10, <1>12, <1>13, <1>14, <1>15
<1> QED
  BY <1>16 DEF q, r

\* The four divisions, with the operands for which the manual fixes the result.
LEMMA SignedDivisions ==
  ASSUME NEW a \in Word, NEW b \in Word
  PROVE  /\ div(a, b).kind = "reg" /\ div(a, b).val \in Word /\ IsaMulDiv(4, a, b, div(a, b).val)
         /\ rem(a, b).kind = "reg" /\ rem(a, b).val \in Word /\ IsaMulDiv(6, a, b, rem(a, b).val)
<1> DEFINE x == Signed(a)
           y == Signed(b)
           q == Quot(x, y)
           r == x - y * q
<1>1. a \in 0 .. N - 1 /\ b \in 0 .. N - 1 /\ N \in Nat \ {0} /\ half \in Nat /\ N = 2 * half /\ half >= 8
  BY WordFacts DEF Word
<1>2. MostNeg = half /\ MinusOne = N - 1 /\ MostNeg \in Word /\ MinusOne \in Word /\ 0 \in Word
  BY <1>1, WordFacts DEF MostNeg, MinusOne, Word
<1>3. /\ x \in -half .. half - 1 /\ y \in -half .. half - 1
      /\ x = -half => a = half
      /\ y = -1 => b = N - 1
      /\ y = 0 => b = 0
  BY <1>1, SignedOfWord, WordFacts DEF Signed
<1> HIDE DEF x, y
<1>4. CASE b = 0
  <2>1. div(a, b) = Writes(MinusOne) /\ rem(a, b) = Writes(a)
    BY <1>4 DEF div, rem
  <2>2. QED BY <1>2, <1>4, <2>1 DEF Writes, IsaMulDiv
<1>5. CASE b # 0 /\ Overflows(a, b)
  <2>1. div(a, b) = Writes(a) /\ rem(a, b) = Writes(0)
    BY <1>5 DEF div, rem, Overflows
  <2>2. a = MostNeg
    BY <1>5 DEF Overflows
  <2>3. QED BY <1>2, <1>5, <2>1, <2>2 DEF Writes, IsaMulDiv
<1>6. CASE b # 0 /\ ~ Overflows(a, b)
  <2>1. y # 0 /\ ~ (x = -half /\ y = -1)
    BY <1>2, <1>3, <1>6 DEF Overflows
  <2>2. x \in Int /\ y \in Int
    BY <1>1, <1>3
  <2>3. /\ q \in Int /\ r \in Int
        /\ Rounded(x, y, q, r)
        /\ Abs(q) <= Abs(x)
        /\ y # 1 /\ y # -1 => 2 * Abs(q) <= Abs(x)
        /\ y = 1 => q = x
        /\ y = -1 => q = -x
    BY <2>1, <2>2, Truncated
  <2>4. div(a, b) = Writes(ToWord(q)) /\ rem(a, b) = Writes(ToWord(r))
    <3>1. ~ HostFault("idiv_q", a, b) /\ ~ HostFault("idiv_r", a, b)
      BY <1>6 DEF HostFault, Overflows
    <3>2. c_op("idiv_q", a, b) = ToWord(q) /\ c_op("idiv_r", a, b) = ToWord(r)
      BY DEF c_op, x, y
    <3>3. QED BY <1>6, <3>1, <3>2 DEF div, rem, rtl, Overflows
  <2> HIDE DEF q, r
  <2>5. q \in -half .. half - 1
    BY <1>1, <1>3, <2>1, <2>3 DEF Abs
  <2>6. r \in -half .. half - 1
    BY <1>1, <1>3, <2>1, <2>3 DEF Abs, Rounded
  <2>7. /\ Signed(ToWord(q)) = q /\ ToWord(q) \in Word
        /\ Signed(ToWord(r)) = r /\ ToWord(r) \in Word
    BY <2>3, <2>5, <2>6, SignedOfInt, WordOf
  <2>8. q \in -N .. N /\ r \in -N .. N
    BY <1>1, <2>3, <2>5, <2>6
  <2>9. IsaMulDiv(4, a, b, ToWord(q))
    BY <1>6, <2>3, <2>7, <2>8 DEF IsaMulDiv, x, y
  <2>10. IsaMulDiv(6, a, b, ToWord(r))
    BY <1>6, <2>3, <2>7, <2>8 DEF IsaMulDiv, x, y
  <2>11. QED BY <2>4, <2>7, <2>9, <2>10 DEF Writes
<1> QED
  BY <1>4, <1>5, <1>6

\* The same of divu and remu.
LEMMA UnsignedDivisions ==
  ASSUME NEW a \in Word, NEW b \in Word
  PROVE  /\ divu(a, b).kind = "reg" /\ divu(a, b).val \in Word /\ IsaMulDiv(5, a, b, divu(a, b).val)
         /\ remu(a, b).kind = "reg" /\ remu(a, b).val \in Word /\ IsaMulDiv(7, a, b, remu(a, b).val)
<1>1. a \in 0 .. N - 1 /\ b \in 0 .. N - 1 /\ N \in Nat \ {0}
  BY WordFacts DEF Word
<1>2. MinusOne \in Word
  BY <1>1 DEF MinusOne, Word
<1> HIDE DEF N
<1>3. CASE b = 0
  <2>1. divu(a, b) = Writes(MinusOne) /\ remu(a, b) = Writes(a)
    BY <1>3 DEF divu, remu
  <2>2. QED BY <1>2, <1>3, <2>1 DEF Writes, IsaMulDiv
<1>4. CASE b # 0
  <2> DEFINE q == a \div b
             r == a % b
  <2>1. b \in Nat \ {0} /\ a \in Int
    BY <1>1, <1>4
  <2>2. a = b * q + r /\ r \in 0 .. b - 1 /\ q \in Int
    BY <2>1, Division, Zenon
  <2>3. divu(a, b) = Writes(q) /\ remu(a, b) = Writes(r)
    BY <1>4 DEF divu, remu, rtl, HostFault, c_op
  <2> HIDE DEF q, r
  <2>4. q >= 0
    <3> SUFFICES ASSUME q <= -1 PROVE FALSE
      BY <2>2
    <3>1. b * q <= -b
      BY <2>1, <2>2
    <3>2. QED BY <1>1, <2>1, <2>2, <3>1
  <2>5. q <= b * q /\ b * q \in Int
    BY <2>1, <2>2, <2>4
  <2>6. q \in Word /\ r \in Word
    BY <1>1, <2>1, <2>2, <2>4, <2>5 DEF Word
  <2>7. Rounded(a, b, q, r)
    BY <1>1, <2>1, <2>2 DEF Rounded, Abs
  <2>8. IsaMulDiv(5, a, b, q)
    BY <1>4, <2>6, <2>7 DEF IsaMulDiv
  <2>9. IsaMulDiv(7, a, b, r)
    BY <1>4, <2>6, <2>7 DEF IsaMulDiv
  <2>10. QED BY <2>3, <2>6, <2>8, <2>9 DEF Writes
<1> QED
  BY <1>3, <1>4

--------------------------------------------------------------------------
\* Loads of a byte, two and four.
LEMMA Lengths ==
  /\ W \div 4 \in Nat \ {0} /\ W = 4 * (W \div 4)
  /\ 2^0 = 1 /\ 2^1 = 2 /\ 2^2 = 4
<1>1. W = 4 * (W \div 4) /\ W \div 4 \in Nat \ {0}
  BY WidthAssumption
<1>2. 2^(0 + 1) = 2 * 2^0
  BY PowerStep
<1>3. 2^(1 + 1) = 2 * 2^1
  BY PowerStep
<1>4. 0 + 1 = 1 /\ 1 + 1 = 2
  OBVIOUS
<1> QED
  BY <1>1, <1>2, <1>3, <1>4, PowerZero

\* The length in funct3.
LEMMA LoadLength ==
  ASSUME NEW f3 \in {0, 1, 2, 4, 5}
  PROVE  load_len(f3) = 2^(f3 % 4) /\ (f3 % 4 = 0 \/ f3 % 4 = 1 \/ f3 % 4 = 2)
<1>1. 0 % 4 = 0 /\ 1 % 4 = 1 /\ 2 % 4 = 2 /\ 4 % 4 = 0 /\ 5 % 4 = 1
  OBVIOUS
<1> QED
  BY <1>1, Lengths DEF load_len

\* What ld leaves.
LEMMA ZeroExtension ==
  ASSUME NEW top \in 1 .. W, NEW d \in 0 .. 2^top - 1
  PROVE  /\ d \in Word
         /\ \A k \in 0 .. W - 1 : Bit(d, k) = IF k < top THEN Bit(d, k) ELSE 0
<1>1. 2^top \in Nat \ {0} /\ top \in Nat /\ W \in Nat /\ W - top \in Nat /\ 2^(W - top) \in Nat \ {0}
  BY Power, WordFacts
<1>2. 2^W = 2^top * 2^(W - top)
  <2>1. 2^(top + (W - top)) = 2^top * 2^(W - top) /\ top + (W - top) = W
    BY <1>1, PowerSum
  <2>2. QED BY <2>1
<1>3. 2^top <= 2^W /\ 2^W \in Nat
  <2>1. \A x, y \in Nat \ {0} : x <= x * y /\ x * y \in Nat
    OBVIOUS
  <2>2. QED BY <1>1, <1>2, <2>1
<1>4. d \in Word
  BY <1>1, <1>3, WordFacts DEF Word
<1>5. ASSUME NEW k \in 0 .. W - 1, k >= top PROVE Bit(d, k) = 0
  <2>1. d \in -2^top .. 2^top - 1 /\ ~ (d < 0) /\ k \in Nat
    BY <1>1
  <2>2. QED BY <1>1, <1>5, <2>1, BitBeyond
<1> QED
  BY <1>1, <1>4, <1>5

\* What lds leaves.
LEMMA SignExtension ==
  ASSUME NEW top \in 1 .. W, NEW d \in 0 .. 2^top - 1,
         NEW v, v = IF d >= 2^top \div 2 THEN ToWord(d - 2^top) ELSE d
  PROVE  /\ v \in Word
         /\ \A k \in 0 .. W - 1 : Bit(v, k) = IF k < top THEN Bit(d, k) ELSE Bit(d, top - 1)
<1> DEFINE x == IF d < 2^(top - 1) THEN d ELSE d - 2^top
<1>1. top \in Nat \ {0} /\ top - 1 \in Nat /\ 2^top \in Nat \ {0} /\ 2^(top - 1) \in Nat \ {0} /\ d \in Int
  BY Power, WordFacts
<1>2. 2^top \div 2 = 2^(top - 1)
  <2> DEFINE h == 2^(top - 1)
  <2>1. 2^top = 2 * h
    <3>1. (top - 1) + 1 = top
      BY <1>1
    <3>2. QED BY <1>1, <3>1, PowerStep
  <2>2. h \in Nat
    BY <1>1
  <2> HIDE DEF h
  <2>3. (2 * h) \div 2 = h
    BY <2>2
  <2>4. QED BY <2>1, <2>3 DEF h
<1>3. v \in Word /\ v = ToWord(x)
  <2>1. CASE d < 2^(top - 1)
    <3>1. v = d /\ d \in Word
      BY <1>1, <1>2, <2>1, ZeroExtension
    <3>2. ToWord(d) = d
      <4>1. d = N * 0 + d
        BY <1>1, WordFacts
      <4>2. QED BY <1>1, <3>1, <4>1, WordsAgree
    <3>3. QED BY <2>1, <3>1, <3>2
  <2>2. CASE ~ (d < 2^(top - 1))
    <3>1. v = ToWord(d - 2^top) /\ d - 2^top \in Int
      BY <1>1, <1>2, <2>2
    <3>2. QED BY <2>2, <3>1, WordOf
  <2>3. QED BY <2>1, <2>2
<1>4. x \in Int
  BY <1>1
<1>5. ASSUME NEW k \in 0 .. W - 1 PROVE Bit(x, k) = IF k < top THEN Bit(d, k) ELSE Bit(d, top - 1)
  BY <1>1, SignExtended
<1> HIDE DEF x
<1>6. \A k \in 0 .. W - 1 : Bit(v, k) = Bit(x, k)
  BY <1>3, <1>4, BitOfToWord
<1> QED
  BY <1>3, <1>5, <1>6

\* Each load leaves what the manual says.
LEMMA Loaded ==
  ASSUME NEW f3 \in {0, 1, 2, 4, 5}, NEW d \in 0 .. LenMask(load_len(f3)) - 1
  PROVE  extend(f3, d) \in Word /\ IsaLoad(2^(f3 % 4), f3 < 4, d, extend(f3, d))
<1> DEFINE len == load_len(f3)
           top == len * (W \div 4)
           v == extend(f3, d)
<1>1. /\ len \in {1, 2, 4}
      /\ f3 \in {0, 1, 4, 5} => len \in {1, 2}
      /\ f3 = 2 => len = 4
  BY DEF load_len
<1>2. top \in 1 .. W /\ (f3 = 2 => top = W)
  BY <1>1, Lengths
<1>3. LenMask(len) = 2^top
  BY DEF LenMask
<1>4. v = IF f3 \in {0, 1} /\ d >= 2^top \div 2 THEN ToWord(d - 2^top) ELSE d
  BY <1>3 DEF extend
<1>5. len = 2^(f3 % 4)
  BY LoadLength
<1>6. d \in 0 .. 2^top - 1
  BY <1>3
<1> HIDE DEF len, v
<1>7. CASE f3 \in {0, 1}
  <2>1. v = IF d >= 2^top \div 2 THEN ToWord(d - 2^top) ELSE d
    BY <1>4, <1>7
  <2>2. v \in Word /\ \A k \in 0 .. W - 1 : Bit(v, k) = IF k < top THEN Bit(d, k) ELSE Bit(d, top - 1)
    BY <1>2, <1>6, <2>1, SignExtension
  <2>3. IsaLoad(len, f3 < 4, d, v)
    BY <1>7, <2>2 DEF IsaLoad, Bitwise
  <2>4. QED BY <1>5, <2>2, <2>3 DEF v
<1>8. CASE f3 \in {2, 4, 5}
  <2>1. v = d
    BY <1>4, <1>8
  <2>2. v \in Word /\ \A k \in 0 .. W - 1 : Bit(v, k) = IF k < top THEN Bit(d, k) ELSE 0
    BY <1>2, <1>6, <2>1, ZeroExtension
  <2>3. CASE f3 = 2
    <3>1. \A k \in 0 .. W - 1 : k < top
      BY <1>2, <2>3, WordFacts
    <3>2. IsaLoad(len, f3 < 4, d, v)
      BY <2>2, <3>1 DEF IsaLoad, Bitwise
    <3>3. QED BY <1>5, <2>2, <3>2 DEF v
  <2>4. CASE f3 \in {4, 5}
    <3>1. ~ (f3 < 4)
      BY <2>4
    <3>2. IsaLoad(len, f3 < 4, d, v)
      BY <2>2, <3>1 DEF IsaLoad, Bitwise
    <3>3. QED BY <1>5, <2>2, <3>2 DEF v
  <2>5. QED BY <1>8, <2>3, <2>4
<1> QED
  BY <1>7, <1>8

\* Every shift amount is a word.
LEMMA Exceeds == \A n \in Nat : n < 2^n
<1> DEFINE T == {n \in Nat : n < 2^n}
<1>1. 0 \in T
  BY PowerZero
<1>2. ASSUME NEW n \in Nat, n \in T PROVE n + 1 \in T
  <2>1. n < 2^n /\ 2^n \in Nat /\ 2^(n + 1) = 2 * 2^n
    BY <1>2, Subsets
  <2>2. QED BY <2>1
<1> HIDE DEF T
<1>3. \A n \in Nat : n \in T
  BY <1>1, <1>2, Induction
<1> QED BY <1>3 DEF T

--------------------------------------------------------------------------
\* What holds between any two steps: the registers and the program counter hold
\* words, the zero register zero; an instruction is under way only while the guest
\* runs, and then no data access is; a running guest has no exit status.
IInv ==
  /\ gpr \in [GPR -> Word] /\ gpr[0] = 0
  /\ pc \in Word
  /\ instr \in Instrs \cup {NONE}
  /\ nemu.state = "RUNNING" => nemu = RUNNING
  /\ instr # NONE => host = "up" /\ nemu = RUNNING /\ access = NONE

\* What the fields of an instruction may hold.
Fields(i) ==
  /\ i # NONE
  /\ i.op \in {"op", "op_imm", "load", "store", "branch", "jal", "jalr", "lui",
               "auipc", "nemu_trap", "unknown", "compressed"}
  /\ i.f3 \in Funct3
  /\ i.rd \in GPR /\ i.rs1 \in GPR /\ i.rs2 \in GPR /\ i.imm \in Word
  /\ i.op = "op_imm" /\ i.f3 \notin {1, 5} => i.f7 = BASE

\* Every instruction's fields are of their sets.
LEMMA InstrFields == \A i \in Instrs : Fields(i)
<1> SUFFICES ASSUME NEW i \in Instrs PROVE Fields(i)
  OBVIOUS
<1>1. /\ 0 .. W - 1 \subseteq Word /\ Zero \subseteq Word /\ Zero \subseteq GPR
      /\ IMMS \subseteq Word /\ TARGETS \subseteq Word
  <2>1. W \in Nat /\ W < N /\ N \in Nat
    BY WordFacts, Exceeds
  <2> HIDE DEF N
  <2>2. QED BY <2>1, RegAssumption, ImmAssumption DEF Word, Zero
<1>2. /\ Zero \subseteq Funct3 /\ {0, 1} \subseteq Funct3 /\ {1, 5} \subseteq Funct3
      /\ Funct3 \ {1, 5} \subseteq Funct3 /\ Funct3 \subseteq Funct3 /\ GPR \subseteq GPR
  BY DEF Funct3, Zero
<1>3. ASSUME NEW o \in {"op", "op_imm", "load", "store", "branch", "jal", "jalr", "lui",
                        "auipc", "nemu_trap", "unknown", "compressed"},
             NEW f3 \in SUBSET Funct3, NEW f7, NEW rd \in SUBSET GPR, NEW rs1 \in SUBSET GPR,
             NEW rs2 \in SUBSET GPR, NEW imm \in SUBSET Word,
             o = "op_imm" => f3 \subseteq {1, 5} \/ f7 = {BASE},
             i \in Instructions(o, f3, f7, rd, rs1, rs2, imm)
      PROVE  Fields(i)
  <2>1. /\ i.op = o /\ i.f3 \in f3 /\ i.f7 \in f7 /\ i.rd \in rd /\ i.rs1 \in rs1
        /\ i.rs2 \in rs2 /\ i.imm \in imm /\ "f3" \in DOMAIN i
    BY <1>3 DEF Instructions
  <2>2. "f3" \notin DOMAIN NONE
    BY DEF NONE
  <2>3. QED BY <1>3, <2>1, <2>2 DEF Fields
<1>4. CASE i \in Instructions("op", Funct3, AnyF7, GPR, GPR, GPR, Zero)
  BY <1>1, <1>2, <1>3, <1>4
<1>5. CASE \/ i \in Instructions("op_imm", Funct3 \ {1, 5}, Zero, GPR, GPR, Zero, IMMS)
           \/ i \in Instructions("op_imm", {1, 5}, AnyF7, GPR, GPR, Zero, 0 .. W - 1)
  <2>1. Zero = {BASE}
    BY DEF Zero, BASE
  <2>2. QED BY <1>1, <1>2, <1>3, <1>5, <2>1
<1>6. CASE \/ i \in Instructions("load", Funct3, Zero, GPR, GPR, Zero, IMMS)
           \/ i \in Instructions("store", Funct3, Zero, Zero, GPR, GPR, IMMS)
           \/ i \in Instructions("branch", Funct3, Zero, Zero, GPR, GPR, TARGETS)
  BY <1>1, <1>2, <1>3, <1>6
<1>7. CASE \/ i \in Instructions("jal", Zero, Zero, GPR, Zero, Zero, TARGETS)
           \/ i \in Instructions("jalr", {0, 1}, Zero, GPR, GPR, Zero, IMMS)
           \/ i \in Instructions("lui", Zero, Zero, GPR, Zero, Zero, IMMS)
           \/ i \in Instructions("auipc", Zero, Zero, GPR, Zero, Zero, IMMS)
  BY <1>1, <1>2, <1>3, <1>7
<1>8. CASE \/ i \in Instructions("nemu_trap", Zero, Zero, Zero, Zero, Zero, Zero)
           \/ i \in Instructions("unknown", Zero, Zero, Zero, Zero, Zero, Zero)
           \/ i \in Instructions("compressed", Zero, Zero, Zero, Zero, Zero, Zero)
  BY <1>1, <1>2, <1>3, <1>8
<1> QED
  BY <1>4, <1>5, <1>6, <1>7, <1>8 DEF Instrs

--------------------------------------------------------------------------
\* No fault but in a division: the RTL operation is written.
LEMMA RtlWrites ==
  ASSUME NEW a, NEW b,
         NEW o \in {"add", "sub", "and", "or", "xor", "shl", "shr", "sar", "mul_lo", "mul_hi", "imul_hi"}
  PROVE  rtl(o, a, b) = Writes(c_op(o, a, b))
BY DEF rtl, HostFault

\* A base operation writes what the manual says.
LEMMA BaseRight ==
  ASSUME NEW f3 \in Funct3, NEW a \in Word, NEW b \in Word, NEW e, e = base_helper(f3, a, b)
  PROVE  e.kind = "reg" /\ e.val \in Word /\ BasePerISA(f3, a, b, e.val)
<1>0. \A v : Writes(v).kind = "reg" /\ Writes(v).val = v
  BY DEF Writes
<1>1. CASE f3 = 0
  <2>1. e = Writes(c_op("add", a, b))
    BY <1>1, RtlWrites DEF base_helper
  <2>2. QED BY <1>0, <1>1, <2>1, AddSub
<1>2. CASE f3 = 1
  <2>1. e = Writes(c_op("shl", a, b))
    BY <1>2, RtlWrites DEF base_helper
  <2>2. QED BY <1>0, <1>2, <2>1, ShiftLeft
<1>3. CASE f3 = 2
  <2>1. e = Writes(setrelop("LT", a, b))
    BY <1>3 DEF base_helper, relop
  <2>2. QED BY <1>0, <1>3, <2>1, Compared
<1>4. CASE f3 = 3
  <2>1. e = Writes(setrelop("LTU", a, b))
    BY <1>4 DEF base_helper, relop
  <2>2. QED BY <1>0, <1>4, <2>1, Compared
<1>5. CASE f3 = 4
  <2>1. e = Writes(c_op("xor", a, b))
    BY <1>5, RtlWrites DEF base_helper
  <2>2. QED BY <1>0, <1>5, <2>1, BitOperations
<1>6. CASE f3 = 5
  <2>1. e = Writes(c_op("shr", a, b))
    BY <1>6, RtlWrites DEF base_helper
  <2>2. QED BY <1>0, <1>6, <2>1, ShiftRight
<1>7. CASE f3 = 6
  <2>1. e = Writes(c_op("or", a, b))
    BY <1>7, RtlWrites DEF base_helper
  <2>2. QED BY <1>0, <1>7, <2>1, BitOperations
<1>8. CASE f3 = 7
  <2>1. e = Writes(c_op("and", a, b))
    BY <1>8, RtlWrites DEF base_helper
  <2>2. QED BY <1>0, <1>8, <2>1, BitOperations
<1> QED
  BY <1>1, <1>2, <1>3, <1>4, <1>5, <1>6, <1>7, <1>8 DEF Funct3

\* A multiplication or division writes what the manual says, mulhsu a word.
LEMMA MulDivRight ==
  ASSUME NEW f3 \in Funct3, NEW a \in Word, NEW b \in Word
  PROVE  LET e == muldiv_helper(f3, a, b)
         IN  e.kind = "reg" /\ e.val \in Word /\ (f3 = 2 \/ IsaMulDiv(f3, a, b, e.val))
<1> DEFINE e == muldiv_helper(f3, a, b)
<1>1. CASE f3 = 0
  <2>1. e = Writes(c_op("mul_lo", a, b))
    BY <1>1, RtlWrites DEF muldiv_helper
  <2>2. QED BY <1>1, <2>1, Products DEF Writes
<1>2. CASE f3 = 1
  <2>1. e = Writes(c_op("imul_hi", a, b))
    BY <1>2, RtlWrites DEF muldiv_helper
  <2>2. QED BY <1>2, <2>1, Products DEF Writes
<1>3. CASE f3 = 2
  <2> DEFINE s0 == c_op("mul_hi", a, b)
             s1 == c_op("mul_hi", MinusOne, b)
  <2>1. MinusOne \in Word
    BY WordFacts DEF MinusOne, Word
  <2>2. s0 \in Word /\ s1 \in Word
    BY <2>1, Products
  <2>3. c_op("add", s0, s1) \in Word
    BY <2>2, AddSub
  <2>4. e = Writes(c_op("add", s0, s1))
    BY <1>3, RtlWrites DEF muldiv_helper, mulhsu
  <2>5. QED BY <1>3, <2>3, <2>4 DEF Writes
<1>4. CASE f3 = 3
  <2>1. e = Writes(c_op("mul_hi", a, b))
    BY <1>4, RtlWrites DEF muldiv_helper
  <2>2. QED BY <1>4, <2>1, Products DEF Writes
<1>5. CASE f3 \in {4, 6}
  <2>1. e = IF f3 = 4 THEN div(a, b) ELSE rem(a, b)
    BY <1>5 DEF muldiv_helper
  <2>2. QED BY <1>5, <2>1, SignedDivisions
<1>6. CASE f3 \in {5, 7}
  <2>1. e = IF f3 = 5 THEN divu(a, b) ELSE remu(a, b)
    BY <1>6 DEF muldiv_helper
  <2>2. QED BY <1>6, <2>1, UnsignedDivisions
<1> QED
  BY <1>1, <1>2, <1>3, <1>4, <1>5, <1>6 DEF Funct3

\* A legal op writes what the manual says, an illegal one fails an assertion.
LEMMA OpRight ==
  ASSUME NEW i \in Instrs, i.op = "op", NEW a \in Word, NEW b \in Word
  PROVE  LET e == op_helper(i.f3, i.f7, a, b)
         IN  /\ ~ Legal(i) => e = ASSERTED
             /\ Legal(i) => /\ e.kind = "reg" /\ e.val \in Word
                            /\ i.f7 = MULDIV => IsMulhsu(i) \/ IsaMulDiv(i.f3, a, b, e.val)
                            /\ i.f7 # MULDIV => IF i.f7 = ALT THEN AltPerISA(i.f3, a, b, e.val)
                                                ELSE BasePerISA(i.f3, a, b, e.val)
<1> DEFINE e == op_helper(i.f3, i.f7, a, b)
<1>1. i.f3 \in Funct3
  BY InstrFields DEF Fields
<1>2. Legal(i) <=> i.f7 \in {BASE, MULDIV} \/ (i.f7 = ALT /\ i.f3 \in {0, 5})
  BY DEF Legal
<1>3. BASE # MULDIV /\ BASE # ALT /\ ALT # MULDIV
  BY DEF BASE, ALT, MULDIV
<1>4. CASE i.f7 = BASE
  <2>1. e = base_helper(i.f3, a, b) /\ i.f7 # ALT /\ i.f7 # MULDIV
    BY <1>3, <1>4 DEF op_helper
  <2>2. e.kind = "reg" /\ e.val \in Word /\ BasePerISA(i.f3, a, b, e.val)
    BY <1>1, <2>1, BaseRight
  <2>3. IF i.f7 = ALT THEN AltPerISA(i.f3, a, b, e.val) ELSE BasePerISA(i.f3, a, b, e.val)
    BY <2>1, <2>2
  <2>4. QED BY <1>2, <1>4, <2>1, <2>2, <2>3
<1>5. CASE i.f7 = MULDIV
  <2>1. e = muldiv_helper(i.f3, a, b)
    BY <1>3, <1>5 DEF op_helper
  <2>2. QED BY <1>1, <1>2, <1>5, <2>1, MulDivRight DEF IsMulhsu
<1>6. CASE i.f7 = ALT /\ i.f3 \in {0, 5}
  <2>1. i.f7 = ALT /\ i.f7 # MULDIV
    BY <1>3, <1>6
  <2>2. e = Writes(IF i.f3 = 0 THEN c_op("sub", a, b) ELSE c_op("sar", a, b))
    BY <1>3, <1>6, RtlWrites DEF op_helper
  <2>3. e.kind = "reg" /\ e.val \in Word /\ AltPerISA(i.f3, a, b, e.val)
    BY <1>6, <2>2, AddSub, ShiftRight DEF Writes
  <2>4. IF i.f7 = ALT THEN AltPerISA(i.f3, a, b, e.val) ELSE BasePerISA(i.f3, a, b, e.val)
    BY <2>1, <2>3
  <2>5. QED BY <1>2, <1>6, <2>1, <2>3, <2>4
<1>7. CASE ~ (i.f7 \in {BASE, MULDIV} \/ (i.f7 = ALT /\ i.f3 \in {0, 5}))
  <2>1. e = ASSERTED
    BY <1>3, <1>7 DEF op_helper
  <2>2. QED BY <1>2, <1>7, <2>1
<1> QED
  BY <1>4, <1>5, <1>6, <1>7

\* The same of op_imm, whose second operand is the immediate.
LEMMA OpImmRight ==
  ASSUME NEW i \in Instrs, i.op = "op_imm", NEW a \in Word
  PROVE  LET e == op_imm_helper(i.f3, i.f7, a, i.imm)
         IN  /\ ~ Legal(i) => e = ASSERTED
             /\ Legal(i) => /\ e.kind = "reg" /\ e.val \in Word
                            /\ IF i.f7 = ALT THEN AltPerISA(i.f3, a, i.imm, e.val)
                               ELSE BasePerISA(i.f3, a, i.imm, e.val)
<1> DEFINE b == i.imm
           e == op_imm_helper(i.f3, i.f7, a, b)
<1>1. i.f3 \in Funct3 /\ b \in Word /\ (i.f3 \notin {1, 5} => i.f7 = BASE)
  BY InstrFields DEF Fields
<1> HIDE DEF b
<1>2. Legal(i) <=> (i.f3 \in {1, 5} => i.f7 = BASE \/ (i.f7 = ALT /\ i.f3 = 5))
  BY DEF Legal
<1>3. BASE # ALT
  BY DEF BASE, ALT
<1>4. CASE i.f7 = BASE
  <2>1. e = base_helper(i.f3, a, b)
    BY <1>1, <1>3, <1>4 DEF op_imm_helper, base_helper, Funct3
  <2>2. i.f7 # ALT
    BY <1>3, <1>4
  <2>3. e.kind = "reg" /\ e.val \in Word /\ BasePerISA(i.f3, a, b, e.val)
    BY <1>1, <2>1, BaseRight
  <2>4. IF i.f7 = ALT THEN AltPerISA(i.f3, a, b, e.val) ELSE BasePerISA(i.f3, a, b, e.val)
    BY <2>2, <2>3
  <2>5. QED BY <1>2, <1>4, <2>3, <2>4 DEF b
<1>5. CASE i.f7 = ALT /\ i.f3 = 5
  <2>1. e = Writes(c_op("sar", a, b))
    BY <1>3, <1>5, RtlWrites DEF op_imm_helper
  <2>2. i.f7 = ALT
    BY <1>5
  <2>3. e.kind = "reg" /\ e.val \in Word /\ AltPerISA(i.f3, a, b, e.val)
    BY <1>1, <1>5, <2>1, ShiftRight DEF Writes
  <2>4. IF i.f7 = ALT THEN AltPerISA(i.f3, a, b, e.val) ELSE BasePerISA(i.f3, a, b, e.val)
    BY <2>2, <2>3
  <2>5. QED BY <1>2, <1>5, <2>3, <2>4 DEF b
<1>6. CASE i.f7 # BASE /\ ~ (i.f7 = ALT /\ i.f3 = 5)
  <2>1. i.f3 \in {1, 5}
    BY <1>1, <1>6
  <2>2. e = ASSERTED
    BY <1>6, <2>1 DEF op_imm_helper
  <2>3. QED BY <1>2, <1>6, <2>1, <2>2 DEF b
<1> QED
  BY <1>4, <1>5, <1>6

\* Sums of words, as addresses and targets are.
LEMMA Addresses ==
  ASSUME NEW x \in Word, NEW y \in Word
  PROVE  /\ ToWord(x + y) \in Word /\ ((ToWord(x + y) - x) - y) % N = 0
         /\ ToWord(x + y) = (x + y) % N
<1>1. x + y \in Int /\ x \in Int /\ y \in Int
  BY DEF Word
<1>2. ToWord(x + y) \in Word /\ (ToWord(x + y) - (x + y)) % N = 0
  BY <1>1, CutToWord
<1>3. \A v \in Int : (v - x) - y = v - (x + y)
  BY <1>1
<1>4. ToWord(x + y) \in Int
  BY <1>2 DEF Word
<1> QED
  BY <1>2, <1>3, <1>4 DEF ToWord

\* The next address in sequence.
LEMMA NextInSequence ==
  ASSUME pc \in Word
  PROVE  seq_pc \in Word /\ seq_pc = (pc + 4) % N /\ ((seq_pc - pc) - 4) % N = 0
<1>1. 4 \in Word
  BY WordFacts DEF Word
<1> QED
  BY <1>1, Addresses DEF seq_pc

\* The registers after a helper's write: rd, unless it is the zero register.
LEMMA WriteRd ==
  ASSUME IInv, NEW v \in Word, instr \in Instrs, write_rd(v)
  PROVE  /\ gpr' \in [GPR -> Word] /\ gpr'[0] = 0
         /\ \A r \in GPR : gpr'[r] = IF r = instr.rd /\ r # 0 THEN v ELSE gpr[r]
<1>1. gpr \in [GPR -> Word] /\ gpr[0] = 0 /\ instr.rd \in GPR /\ 0 \in GPR /\ 0 \in Word
  BY InstrFields, RegAssumption, WordFacts DEF IInv, Fields, Word
<1>2. gpr' = [[gpr EXCEPT ![instr.rd] = v] EXCEPT ![0] = 0]
  BY DEF write_rd, reset_zero
<1> QED
  BY <1>1, <1>2

\* reset_zero alone changes nothing.
LEMMA NoWrite ==
  ASSUME IInv, gpr' = reset_zero(gpr)
  PROVE  gpr' = gpr
<1>1. gpr \in [GPR -> Word] /\ gpr[0] = 0
  BY DEF IInv
<1> QED
  BY <1>1 DEF reset_zero

\* The operands are words.
LEMMA Operands ==
  ASSUME IInv, instr # NONE
  PROVE  /\ instr \in Instrs /\ dsrc1 \in Word /\ dsrc2 \in Word /\ instr.imm \in Word
         /\ instr.f3 \in Funct3 /\ instr.rd \in GPR /\ access = NONE /\ host = "up" /\ nemu = RUNNING
         /\ gpr \in [GPR -> Word] /\ pc \in Word
BY InstrFields DEF IInv, Fields, dsrc1, dsrc2

\* jalr clears the lowest bit.
LEMMA Jumps ==
  ASSUME NEW x \in Word, NEW y \in Word, NEW s, s = ToWord(x + y)
  PROVE  /\ s - (s % 2) \in Word
         /\ s - (s % 2) = IF s % 2 = 1 THEN s - 1 ELSE s
<1>1. s \in Word /\ s \in Int
  BY Addresses DEF Word
<1>2. s = 2 * (s \div 2) + (s % 2) /\ s % 2 \in 0 .. 2 - 1 /\ s \div 2 \in Int
  <2>1. 2 \in Nat \ {0}
    OBVIOUS
  <2>2. QED BY <1>1, <2>1, Division, Zenon
<1> DEFINE h == s \div 2
           r == s % 2
<1>3. s = 2 * h + r /\ r \in 0 .. 1 /\ h \in Int
  BY <1>2
<1> HIDE DEF h, r
<1>4. s - r \in Word /\ s - r = IF r = 1 THEN s - 1 ELSE s
  BY <1>1, <1>3, WordFacts DEF Word
<1> QED
  BY <1>4 DEF r

--------------------------------------------------------------------------
\* The invariant.
LEMMA InvInit == Init => IInv
BY RegAssumption, WordFacts DEF Init, IInv, RUNNING, Word

\* What every instruction leaves.
LEMMA ExecTypes ==
  ASSUME IInv, exec
  PROVE  gpr' \in [GPR -> Word] /\ gpr'[0] = 0 /\ pc' \in Word /\ instr' = NONE
<1>1. instr # NONE
  BY DEF exec, op, op_imm, lui, auipc, load, store, jal, jalr, branch, nemu_trap, inv,
         compressed, helper, NONE
<1>2. gpr \in [GPR -> Word] /\ gpr[0] = 0 /\ pc \in Word /\ instr \in Instrs /\ seq_pc \in Word
  BY <1>1, NextInSequence DEF IInv
<1>3. ASSUME NEW e, compute(e), e.kind = "reg" => e.val \in Word
      PROVE  gpr' \in [GPR -> Word] /\ gpr'[0] = 0 /\ pc' \in Word /\ instr' = NONE
  BY <1>2, <1>3, WriteRd DEF compute, die, update_pc
<1>4. CASE op
  <2> DEFINE e == op_helper(instr.f3, instr.f7, dsrc1, dsrc2)
  <2>1. e.kind = "reg" => e.val \in Word
    BY <1>1, <1>4, Operands, OpRight DEF op, helper, ASSERTED
  <2>2. compute(e)
    BY <1>4 DEF op
  <2> HIDE DEF e
  <2>3. QED BY <1>3, <2>1, <2>2
<1>5. CASE op_imm
  <2> DEFINE e == op_imm_helper(instr.f3, instr.f7, dsrc1, instr.imm)
  <2>1. e.kind = "reg" => e.val \in Word
    BY <1>1, <1>5, Operands, OpImmRight DEF op_imm, helper, ASSERTED
  <2>2. compute(e)
    BY <1>5 DEF op_imm
  <2> HIDE DEF e
  <2>3. QED BY <1>3, <2>1, <2>2
<1>6. CASE lui \/ auipc
  <2>1. instr.imm \in Word /\ ToWord(instr.imm + pc) \in Word
    BY <1>1, Operands, Addresses
  <2>2. \A v : Writes(v).val = v
    BY DEF Writes
  <2>3. QED BY <1>3, <1>6, <2>1, <2>2 DEF lui, auipc
<1>7. CASE load
  <2>1. PICK v \in 0 .. LenMask(load_len(instr.f3)) - 1 : write_rd(extend(instr.f3, v))
    BY <1>7 DEF load
  <2>2. extend(instr.f3, v) \in Word
    BY <1>7, Loaded DEF load
  <2>3. QED BY <1>2, <1>7, <2>1, <2>2, WriteRd DEF load, update_pc
<1>8. CASE store \/ nemu_trap
  BY <1>2, <1>8, NoWrite DEF store, nemu_trap, update_pc
<1>9. CASE branch
  <2>1. ToWord(pc + instr.imm) \in Word
    BY <1>1, Operands, Addresses
  <2>2. gpr' = gpr
    BY <1>9, NoWrite DEF branch
  <2>3. instr' = NONE /\ pc' \in {ToWord(pc + instr.imm), seq_pc}
    BY <1>9 DEF branch, update_pc
  <2>4. QED BY <1>2, <2>1, <2>2, <2>3
<1>10. CASE inv
  <2>1. pc + 8 \in Int
    BY <1>2 DEF Word
  <2>2. ToWord(pc + 8) \in Word
    BY <2>1, WordOf
  <2>3. QED BY <1>2, <1>10, <2>2, NoWrite DEF inv, update_pc
<1>11. CASE jal
  <2>1. ToWord(pc + instr.imm) \in Word
    BY <1>1, Operands, Addresses
  <2>2. QED BY <1>2, <1>11, <2>1, WriteRd DEF jal, update_pc
<1>12. CASE jalr
  <2>1. jalr_target \in Word
    BY <1>1, Operands, Jumps DEF jalr_target
  <2>2. QED BY <1>2, <1>12, <2>1, WriteRd DEF jalr, update_pc, die
<1>13. CASE compressed
  BY <1>2, <1>13 DEF compressed, die
<1> QED
  BY <1>4, <1>5, <1>6, <1>7, <1>8, <1>9, <1>10, <1>11, <1>12, <1>13 DEF exec

\* Every step keeps the invariant.
LEMMA InvNext == IInv /\ [Next]_vars => IInv'
<1> SUFFICES ASSUME IInv, [Next]_vars PROVE IInv'
  OBVIOUS
<1>1. CASE fetch
  BY <1>1 DEF fetch, IInv
<1>2. CASE exec
  <2>1. gpr' \in [GPR -> Word] /\ gpr'[0] = 0 /\ pc' \in Word /\ instr' = NONE
    BY <1>2, ExecTypes
  <2>2. nemu'.state = "RUNNING" => nemu' = RUNNING
    <3>1. ASSUME NEW e, compute(e) PROVE nemu' = nemu
      BY <3>1 DEF compute, die
    <3>2. CASE op \/ op_imm \/ lui \/ auipc
      BY <3>1, <3>2 DEF op, op_imm, lui, auipc, IInv
    <3>3. CASE load \/ store \/ jal \/ jalr \/ branch \/ compressed
      BY <3>3 DEF load, store, jal, jalr, branch, compressed, die, IInv
    <3>4. CASE nemu_trap \/ inv
      BY <3>4 DEF nemu_trap, inv
    <3> QED
      BY <1>2, <3>2, <3>3, <3>4 DEF exec
  <2> QED
    BY <2>1, <2>2 DEF IInv
<1>3. CASE access_done
  BY <1>3 DEF access_done, IInv
<1>4. CASE UNCHANGED vars
  BY <1>4 DEF vars, IInv
<1> QED
  BY <1>1, <1>2, <1>3, <1>4 DEF Next

\* In every state the registers hold words and the zero register zero, and an
\* instruction is under way only while the guest runs.
THEOREM Riscv32Invariant == Spec => []IInv
<1> QED
  BY InvInit, InvNext, PTL DEF Spec

\* Register 0 reads as zero between instructions, whatever they write.
THEOREM ZeroStaysZeroHolds == Spec => []ZeroStaysZero
<1>1. IInv => ZeroStaysZero
  BY DEF IInv, ZeroStaysZero
<1> QED
  BY <1>1, Riscv32Invariant, PTL

--------------------------------------------------------------------------
\* No legal instruction kills the emulator or ends the guest, but nemu_trap.
THEOREM LegalCompletesHolds == Spec => LegalCompletes
<1> DEFINE Completes == instr # NONE /\ Legal(instr)
              => /\ host' = "up"
                 /\ nemu' = IF instr.op = "nemu_trap"
                            THEN [state |-> "END", halt_ret |-> gpr[A0]] ELSE RUNNING
<1>1. ASSUME IInv, [Next]_vars PROVE [Completes]_vars
  <2> SUFFICES ASSUME Next, instr # NONE, Legal(instr) PROVE Completes
    BY <1>1
  <2>0. instr \in Instrs /\ host = "up" /\ nemu = RUNNING /\ dsrc1 \in Word /\ dsrc2 \in Word
    BY <1>1, Operands
  <2>1. CASE fetch
    BY <2>1 DEF fetch
  <2>2. CASE access_done
    BY <2>2 DEF access_done
  <2>3. CASE op
    BY <2>0, <2>3, OpRight DEF op, helper, compute
  <2>4. CASE op_imm
    BY <2>0, <2>4, OpImmRight DEF op_imm, helper, compute
  <2>5. CASE lui \/ auipc
    BY <2>0, <2>5 DEF lui, auipc, helper, compute, Writes
  <2>6. CASE load \/ store \/ jal \/ branch
    BY <2>0, <2>6 DEF load, store, jal, branch, helper
  <2>7. CASE jalr
    BY <2>0, <2>7 DEF jalr, helper, Legal
  <2>8. CASE nemu_trap
    BY <2>0, <2>8 DEF nemu_trap, helper
  <2>9. CASE inv \/ compressed
    BY <2>9 DEF inv, compressed, helper, Legal
  <2> QED
    BY <2>1, <2>2, <2>3, <2>4, <2>5, <2>6, <2>7, <2>8, <2>9 DEF Next, exec
<1>2. Spec => [][Completes]_vars
  BY <1>1, Riscv32Invariant, PTL DEF Spec
<1> QED
  BY <1>2 DEF LegalCompletes

--------------------------------------------------------------------------
\* What is to be shown of an instruction.
Prescribed(i) ==
  /\ RegistersPerISA(i)
  /\ AccessPerISA(i)
  /\ pc' = IsaTarget(i)

\* It suffices that the value written to rd is the manual's.
LEMMA RegistersRight ==
  ASSUME IInv, instr \in Instrs, NEW v \in Word, write_rd(v),
         IsMulhsu(instr) \/ IsaValue(instr, v, IF instr.op = "load" THEN access'.data ELSE 0),
         WritesRd(instr)
  PROVE  RegistersPerISA(instr)
BY WriteRd DEF RegistersPerISA

\* An op or op_imm.
LEMMA ComputePerISA ==
  ASSUME IInv, instr \in Instrs, instr.op \in {"op", "op_imm", "lui", "auipc"},
         NEW e, compute(e), e.kind = "reg", e.val \in Word,
         access = NONE, IsMulhsu(instr) \/ IsaValue(instr, e.val, 0)
  PROVE  Prescribed(instr)
<1>1. write_rd(e.val) /\ pc' = seq_pc /\ access' = access
  BY DEF compute, update_pc
<1>2. WritesRd(instr) /\ instr.op # "load" /\ instr.op # "store"
  BY DEF WritesRd
<1>3. RegistersPerISA(instr)
  BY <1>1, <1>2, RegistersRight
<1>4. AccessPerISA(instr)
  BY <1>1, <1>2 DEF AccessPerISA
<1>5. pc' = IsaTarget(instr)
  BY <1>1, NextInSequence DEF IsaTarget, IInv
<1> QED
  BY <1>3, <1>4, <1>5 DEF Prescribed

\* Instruction by instruction.
LEMMA opPerISA ==
  ASSUME IInv, instr # NONE, op, Legal(instr)
  PROVE  Prescribed(instr)
<1> DEFINE e == op_helper(instr.f3, instr.f7, dsrc1, dsrc2)
<1>1. instr \in Instrs /\ dsrc1 \in Word /\ dsrc2 \in Word /\ access = NONE
  BY Operands
<1>2. instr.op = "op" /\ compute(e)
  BY DEF op, helper
<1>3. /\ e.kind = "reg" /\ e.val \in Word
      /\ instr.f7 = MULDIV => IsMulhsu(instr) \/ IsaMulDiv(instr.f3, dsrc1, dsrc2, e.val)
      /\ instr.f7 # MULDIV => IF instr.f7 = ALT THEN AltPerISA(instr.f3, dsrc1, dsrc2, e.val)
                              ELSE BasePerISA(instr.f3, dsrc1, dsrc2, e.val)
  BY <1>1, <1>2, OpRight
<1> HIDE DEF e
<1>4. CASE instr.f7 = MULDIV
  <2>1. IsaMulDiv(instr.f3, dsrc1, dsrc2, e.val) => IsaValue(instr, e.val, 0)
    BY <1>2, <1>4 DEF IsaValue, dsrc1, dsrc2
  <2>2. QED BY <1>1, <1>2, <1>3, <1>4, <2>1, ComputePerISA
<1>5. CASE instr.f7 # MULDIV
  <2>1. IsaBase(instr.f3, instr.f7 = ALT, dsrc1, dsrc2, e.val)
    BY <1>3, <1>5, PerISA
  <2>2. IsaValue(instr, e.val, 0)
    BY <1>2, <1>5, <2>1, Zenon DEF IsaValue, dsrc1, dsrc2
  <2>3. QED BY <1>1, <1>2, <1>3, <2>2, ComputePerISA
<1> QED
  BY <1>4, <1>5

\* op_imm.
LEMMA op_immPerISA ==
  ASSUME IInv, instr # NONE, op_imm, Legal(instr)
  PROVE  Prescribed(instr)
<1> DEFINE e == op_imm_helper(instr.f3, instr.f7, dsrc1, instr.imm)
<1>1. instr \in Instrs /\ dsrc1 \in Word /\ access = NONE
  BY Operands
<1>2. instr.op = "op_imm" /\ compute(e)
  BY DEF op_imm, helper
<1>3. /\ e.kind = "reg" /\ e.val \in Word
      /\ IF instr.f7 = ALT THEN AltPerISA(instr.f3, dsrc1, instr.imm, e.val)
         ELSE BasePerISA(instr.f3, dsrc1, instr.imm, e.val)
  BY <1>1, <1>2, OpImmRight
<1> HIDE DEF e
<1>4. IsaBase(instr.f3, instr.f7 = ALT, dsrc1, instr.imm, e.val)
  BY <1>3, PerISA
<1>5. IsaValue(instr, e.val, 0)
  BY <1>2, <1>4, Zenon DEF IsaValue, dsrc1
<1> QED
  BY <1>1, <1>2, <1>3, <1>5, ComputePerISA

\* lui and auipc.
LEMMA luiPerISA ==
  ASSUME IInv, instr # NONE, lui \/ auipc
  PROVE  Prescribed(instr)
<1>1. instr \in Instrs /\ instr.imm \in Word /\ pc \in Word /\ access = NONE
  BY Operands
<1>2. PICK v : /\ compute(Writes(v))
               /\ \/ instr.op = "lui" /\ v = instr.imm
                  \/ instr.op = "auipc" /\ v = ToWord(instr.imm + pc)
  <2>1. CASE lui
    <3>1. compute(Writes(instr.imm)) /\ instr.op = "lui"
      BY <2>1 DEF lui, helper
    <3>2. QED BY <3>1, Zenon
  <2>2. CASE auipc
    <3>1. compute(Writes(ToWord(instr.imm + pc))) /\ instr.op = "auipc"
      BY <2>2 DEF auipc, helper
    <3>2. QED BY <3>1, Zenon
  <2>3. QED BY <2>1, <2>2
<1>3. Writes(v).kind = "reg" /\ Writes(v).val = v
  BY DEF Writes
<1>4. v \in Word
  BY <1>1, <1>2, Addresses
<1>5. IsaValue(instr, v, 0)
  <2>1. CASE instr.op = "lui"
    BY <1>2, <2>1 DEF IsaValue
  <2>2. CASE instr.op = "auipc"
    <3>1. ((v - pc) - instr.imm) % N = 0
      <4>1. instr.imm + pc = pc + instr.imm
        BY <1>1 DEF Word
      <4>2. v = ToWord(pc + instr.imm)
        BY <1>2, <2>2, <4>1
      <4>3. QED BY <1>1, <4>2, Addresses
    <3>2. QED BY <2>2, <3>1 DEF IsaValue
  <2>3. QED BY <1>2, <2>1, <2>2
<1> QED
  BY <1>1, <1>2, <1>3, <1>4, <1>5, ComputePerISA

\* The loads, whatever the memory answers.
LEMMA loadPerISA ==
  ASSUME IInv, instr # NONE, load
  PROVE  Prescribed(instr)
<1>1. /\ instr \in Instrs /\ instr.imm \in Word /\ dsrc1 \in Word
      /\ instr.op = "load" /\ instr.f3 \in {0, 1, 2, 4, 5}
  BY Operands DEF load, helper
<1>2. PICK d \in 0 .. LenMask(load_len(instr.f3)) - 1 :
        /\ access' = [op |-> "read", addr |-> vaddr, len |-> load_len(instr.f3), data |-> d]
        /\ write_rd(extend(instr.f3, d))
  BY DEF load
<1> DEFINE v == extend(instr.f3, d)
<1>3. v \in Word /\ IsaLoad(2^(instr.f3 % 4), instr.f3 < 4, d, v)
  BY <1>1, Loaded
<1>4. access'.data = d /\ access'.op = "read" /\ access'.addr = vaddr /\ access'.len = 2^(instr.f3 % 4)
  BY <1>1, <1>2, LoadLength
<1> HIDE DEF v
<1>5. IsaValue(instr, v, d)
  BY <1>1, <1>3, Zenon DEF IsaValue
<1>6. RegistersPerISA(instr)
  BY <1>1, <1>2, <1>3, <1>4, <1>5, RegistersRight DEF WritesRd, v
<1>7. AccessPerISA(instr)
  <2>1. ((vaddr - dsrc1) - instr.imm) % N = 0
    BY <1>1, Addresses DEF vaddr
  <2>2. QED BY <1>1, <1>4, <2>1 DEF AccessPerISA, dsrc1
<1>8. pc' = IsaTarget(instr)
  BY <1>1, NextInSequence DEF IsaTarget, IInv, load, update_pc
<1> QED
  BY <1>6, <1>7, <1>8 DEF Prescribed

\* The stores.
LEMMA storePerISA ==
  ASSUME IInv, instr # NONE, store
  PROVE  Prescribed(instr)
<1>1. /\ instr \in Instrs /\ instr.imm \in Word /\ dsrc1 \in Word /\ dsrc2 \in Word
      /\ instr.op = "store" /\ instr.f3 \in {0, 1, 2} /\ gpr' = gpr
  BY Operands, NoWrite DEF store, helper
<1>2. access' = [op |-> "write", addr |-> vaddr, len |-> 2^instr.f3, data |-> dsrc2]
  BY DEF store
<1>3. instr.f3 % 4 = instr.f3
  BY <1>1
<1>4. ((vaddr - dsrc1) - instr.imm) % N = 0
  BY <1>1, Addresses DEF vaddr
<1>5. (dsrc2 - dsrc2) % LenMask(2^instr.f3) = 0
  <2>1. 2^instr.f3 \in Nat /\ W \div 4 \in Nat
    BY <1>1, Power, Lengths
  <2>2. 2^instr.f3 * (W \div 4) \in Nat
    BY <2>1
  <2>3. LenMask(2^instr.f3) \in Nat \ {0}
    BY <2>2, Power DEF LenMask
  <2>4. dsrc2 - dsrc2 = 0
    BY <1>1 DEF Word
  <2> DEFINE m == LenMask(2^instr.f3)
  <2>5. m \in Nat \ {0}
    BY <2>3
  <2> HIDE DEF m
  <2>6. 0 % m = 0
    BY <2>5
  <2>7. QED BY <2>4, <2>6 DEF m
<1>6. AccessPerISA(instr)
  BY <1>1, <1>2, <1>3, <1>4, <1>5 DEF AccessPerISA, dsrc1, dsrc2
<1>7. RegistersPerISA(instr)
  BY <1>1 DEF RegistersPerISA, WritesRd
<1>8. pc' = IsaTarget(instr)
  BY <1>1, NextInSequence DEF IsaTarget, IInv, store, update_pc
<1> QED
  BY <1>6, <1>7, <1>8 DEF Prescribed

\* jal and jalr, rd = rs1 included.
LEMMA jumpPerISA ==
  ASSUME IInv, instr # NONE, jal \/ jalr, Legal(instr)
  PROVE  Prescribed(instr)
<1>1. /\ instr \in Instrs /\ instr.imm \in Word /\ dsrc1 \in Word /\ access = NONE
      /\ instr.op \in {"jal", "jalr"} /\ pc \in Word
  BY Operands DEF jal, jalr, helper
<1>2. write_rd(seq_pc) /\ access' = NONE
  BY <1>1 DEF jal, jalr, helper, Legal
<1>3. IsaValue(instr, seq_pc, 0) /\ seq_pc \in Word
  BY <1>1, NextInSequence DEF IsaValue
<1>4. RegistersPerISA(instr)
  BY <1>1, <1>2, <1>3, RegistersRight DEF WritesRd
<1>5. AccessPerISA(instr)
  BY <1>1, <1>2 DEF AccessPerISA
<1>6. CASE jal
  <2>1. instr.op = "jal" /\ pc' = ToWord(pc + instr.imm)
    BY <1>6 DEF jal, helper, update_pc
  <2>2. QED BY <1>1, <1>4, <1>5, <2>1, Addresses DEF IsaTarget, Prescribed
<1>7. CASE jalr
  <2>1. instr.op = "jalr" /\ pc' = jalr_target
    BY <1>7 DEF jalr, helper, update_pc, Legal
  <2>2. jalr_target = IsaTarget(instr)
    <3> DEFINE s == ToWord(dsrc1 + instr.imm)
    <3>1. s - (s % 2) = IF s % 2 = 1 THEN s - 1 ELSE s
      BY <1>1, Jumps
    <3>2. s = (dsrc1 + instr.imm) % N
      BY DEF ToWord
    <3> HIDE DEF s
    <3>3. jalr_target = s - (s % 2)
      BY DEF jalr_target, s
    <3>4. IsaTarget(instr) = IF s % 2 = 1 THEN s - 1 ELSE s
      BY <2>1, <3>2 DEF IsaTarget, dsrc1
    <3>5. QED BY <3>1, <3>3, <3>4
  <2>3. QED BY <1>4, <1>5, <2>1, <2>2 DEF Prescribed
<1> QED
  BY <1>6, <1>7

\* The branches.
LEMMA branchPerISA ==
  ASSUME IInv, instr # NONE, branch, Legal(instr)
  PROVE  Prescribed(instr)
<1>1. /\ instr \in Instrs /\ instr.imm \in Word /\ dsrc1 \in Word /\ dsrc2 \in Word /\ access = NONE
      /\ instr.op = "branch" /\ pc \in Word /\ gpr' = gpr /\ access' = NONE
      /\ instr.f3 \in Funct3
  BY Operands, NoWrite DEF branch, helper
<1>2. instr.f3 \notin {2, 3}
  BY <1>1 DEF Legal
<1>3. interpret_relop(branch_relop(instr.f3), dsrc1, dsrc2) <=> Taken(instr)
  <2>1. /\ Signed(dsrc1) \in Int /\ Signed(dsrc2) \in Int /\ dsrc1 \in Int /\ dsrc2 \in Int
    BY <1>1, SignedOfWord DEF Word
  <2>2. CASE instr.f3 = 0
    <3>1. branch_relop(instr.f3) = "EQ"
      BY <2>2 DEF branch_relop
    <3>2. interpret_relop("EQ", dsrc1, dsrc2) <=> dsrc1 = dsrc2
      BY <2>1 DEF interpret_relop
    <3>3. Taken(instr) <=> dsrc1 = dsrc2
      BY <2>2 DEF Taken, dsrc1, dsrc2
    <3>4. QED BY <3>1, <3>2, <3>3
  <2>3. CASE instr.f3 = 1
    <3>1. branch_relop(instr.f3) = "NE"
      BY <2>3 DEF branch_relop
    <3>2. interpret_relop("NE", dsrc1, dsrc2) <=> dsrc1 # dsrc2
      BY <2>1 DEF interpret_relop
    <3>3. Taken(instr) <=> dsrc1 # dsrc2
      BY <2>3 DEF Taken, dsrc1, dsrc2
    <3>4. QED BY <3>1, <3>2, <3>3
  <2>4. CASE instr.f3 = 4
    <3>1. branch_relop(instr.f3) = "LT"
      BY <2>4 DEF branch_relop
    <3>2. interpret_relop("LT", dsrc1, dsrc2) <=> Signed(dsrc1) < Signed(dsrc2)
      BY <2>1 DEF interpret_relop
    <3>3. Taken(instr) <=> Signed(dsrc1) < Signed(dsrc2)
      BY <2>4 DEF Taken, dsrc1, dsrc2
    <3>4. QED BY <3>1, <3>2, <3>3
  <2>5. CASE instr.f3 = 5
    <3>1. branch_relop(instr.f3) = "GE"
      BY <2>5 DEF branch_relop
    <3>2. interpret_relop("GE", dsrc1, dsrc2) <=> ~ (Signed(dsrc1) < Signed(dsrc2))
      BY <2>1 DEF interpret_relop
    <3>3. Taken(instr) <=> ~ (Signed(dsrc1) < Signed(dsrc2))
      BY <2>5 DEF Taken, dsrc1, dsrc2
    <3>4. QED BY <3>1, <3>2, <3>3
  <2>6. CASE instr.f3 = 6
    <3>1. branch_relop(instr.f3) = "LTU"
      BY <2>6 DEF branch_relop
    <3>2. interpret_relop("LTU", dsrc1, dsrc2) <=> dsrc1 < dsrc2
      BY <2>1 DEF interpret_relop
    <3>3. Taken(instr) <=> dsrc1 < dsrc2
      BY <2>6 DEF Taken, dsrc1, dsrc2
    <3>4. QED BY <3>1, <3>2, <3>3
  <2>7. CASE instr.f3 = 7
    <3>1. branch_relop(instr.f3) = "GEU"
      BY <2>7 DEF branch_relop
    <3>2. interpret_relop("GEU", dsrc1, dsrc2) <=> ~ (dsrc1 < dsrc2)
      BY <2>1 DEF interpret_relop
    <3>3. Taken(instr) <=> ~ (dsrc1 < dsrc2)
      BY <2>7 DEF Taken, dsrc1, dsrc2
    <3>4. QED BY <3>1, <3>2, <3>3
  <2>8. QED BY <1>1, <1>2, <2>2, <2>3, <2>4, <2>5, <2>6, <2>7 DEF Funct3
<1>4. pc' = IF Taken(instr) THEN ToWord(pc + instr.imm) ELSE seq_pc
  BY <1>2, <1>3 DEF branch, update_pc
<1>5. pc' = IsaTarget(instr)
  BY <1>1, <1>4, NextInSequence DEF IsaTarget, ToWord
<1>6. RegistersPerISA(instr) /\ AccessPerISA(instr)
  BY <1>1 DEF RegistersPerISA, AccessPerISA, WritesRd
<1> QED
  BY <1>5, <1>6 DEF Prescribed

\* nemu_trap.
LEMMA trapPerISA ==
  ASSUME IInv, instr # NONE, nemu_trap
  PROVE  Prescribed(instr)
<1>1. instr.op = "nemu_trap" /\ pc \in Word /\ gpr' = gpr /\ access' = NONE /\ pc' = seq_pc
  BY Operands, NoWrite DEF nemu_trap, helper, update_pc
<1>2. RegistersPerISA(instr) /\ AccessPerISA(instr)
  BY <1>1 DEF RegistersPerISA, AccessPerISA, WritesRd
<1>3. pc' = IsaTarget(instr)
  BY <1>1, NextInSequence DEF IsaTarget
<1> QED
  BY <1>2, <1>3 DEF Prescribed

\* Every legal instruction does what the manual says, for every width.
THEOREM StepPerISAHolds == Spec => StepPerISA
<1> DEFINE Step == instr # NONE /\ Legal(instr)
              => /\ RegistersPerISA(instr)
                 /\ AccessPerISA(instr)
                 /\ pc' = IsaTarget(instr)
<1>1. ASSUME IInv, [Next]_vars PROVE [Step]_vars
  <2> SUFFICES ASSUME Next, instr # NONE, Legal(instr) PROVE Prescribed(instr)
    BY <1>1 DEF Prescribed
  <2>1. CASE fetch \/ access_done
    BY <2>1 DEF fetch, access_done
  <2>2. CASE op
    BY <1>1, <2>2, opPerISA
  <2>3. CASE op_imm
    BY <1>1, <2>3, op_immPerISA
  <2>4. CASE lui \/ auipc
    BY <1>1, <2>4, luiPerISA
  <2>5. CASE load
    BY <1>1, <2>5, loadPerISA
  <2>6. CASE store
    BY <1>1, <2>6, storePerISA
  <2>7. CASE jal \/ jalr
    BY <1>1, <2>7, jumpPerISA
  <2>8. CASE branch
    BY <1>1, <2>8, branchPerISA
  <2>9. CASE nemu_trap
    BY <1>1, <2>9, trapPerISA
  <2>10. CASE inv \/ compressed
    BY <2>10 DEF inv, compressed, helper, Legal
  <2> QED
    BY <2>1, <2>2, <2>3, <2>4, <2>5, <2>6, <2>7, <2>8, <2>9, <2>10 DEF Next, exec
<1>2. Spec => [][Step]_vars
  BY <1>1, Riscv32Invariant, PTL DEF Spec
<1> QED
  BY <1>2 DEF StepPerISA

--------------------------------------------------------------------------
(* The division of double words (Int64). *)

\* The function that Iterate defines by recursion exists.
LEMMA Iteration ==
  ASSUME NEW f, NEW x, NEW n \in Nat
  PROVE  \E it : it = [i \in 0 .. n |-> IF i = 0 THEN x ELSE f[it[i - 1]]]
<1> DEFINE T == {m \in Nat : \E it : it = [i \in 0 .. m |-> IF i = 0 THEN x ELSE f[it[i - 1]]]}
<1>1. 0 \in T
  <2> DEFINE it == [i \in 0 .. 0 |-> x]
  <2>1. it = [i \in 0 .. 0 |-> IF i = 0 THEN x ELSE f[it[i - 1]]]
    OBVIOUS
  <2> QED BY <2>1
<1>2. ASSUME NEW m \in Nat, m \in T PROVE m + 1 \in T
  <2>1. PICK it : it = [i \in 0 .. m |-> IF i = 0 THEN x ELSE f[it[i - 1]]]
    BY <1>2
  <2> DEFINE jt == [i \in 0 .. m + 1 |-> IF i = m + 1 THEN f[it[m]] ELSE it[i]]
  <2>2. \A i \in 0 .. m + 1 : jt[i] = IF i = 0 THEN x ELSE f[jt[i - 1]]
    <3> TAKE i \in 0 .. m + 1
    <3>1. CASE i = m + 1
      <4>1. i # 0 /\ i - 1 = m /\ i - 1 \in 0 .. m + 1 /\ i - 1 # m + 1
        BY <3>1
      <4>2. jt[i - 1] = it[m] /\ jt[i] = f[it[m]]
        BY <3>1, <4>1
      <4> QED BY <4>1, <4>2
    <3>2. CASE i # m + 1
      <4>1. i \in 0 .. m /\ jt[i] = it[i]
        BY <3>2
      <4>2. it[i] = IF i = 0 THEN x ELSE f[it[i - 1]]
        BY <2>1, <4>1
      <4>3. i # 0 => i - 1 \in 0 .. m + 1 /\ i - 1 # m + 1
        BY <4>1
      <4>4. i # 0 => jt[i - 1] = it[i - 1]
        BY <4>3
      <4> QED BY <4>1, <4>2, <4>4
    <3> QED BY <3>1, <3>2
  <2>3. jt = [i \in 0 .. m + 1 |-> jt[i]]
    OBVIOUS
  <2> HIDE DEF jt
  <2>4. jt = [i \in 0 .. m + 1 |-> IF i = 0 THEN x ELSE f[jt[i - 1]]]
    BY <2>2, <2>3
  <2> QED BY <2>4
<1> HIDE DEF T
<1>3. n \in T
  BY <1>1, <1>2, Induction
<1> QED BY <1>3 DEF T

\* What holds of the start, and of the result of a step where it holds of what
\* the step is applied to, holds of the end: P[i] is what holds after i steps.
LEMMA IterateInvariant ==
  ASSUME NEW f, NEW x, NEW n \in Nat, NEW P,
         x \in P[0],
         \A i \in 0 .. n - 1 : \A s \in P[i] : f[s] \in P[i + 1]
  PROVE  Iterate(f, x, n) \in P[n]
<1> DEFINE it == CHOOSE g : g = [i \in 0 .. n |-> IF i = 0 THEN x ELSE f[g[i - 1]]]
<1>1. it = [i \in 0 .. n |-> IF i = 0 THEN x ELSE f[it[i - 1]]]
  BY Iteration
<1>2. Iterate(f, x, n) = it[n]
  BY DEF Iterate
<1> HIDE DEF it
<1> DEFINE T == {i \in Nat : i <= n => it[i] \in P[i]}
<1>3. 0 \in T
  BY <1>1
<1>4. ASSUME NEW i \in Nat, i \in T PROVE i + 1 \in T
  <2> SUFFICES ASSUME i + 1 <= n PROVE it[i + 1] \in P[i + 1]
    OBVIOUS
  <2>1. i \in 0 .. n - 1 /\ i + 1 \in 0 .. n /\ i + 1 # 0 /\ (i + 1) - 1 = i /\ i <= n
    OBVIOUS
  <2>2. it[i + 1] = f[it[i]]
    BY <1>1, <2>1
  <2> QED BY <1>4, <2>1, <2>2
<1> HIDE DEF T
<1>5. n \in T
  BY <1>3, <1>4, Induction
<1> QED BY <1>2, <1>5 DEF T

DoubleWord == 0 .. DWORD - 1
SingleWord == 0 .. UWORD - 1
HALF == 2^(2 * BITS - 1)

\* The sizes of words.
LEMMA DivisionFacts ==
  /\ BITS \in Nat /\ BITS >= 2 /\ UWORD \in Nat \ {0} /\ UWORD >= 4 /\ UWORD = 2^BITS
  /\ DWORD = UWORD * UWORD /\ DWORD = 2^(2 * BITS) /\ DWORD \in Nat \ {0}
  /\ HALF \in Nat \ {0} /\ DWORD = 2 * HALF /\ DWORD \div 2 = HALF /\ UWORD <= HALF
<1>1. LOG \in Nat /\ LOG >= 1 /\ LOG - 1 \in Nat /\ (LOG - 1) + 1 = LOG
  BY LogAssumption
<1>2. BITS \in Nat /\ BITS >= 2
  <2>1. 2^(LOG - 1) \in Nat \ {0} /\ BITS = 2 * 2^(LOG - 1)
    BY <1>1, Power, PowerStep DEF BITS
  <2>2. QED BY <2>1
<1>3. UWORD \in Nat \ {0} /\ UWORD = 2^BITS
  BY <1>2, Power DEF UWORD
<1>4. UWORD >= 4
  <2>1. BITS - 2 \in Nat /\ 2^((BITS - 2) + 1) = 2 * 2^(BITS - 2) /\ 2^(((BITS - 2) + 1) + 1) = 2 * 2^((BITS - 2) + 1)
    BY <1>2, PowerStep
  <2>2. 2^(BITS - 2) \in Nat \ {0} /\ ((BITS - 2) + 1) + 1 = BITS
    BY <1>2, <2>1, Power
  <2>3. QED BY <1>3, <2>1, <2>2
<1>5. DWORD = UWORD * UWORD /\ DWORD \in Nat \ {0}
  BY <1>3 DEF DWORD
<1>6. DWORD = 2^(2 * BITS)
  <2>1. 2^(BITS + BITS) = 2^BITS * 2^BITS /\ BITS + BITS = 2 * BITS
    BY <1>2, PowerSum
  <2>2. QED BY <1>3, <1>5, <2>1
<1>7. HALF \in Nat \ {0} /\ DWORD = 2 * HALF
  <2>1. 2 * BITS - 1 \in Nat /\ (2 * BITS - 1) + 1 = 2 * BITS
    BY <1>2
  <2>2. QED BY <1>6, <2>1, Power, PowerStep DEF HALF
<1>8. DWORD \div 2 = HALF
  BY <1>7
<1>9. UWORD <= HALF
  <2>1. \A u, h \in Nat : u >= 4 /\ u * u = 2 * h => u <= h
    <3> SUFFICES ASSUME NEW u \in Nat, NEW h \in Nat, u >= 4, u * u = 2 * h PROVE u <= h
      OBVIOUS
    <3>1. u * u >= 4 * u
      OBVIOUS
    <3> QED BY <3>1
  <2>2. QED BY <1>3, <1>4, <1>5, <1>7, <2>1
<1> QED BY <1>2, <1>3, <1>4, <1>5, <1>6, <1>7, <1>8, <1>9

\* A double word is its two words.
LEMMA Words ==
  ASSUME NEW n \in DoubleWord
  PROVE  /\ high(n) \in SingleWord /\ low(n) \in SingleWord
         /\ n = high(n) * UWORD + low(n) /\ n \in Nat
<1>1. n \in Nat /\ UWORD \in Nat \ {0} /\ n < UWORD * UWORD
  BY DivisionFacts DEF DoubleWord
<1>2. n = UWORD * high(n) + low(n) /\ low(n) \in 0 .. UWORD - 1 /\ high(n) \in Int
  BY <1>1, Division DEF high, low
<1>3. high(n) >= 0 /\ high(n) < UWORD
  <2>1. \A u, h, l \in Int : u > 0 /\ l >= 0 /\ l < u /\ u * h + l >= 0 /\ u * h + l < u * u => h >= 0 /\ h < u
    <3> SUFFICES ASSUME NEW u \in Int, NEW h \in Int, NEW l \in Int, u > 0, l >= 0, l < u, u * h + l >= 0, u * h + l < u * u
                 PROVE  h >= 0 /\ h < u
      OBVIOUS
    <3>1. h < 0 => u * h <= - u
      OBVIOUS
    <3>2. h >= u => u * h >= u * u
      OBVIOUS
    <3> QED BY <3>1, <3>2
  <2>2. QED BY <1>1, <1>2, <2>1
<1>4. UWORD * high(n) = high(n) * UWORD
  BY <1>1, <1>2
<1> QED BY <1>1, <1>2, <1>3, <1>4 DEF SingleWord

\* Two words make a double word.
LEMMA TwoWords ==
  ASSUME NEW h \in SingleWord, NEW l \in SingleWord
  PROVE  all(h, l) \in DoubleWord /\ high(all(h, l)) = h /\ low(all(h, l)) = l
<1>1. UWORD \in Nat \ {0} /\ h \in Nat /\ l \in 0 .. UWORD - 1 /\ h < UWORD
  BY DivisionFacts DEF SingleWord
<1>2. all(h, l) = UWORD * h + l /\ all(h, l) \in Nat
  BY <1>1 DEF all
<1>3. high(all(h, l)) = h /\ low(all(h, l)) = l
  <2>1. all(h, l) \in Int /\ h \in Int
    BY <1>1, <1>2
  <2>2. all(h, l) \div UWORD = h /\ all(h, l) % UWORD = l
    BY <1>1, <1>2, <2>1, UniqueDivision
  <2>3. QED BY <2>2 DEF high, low
<1>4. all(h, l) < UWORD * UWORD
  <2>1. \A u, x, y \in Nat : x < u /\ y < u => u * x + y < u * u
    <3> SUFFICES ASSUME NEW u \in Nat, NEW x \in Nat, NEW y \in Nat, x < u, y < u PROVE u * x + y < u * u
      OBVIOUS
    <3>1. u * (x + 1) <= u * u /\ u * (x + 1) = u * x + u
      OBVIOUS
    <3> QED BY <3>1
  <2>2. QED BY <1>1, <1>2, <2>1
<1> QED BY <1>2, <1>3, <1>4, DivisionFacts DEF DoubleWord

--------------------------------------------------------------------------
\* Shifts by words: p and v are two powers of two whose product is UWORD.
Splits(p, v) == p \in Nat \ {0} /\ v \in Nat \ {0} /\ UWORD = p * v

\* What is shifted out of a word to the left is its quotient.
LEMMA ShiftedOut ==
  ASSUME NEW p, NEW v, Splits(p, v), NEW h \in SingleWord
  PROVE  /\ (h * v) % UWORD = (h % p) * v
         /\ h * v = (h \div p) * UWORD + (h % p) * v
         /\ (h % p) * v \in SingleWord /\ h \div p \in SingleWord /\ h % p \in 0 .. p - 1
         /\ h \div p < v
<1>0. p \in Nat \ {0} /\ v \in Nat \ {0} /\ UWORD = p * v /\ UWORD \in Nat \ {0} /\ h \in Nat /\ h < UWORD
  BY DivisionFacts DEF Splits, SingleWord
<1> DEFINE a == h \div p
           b == h % p
<1>1. h = p * a + b /\ b \in 0 .. p - 1 /\ a \in Int
  <2>1. h \in Int
    BY <1>0
  <2>2. QED BY <1>0, <2>1, Division
<1> HIDE DEF a, b
<1>2. a \in Nat /\ a < v
  <2>1. a >= 0
    <3>1. a < 0 => p * a <= -p
      BY <1>0, <1>1
    <3> QED BY <1>0, <1>1, <3>1
  <2>2. a >= v => p * a >= p * v
    BY <1>0, <1>1
  <2> QED BY <1>0, <1>1, <2>1, <2>2
<1>3. h * v = (p * v) * a + b * v
  <2>1. (p * a + b) * v = (p * a) * v + b * v
    BY <1>0, <1>1
  <2>2. (p * a) * v = (p * v) * a
    BY <1>0, <1>2
  <2> QED BY <1>1, <2>1, <2>2
<1>4. b * v \in 0 .. UWORD - 1
  <2>1. b \in Nat /\ b <= p - 1 /\ p - 1 \in Nat
    BY <1>0, <1>1
  <2>2. b * v <= (p - 1) * v
    BY <1>0, <2>1
  <2>3. (p - 1) * v = p * v - v /\ b * v \in Nat
    BY <1>0, <2>1
  <2> QED BY <1>0, <2>1, <2>2, <2>3
<1>5. (h * v) % UWORD = b * v
  <2>1. h * v = UWORD * a + b * v /\ h * v \in Int
    BY <1>0, <1>3
  <2>2. a \in Int
    BY <1>2
  <2> QED BY <1>0, <1>4, <2>1, <2>2, UniqueDivision
<1>6. h * v = a * UWORD + b * v
  <2>1. UWORD * a = a * UWORD
    BY <1>0, <1>2
  <2> QED BY <1>0, <1>3, <2>1
<1>7. a \in 0 .. UWORD - 1
  <2>1. v <= p * v
    BY <1>0
  <2> QED BY <1>0, <1>2, <2>1
<1> QED BY <1>1, <1>2, <1>4, <1>5, <1>6, <1>7 DEF a, b, SingleWord

\* A double word divided by p, word by word.
LEMMA ShiftedRight ==
  ASSUME NEW p, NEW v, Splits(p, v), NEW n \in DoubleWord
  PROVE  /\ n \div p = all(high(n) \div p, ((high(n) * v) % UWORD) + (low(n) \div p))
         /\ n % p = low(n) % p
         /\ ((high(n) * v) % UWORD) + (low(n) \div p) \in SingleWord
<1> DEFINE h == high(n)
           l == low(n)
           a == h \div p
           b == h % p
           c == l \div p
           e == l % p
<1>0. /\ p \in Nat \ {0} /\ v \in Nat \ {0} /\ UWORD = p * v /\ UWORD \in Nat \ {0}
      /\ h \in SingleWord /\ l \in SingleWord /\ n = h * UWORD + l /\ n \in Nat
  BY DivisionFacts, Words DEF Splits
<1>1. h * v = a * UWORD + b * v /\ (h * v) % UWORD = b * v /\ a \in SingleWord /\ b \in 0 .. p - 1 /\ b * v \in SingleWord
  BY <1>0, ShiftedOut
<1>2. c \in SingleWord /\ c < v /\ e \in 0 .. p - 1
  BY <1>0, ShiftedOut
<1>3. l = p * c + e
  <2>1. l \in Int
    BY <1>0 DEF SingleWord
  <2> HIDE DEF l
  <2> QED BY <1>0, <2>1, Division DEF c, e
<1> HIDE DEF h, l, a, b, c, e
<1>4. a \in Nat /\ b \in Nat /\ c \in Nat /\ e \in Nat /\ h \in Nat
  BY <1>0, <1>1, <1>2, DivisionFacts DEF SingleWord
<1>5. h * UWORD = p * (a * UWORD + b * v)
  <2>1. h * (p * v) = p * (h * v)
    BY <1>0, <1>4
  <2> QED BY <1>0, <1>1, <2>1
<1>6. n = p * ((a * UWORD + b * v) + c) + e
  <2>1. a * UWORD + b * v \in Nat
    BY <1>0, <1>4
  <2>2. \A x \in Nat : p * (x + c) = p * x + p * c
    BY <1>0, <1>4
  <2>3. p * (a * UWORD + b * v) \in Nat /\ p * c \in Nat
    BY <1>0, <1>4, <2>1
  <2> HIDE DEF Splits
  <2> QED BY <1>0, <1>3, <1>4, <1>5, <2>1, <2>2, <2>3
<1>7. (a * UWORD + b * v) + c \in Int
  BY <1>0, <1>4
<1>8. n \div p = (a * UWORD + b * v) + c /\ n % p = e
  BY <1>0, <1>2, <1>6, <1>7, UniqueDivision
<1>9. b * v + c \in SingleWord
  <2>1. b * v <= (p - 1) * v /\ (p - 1) * v = p * v - v /\ b * v \in Nat
    BY <1>0, <1>1, <1>4
  <2> QED BY <1>0, <1>2, <1>4, <2>1 DEF SingleWord
<1>10. n \div p = all(a, b * v + c)
  <2>1. a * UWORD \in Nat /\ b * v \in Nat
    BY <1>0, <1>4
  <2> QED BY <1>4, <1>8, <2>1 DEF all
<1> QED BY <1>1, <1>8, <1>9, <1>10 DEF h, l, a, b, c, e

\* And its remainder, times the rest of the bits: the two words of what is
\* left of it when it is shifted to the left by v words' bits.
LEMMA ShiftedLeft ==
  ASSUME NEW p, NEW v, Splits(p, v), NEW n \in DoubleWord
  PROVE  (n % p) * (v * UWORD) = all((low(n) * v) % UWORD, 0)
<1>1. low(n) \in SingleWord /\ n % p = low(n) % p
  BY Words, ShiftedRight
<1>2. (low(n) * v) % UWORD = (low(n) % p) * v
  BY <1>1, ShiftedOut
<1>3. low(n) % p \in 0 .. p - 1 /\ v \in Nat /\ UWORD \in Nat
  BY <1>1, ShiftedOut, DivisionFacts DEF Splits
<1>4. \A x, y, z \in Nat : x * (y * z) = (x * y) * z /\ (x * y) * z + 0 = (x * y) * z
  OBVIOUS
<1>5. low(n) % p \in Nat
  BY <1>3
<1> QED BY <1>1, <1>2, <1>3, <1>4, <1>5 DEF all

\* Powers of two whose exponents add up to a word's.
LEMMA SplitPowers ==
  ASSUME NEW k \in 0 .. BITS
  PROVE  Splits(2^k, 2^(BITS - k)) /\ 2^k * 2^(BITS - k) = UWORD
<1>1. k \in Nat /\ BITS - k \in Nat /\ k + (BITS - k) = BITS
  BY DivisionFacts
<1> QED BY <1>1, Power, PowerSum, DivisionFacts DEF Splits

\* The remainder by more than a word.
LEMMA RemainderBeyond ==
  ASSUME NEW p, NEW v, Splits(p, v), NEW n \in DoubleWord
  PROVE  /\ n \div (UWORD * p) = high(n) \div p
         /\ (n % (UWORD * p)) * v = all(((high(n) * v) % UWORD) + (low(n) \div p), (low(n) * v) % UWORD)
<1> DEFINE h == high(n)
           l == low(n)
           a == h \div p
           b == h % p
           c == l \div p
           e == l % p
<1>0. /\ p \in Nat \ {0} /\ v \in Nat \ {0} /\ UWORD = p * v /\ UWORD \in Nat \ {0}
      /\ h \in SingleWord /\ l \in SingleWord /\ n = h * UWORD + l /\ n \in Nat
  BY DivisionFacts, Words DEF Splits
<1>1. /\ (h * v) % UWORD = b * v /\ a \in SingleWord /\ b \in 0 .. p - 1
      /\ l * v = c * UWORD + e * v /\ (l * v) % UWORD = e * v /\ e \in 0 .. p - 1 /\ c \in SingleWord
  BY <1>0, ShiftedOut
<1>2. h = p * a + b
  <2>1. h \in Int
    BY <1>0 DEF SingleWord
  <2> HIDE DEF h
  <2> QED BY <1>0, <2>1, Division DEF a, b
<1>3. n \div (UWORD * p) = h \div p
  <2>1. n \in Int /\ (n \div UWORD) \div p = n \div (UWORD * p)
    BY <1>0, DivisionTwice
  <2> QED BY <2>1 DEF h, high
<1> HIDE DEF h, l, a, b, c, e
<1>4. a \in Nat /\ b \in Nat /\ c \in Nat /\ e \in Nat /\ h \in Nat /\ l \in Nat /\ l < UWORD
  BY <1>0, <1>1, DivisionFacts DEF SingleWord
<1>5. n % (UWORD * p) = b * UWORD + l
  <2>1. n = (UWORD * p) * a + (b * UWORD + l)
    <3>1. (p * a + b) * UWORD = (UWORD * p) * a + b * UWORD
      BY <1>0, <1>4
    <3>2. (UWORD * p) * a \in Nat /\ b * UWORD \in Nat
      BY <1>0, <1>4
    <3> HIDE DEF Splits
    <3> QED BY <1>0, <1>2, <1>4, <3>1, <3>2
  <2>2. UWORD * p \in Nat \ {0}
    BY <1>0
  <2>3. b * UWORD + l \in 0 .. UWORD * p - 1
    <3>1. b * UWORD <= (p - 1) * UWORD /\ (p - 1) * UWORD = UWORD * p - UWORD /\ b * UWORD \in Nat
      BY <1>0, <1>1, <1>4
    <3> QED BY <1>0, <1>4, <2>2, <3>1
  <2>4. n \in Int /\ a \in Int
    BY <1>0, <1>4
  <2> HIDE DEF Splits
  <2> QED BY <2>1, <2>2, <2>3, <2>4, UniqueDivision
<1>6. (b * UWORD + l) * v = (b * v + c) * UWORD + e * v
  <2>1. (b * UWORD + l) * v = (b * v) * UWORD + l * v
    BY <1>0, <1>4
  <2>2. (b * v + c) * UWORD = (b * v) * UWORD + c * UWORD
    BY <1>0, <1>4
  <2>3. (b * v) * UWORD \in Nat /\ c * UWORD \in Nat /\ e * v \in Nat
    BY <1>0, <1>4
  <2> QED BY <1>1, <2>1, <2>2, <2>3
<1> QED BY <1>1, <1>3, <1>5, <1>6 DEF all, h, l, a, b, c, e

\* The code's shift by words is a shift of the double word.
LEMMA SplitRight ==
  ASSUME NEW n \in DoubleWord, NEW sr \in 1 .. 2 * BITS - 1
  PROVE  split(n, sr) = Qr((n % 2^sr) * 2^(2 * BITS - sr), n \div 2^sr)
<1>0. BITS \in Nat /\ BITS >= 2 /\ UWORD = 2^BITS /\ UWORD \in Nat \ {0} /\ sr \in Nat
  BY DivisionFacts
<1>1. CASE sr = BITS
  <2>1. n % 2^sr = low(n) /\ n \div 2^sr = high(n) /\ 2^(2 * BITS - sr) = UWORD
    <3>1. 2 * BITS - sr = BITS
      BY <1>0, <1>1
    <3> QED BY <1>0, <1>1, <3>1 DEF low, high
  <2>2. low(n) * UWORD = all(low(n), 0)
    BY <1>0, Words DEF all, SingleWord
  <2> QED BY <1>1, <2>1, <2>2 DEF split
<1>2. CASE sr < BITS
  <2> DEFINE p == 2^sr
             v == 2^(BITS - sr)
  <2>1. Splits(p, v)
    BY <1>0, <1>2, SplitPowers
  <2>2. 2^(2 * BITS - sr) = v * UWORD
    <3>1. BITS - sr \in Nat /\ (BITS - sr) + BITS = 2 * BITS - sr
      BY <1>0, <1>2
    <3>2. 2^((BITS - sr) + BITS) = 2^(BITS - sr) * 2^BITS
      BY <1>0, <3>1, PowerSum
    <3> QED BY <1>0, <3>1, <3>2
  <2>3. (n % p) * (v * UWORD) = all((low(n) * v) % UWORD, 0)
    BY <2>1, ShiftedLeft
  <2>4. n \div p = all(high(n) \div p, ((high(n) * v) % UWORD) + (low(n) \div p))
    BY <2>1, ShiftedRight
  <2>5. split(n, sr) = Qr(all(shl(low(n), BITS - sr), 0),
                       all(shr(high(n), sr), shl(high(n), BITS - sr) + shr(low(n), sr)))
    BY <1>0, <1>2 DEF split
  <2> QED BY <2>2, <2>3, <2>4, <2>5 DEF shl, shr
<1>3. CASE sr > BITS
  <2> DEFINE p == 2^(sr - BITS)
             v == 2^(2 * BITS - sr)
  <2>1. Splits(p, v)
    <3>1. sr - BITS \in 0 .. BITS /\ BITS - (sr - BITS) = 2 * BITS - sr
      BY <1>0, <1>3
    <3> QED BY <3>1, SplitPowers
  <2>2. 2^sr = UWORD * p
    <3>1. sr - BITS \in Nat /\ BITS + (sr - BITS) = sr
      BY <1>0, <1>3
    <3>2. 2^(BITS + (sr - BITS)) = 2^BITS * 2^(sr - BITS)
      BY <1>0, <3>1, PowerSum
    <3> QED BY <1>0, <3>1, <3>2
  <2>3. /\ n \div (UWORD * p) = high(n) \div p
        /\ (n % (UWORD * p)) * v = all(((high(n) * v) % UWORD) + (low(n) \div p), (low(n) * v) % UWORD)
    BY <2>1, RemainderBeyond
  <2>5. split(n, sr) = Qr(all(shl(high(n), 2 * BITS - sr) + shr(low(n), sr - BITS), shl(low(n), 2 * BITS - sr)),
                       shr(high(n), sr - BITS))
    BY <1>0, <1>3 DEF split
  <2> QED BY <2>2, <2>3, <2>5 DEF shl, shr
<1> QED BY <1>0, <1>1, <1>2, <1>3

--------------------------------------------------------------------------
\* x has m bits.
HasLength(x, m) == m \in Nat \ {0} /\ 2^(m - 1) <= x /\ x < 2^m

\* A number of fewer bits is smaller.
LEMMA Shorter ==
  ASSUME NEW x \in Nat, NEW y \in Nat, NEW l, NEW m, HasLength(x, l), HasLength(y, m), l < m
  PROVE  x < y
<1>1. l \in Nat /\ m \in Nat /\ m - 1 \in Nat /\ (m - 1) - l \in Nat /\ l + ((m - 1) - l) = m - 1
  BY DEF HasLength
<1>2. 2^(m - 1) = 2^l * 2^((m - 1) - l) /\ 2^l \in Nat \ {0} /\ 2^((m - 1) - l) \in Nat \ {0}
  <2>1. 2^(l + ((m - 1) - l)) = 2^l * 2^((m - 1) - l)
    BY <1>1, PowerSum
  <2> QED BY <1>1, <2>1, Power
<1>3. \A u, v \in Nat \ {0} : u <= u * v
  OBVIOUS
<1>4. 2^l <= 2^(m - 1)
  BY <1>2, <1>3
<1> QED BY <1>1, <1>2, <1>4 DEF HasLength

\* Shifted by as many bits as it is longer by and one more, a number is less.
LEMMA ShiftedBelow ==
  ASSUME NEW x \in Nat, NEW y \in Nat, NEW l, NEW m, HasLength(x, l), HasLength(y, m), l >= m
  PROVE  x \div 2^((1 + l) - m) < y
<1> DEFINE s == (1 + l) - m
           p == 2^s
           z == 2^(m - 1)
           d == x \div p
<1>1. s \in Nat /\ m - 1 \in Nat /\ s + (m - 1) = l
  BY DEF HasLength
<1>2. p \in Nat \ {0} /\ z \in Nat \ {0} /\ 2^l = p * z
  <2>1. 2^(s + (m - 1)) = 2^s * 2^(m - 1)
    BY <1>1, PowerSum
  <2> QED BY <1>1, <2>1, Power
<1>3. x < p * z /\ z <= y
  BY <1>2 DEF HasLength
<1> HIDE DEF s, p, z
<1>4. x = p * d + (x % p) /\ x % p \in 0 .. p - 1 /\ d \in Int
  <2>1. x \in Int
    OBVIOUS
  <2> QED BY <1>2, <2>1, Division
<1> HIDE DEF d
<1>5. d >= z => p * d >= p * z
  BY <1>2, <1>4
<1>6. p * d \in Int /\ p * z \in Int
  BY <1>2, <1>4
<1>7. d < z
  BY <1>2, <1>3, <1>4, <1>5, <1>6
<1>8. d < y
  BY <1>2, <1>3, <1>4, <1>7
<1> QED BY <1>8 DEF d, p, s

\* The halves' sizes: after i steps there are 2^(LOG - 1 - i) bits in each.
LEMMA Halves ==
  /\ LOG - 1 \in Nat /\ BITS \div 2 = 2^((LOG - 1) - 0) /\ BITS = 2 * 2^((LOG - 1) - 0)
  /\ 2^((LOG - 1) - (LOG - 1)) = 1
  /\ \A i \in 0 .. (LOG - 1) - 1 :
       /\ 2^((LOG - 1) - i) = 2 * 2^((LOG - 1) - (i + 1)) /\ 2^((LOG - 1) - (i + 1)) \in Nat \ {0}
       /\ 2^((LOG - 1) - i) \div 2 = 2^((LOG - 1) - (i + 1))
<1>1. LOG \in Nat /\ LOG - 1 \in Nat /\ (LOG - 1) + 1 = LOG /\ (LOG - 1) - 0 = LOG - 1 /\ (LOG - 1) - (LOG - 1) = 0
  BY LogAssumption
<1>2. BITS = 2 * 2^(LOG - 1) /\ 2^(LOG - 1) \in Nat
  BY <1>1, Power, PowerStep DEF BITS
<1>3. \A x \in Nat : (2 * x) \div 2 = x
  OBVIOUS
<1>4. ASSUME NEW i \in 0 .. (LOG - 1) - 1
      PROVE  /\ 2^((LOG - 1) - i) = 2 * 2^((LOG - 1) - (i + 1)) /\ 2^((LOG - 1) - (i + 1)) \in Nat \ {0}
             /\ 2^((LOG - 1) - i) \div 2 = 2^((LOG - 1) - (i + 1))
  <2>1. (LOG - 1) - (i + 1) \in Nat /\ ((LOG - 1) - (i + 1)) + 1 = (LOG - 1) - i
    BY <1>1
  <2>2. 2^(((LOG - 1) - (i + 1)) + 1) = 2 * 2^((LOG - 1) - (i + 1)) /\ 2^((LOG - 1) - (i + 1)) \in Nat \ {0}
    BY <2>1, Power, PowerStep
  <2> QED BY <1>3, <2>1, <2>2
<1> QED BY <1>1, <1>2, <1>3, <1>4, PowerZero

\* What __clzsi2 has found after i steps: a begins with x, and 2 * h bits of
\* its word less r are x's.
Begins(a, s) ==
  /\ s.x \in Nat \ {0} /\ s.x < 2^(2 * s.h)
  /\ s.r + 2 * s.h <= BITS
  /\ s.x * 2^((BITS - 2 * s.h) - s.r) <= a
  /\ a < (s.x + 1) * 2^((BITS - 2 * s.h) - s.r)

ClzAt(a) == [i \in Nat |-> {s \in Halving : s.h = 2^((LOG - 1) - i) /\ Begins(a, s)}]

\* A step of __clzsi2.
LEMMA ClzStep ==
  ASSUME NEW a \in Nat, NEW i \in 0 .. (LOG - 1) - 1, NEW s \in ClzAt(a)[i]
  PROVE  clz_half[s] \in ClzAt(a)[i + 1]
<1> DEFINE h == s.h
           g == 2^((LOG - 1) - (i + 1))
           x == s.x
           r == s.r
           e == (BITS - 2 * h) - r
           p == 2^h
           y == x \div p
<1>1. /\ s \in Halving /\ Begins(a, s) /\ h = 2 * g /\ h \div 2 = g /\ g \in Nat \ {0} /\ i \in Nat /\ i + 1 \in Nat
      /\ h \in Nat /\ r \in Nat /\ x \in Nat \ {0} /\ BITS \in Nat
  BY Halves, DivisionFacts DEF ClzAt, Begins, Halving
<1>2. /\ x < 2^(2 * h) /\ r + 2 * h <= BITS /\ x * 2^e <= a /\ a < (x + 1) * 2^e
      /\ e \in Nat
  BY <1>1 DEF Begins
<1>3. p \in Nat \ {0} /\ 2^(2 * h) = p * p /\ 2^e \in Nat \ {0}
  <2>1. 2^(h + h) = 2^h * 2^h /\ h + h = 2 * h
    <3>1. h \in Nat /\ \A n \in Nat : n + n = 2 * n
      BY <1>1
    <3> HIDE DEF h
    <3> QED BY <3>1, PowerSum
  <2> QED BY <1>1, <1>2, <2>1, Power
<1>4. x = p * y + (x % p) /\ x % p \in 0 .. p - 1 /\ y \in Int
  <2>1. x \in Int
    BY <1>1
  <2> HIDE DEF x, p
  <2> QED BY <1>3, <2>1, Division
<1>5. y \in Nat /\ y < p /\ (y = 0 => x < p)
  <2> HIDE DEF p, x, y
  <2>1. y < 0 => p * y <= -p
    BY <1>3, <1>4
  <2>2. y >= p => p * y >= p * p
    BY <1>3, <1>4
  <2>3. y = 0 => p * y = 0
    BY <1>3, <1>4
  <2>4. p * y \in Int /\ p * p \in Int
    BY <1>3, <1>4
  <2> QED BY <1>1, <1>2, <1>3, <1>4, <2>1, <2>2, <2>3, <2>4
<1>6. CASE y = 0
  <2> DEFINE u == [x |-> x, r |-> r + h, h |-> g]
  <2>1. clz_half[s] = u
    <3>1. shr(x, h) = 0
      BY <1>6 DEF shr
    <3>2. shr(x, h - h) = x
      <4>1. h - h = 0 /\ x \div 1 = x
        BY <1>1
      <4> QED BY <4>1, PowerZero DEF shr
    <3>3. clz_half[s] = [x |-> shr(x, h - h), r |-> r + h, h |-> h \div 2]
      BY <1>1, <3>1 DEF clz_half
    <3> QED BY <1>1, <3>2, <3>3
  <2>2. u \in Halving
    BY <1>1 DEF Halving
  <2>3. (BITS - 2 * g) - (r + h) = e /\ 2 * g = h /\ (r + h) + 2 * g <= BITS
    BY <1>1, <1>2
  <2>4. Begins(a, u)
    <3>1. u.x = x /\ u.r = r + h /\ u.h = g
      OBVIOUS
    <3> HIDE DEF x, h, g, e, r, u
    <3>2. u.x < 2^(2 * u.h)
      BY <1>5, <1>6, <2>3, <3>1 DEF p
    <3>3. (BITS - 2 * u.h) - u.r = e
      BY <2>3, <3>1
    <3> QED BY <1>1, <1>2, <2>3, <3>1, <3>2, <3>3 DEF Begins
  <2> QED BY <1>1, <2>1, <2>2, <2>4 DEF ClzAt
<1>7. CASE y # 0
  <2> DEFINE u == [x |-> y, r |-> r, h |-> g]
  <2>1. clz_half[s] = u
    <3>1. shr(x, h) # 0 /\ h - 0 = h
      BY <1>1, <1>7 DEF shr
    <3>2. clz_half[s] = [x |-> shr(x, h - 0), r |-> r + 0, h |-> h \div 2]
      BY <1>1, <3>1 DEF clz_half
    <3>3. r + 0 = r /\ shr(x, h) = y
      BY <1>1 DEF shr
    <3> QED BY <1>1, <3>1, <3>2, <3>3
  <2>2. u \in Halving
    BY <1>1, <1>5 DEF Halving
  <2>3. (BITS - 2 * g) - r = h + e /\ 2 * g = h /\ r + 2 * g <= BITS
    BY <1>1, <1>2
  <2>4. 2^(h + e) = p * 2^e
    BY <1>1, <1>2, PowerSum
  <2>5. y * (p * 2^e) <= a /\ a < (y + 1) * (p * 2^e)
    <3> DEFINE z == 2^e
    <3>1. x * z <= a /\ a < (x + 1) * z /\ z \in Nat \ {0}
      BY <1>2, <1>3
    <3> HIDE DEF z, x, y, p
    <3>2. y * p <= x /\ x + 1 <= (y + 1) * p
      <4>1. y * p = p * y /\ (y + 1) * p = p * y + p /\ p * y \in Nat
        BY <1>3, <1>5
      <4> QED BY <1>1, <1>3, <1>4, <4>1
    <3>3. \A m, n, k \in Nat : m <= n => m * k <= n * k
      OBVIOUS
    <3>4. (y * p) * z <= x * z /\ (x + 1) * z <= ((y + 1) * p) * z
      <4>1. y * p \in Nat /\ x \in Nat /\ x + 1 \in Nat /\ (y + 1) * p \in Nat /\ z \in Nat
        BY <1>1, <1>3, <1>5, <3>1
      <4> QED BY <3>2, <3>3, <4>1
    <3>5. (y * p) * z = y * (p * z) /\ ((y + 1) * p) * z = (y + 1) * (p * z)
      BY <1>3, <1>5, <3>1
    <3>6. x * z \in Nat /\ (x + 1) * z \in Nat /\ y * (p * z) \in Nat /\ (y + 1) * (p * z) \in Nat
      BY <1>1, <1>3, <1>5, <3>1
    <3>7. y * (p * z) <= a /\ a < (y + 1) * (p * z)
      BY <3>1, <3>4, <3>5, <3>6
    <3> QED BY <3>7 DEF z
  <2>6. Begins(a, u)
    <3>1. u.x = y /\ u.r = r /\ u.h = g
      OBVIOUS
    <3> HIDE DEF y, h, g, e, r, u
    <3>2. u.x < 2^(2 * u.h)
      BY <1>5, <2>3, <3>1 DEF p
    <3>3. 2^((BITS - 2 * u.h) - u.r) = p * 2^e
      BY <2>3, <2>4, <3>1
    <3> QED BY <1>1, <1>5, <1>7, <2>3, <2>5, <3>1, <3>2, <3>3 DEF Begins
  <2> QED BY <1>1, <2>1, <2>2, <2>6 DEF ClzAt
<1> QED BY <1>6, <1>7

\* __clzsi2 counts the zeros before the first bit.
LEMMA ClzRight ==
  ASSUME NEW a \in SingleWord, a # 0
  PROVE  clz(a) \in 0 .. BITS - 1 /\ HasLength(a, BITS - clz(a))
<1> DEFINE s0 == [x |-> a, r |-> 0, h |-> BITS \div 2]
           s == Iterate(clz_half, s0, LOG - 1)
<1>0. a \in Nat \ {0} /\ a < UWORD /\ BITS \in Nat /\ BITS >= 2 /\ UWORD = 2^BITS
  BY DivisionFacts DEF SingleWord
<1>1. s0 \in ClzAt(a)[0]
  <2>1. s0.h = 2^((LOG - 1) - 0) /\ 2 * s0.h = BITS /\ BITS \div 2 \in Nat
    BY <1>0, Halves
  <2>2. (BITS - 2 * s0.h) - s0.r = 0
    BY <1>0, <2>1
  <2>3. Begins(a, s0)
    <3>1. s0.x = a /\ s0.r = 0 /\ a * 1 = a /\ (a + 1) * 1 = a + 1 /\ a < a + 1 /\ a <= a /\ 0 + BITS <= BITS
      BY <1>0
    <3> HIDE DEF s0
    <3> QED BY <1>0, <2>1, <2>2, <3>1, PowerZero DEF Begins
  <2>4. s0 \in Halving
    BY <1>0, <2>1 DEF Halving
  <2> HIDE DEF s0
  <2> QED BY <2>1, <2>3, <2>4 DEF ClzAt
<1>2. s \in ClzAt(a)[LOG - 1]
  <2>1. \A i \in 0 .. (LOG - 1) - 1 : \A t \in ClzAt(a)[i] : clz_half[t] \in ClzAt(a)[i + 1]
    BY <1>0, ClzStep
  <2> HIDE DEF s0
  <2> QED BY <1>1, <2>1, Halves, IterateInvariant
<1>3. clz(a) = IF s.x >= 2 THEN s.r ELSE (s.r + 2) - s.x
  BY DEF clz
<1> HIDE DEF s, s0
<1> DEFINE e == (BITS - 2) - s.r
<1>4. /\ s \in Halving /\ s.h = 1 /\ s.x \in Nat \ {0} /\ s.x < 2^(2 * s.h) /\ s.r + 2 * s.h <= BITS
      /\ s.x * 2^((BITS - 2 * s.h) - s.r) <= a /\ a < (s.x + 1) * 2^((BITS - 2 * s.h) - s.r)
  BY <1>2, Halves DEF ClzAt, Begins
<1>5. s.r \in Nat /\ e \in Nat /\ s.r + 2 <= BITS /\ (BITS - 2 * s.h) - s.r = e
  BY <1>0, <1>4 DEF Halving
<1>6. 2^2 = 4 /\ 2^(e + 1) = 2 * 2^e /\ 2^((e + 1) + 1) = 4 * 2^e /\ 2^e \in Nat \ {0}
  <2>1. 2^(0 + 1) = 2 * 2^0 /\ 2^(1 + 1) = 2 * 2^1 /\ 0 + 1 = 1 /\ 1 + 1 = 2
    BY PowerStep
  <2>2. 2^(e + 1) = 2 * 2^e /\ 2^((e + 1) + 1) = 2 * 2^(e + 1) /\ 2^e \in Nat \ {0}
    BY <1>5, Power, PowerStep
  <2> QED BY <2>1, <2>2, PowerZero
<1>7. s.x \in 1 .. 3 /\ s.x * 2^e <= a /\ a < (s.x + 1) * 2^e
  <2>1. 2 * s.h = 2
    BY <1>4
  <2>2. s.x \in 1 .. 3
    BY <1>4, <1>6, <2>1
  <2>3. s.x * 2^e <= a /\ a < (s.x + 1) * 2^e
    <3> HIDE DEF e
    <3> QED BY <1>4, <1>5, Zenon
  <2> QED BY <2>2, <2>3, Zenon
<1>8. CASE s.x >= 2
  <2>1. clz(a) = s.r /\ BITS - clz(a) = (e + 1) + 1 /\ ((e + 1) + 1) - 1 = e + 1
    BY <1>0, <1>3, <1>5, <1>8
  <2>2. 2 * 2^e <= a /\ a < 4 * 2^e
    <3> DEFINE z == 2^e
    <3>1. z \in Nat \ {0} /\ s.x * z <= a /\ a < (s.x + 1) * z
      BY <1>6, <1>7
    <3> HIDE DEF z, e
    <3>2. s.x = 2 \/ s.x = 3
      BY <1>7, <1>8
    <3>3. 2 * z <= a /\ a < 4 * z
      BY <1>0, <3>1, <3>2
    <3> QED BY <3>3 DEF z
  <2> HIDE DEF e
  <2> QED BY <1>0, <1>5, <1>6, <2>1, <2>2 DEF HasLength
<1>9. CASE s.x = 1
  <2>1. clz(a) = s.r + 1 /\ BITS - clz(a) = e + 1 /\ (e + 1) - 1 = e
    BY <1>0, <1>3, <1>5, <1>9
  <2>2. 2^e <= a /\ a < 2 * 2^e
    <3> DEFINE z == 2^e
    <3>1. z \in Nat \ {0} /\ 1 * z <= a /\ a < (1 + 1) * z
      BY <1>6, <1>7, <1>9
    <3> HIDE DEF z, e
    <3>3. z <= a /\ a < 2 * z
      BY <1>0, <3>1
    <3> QED BY <3>3 DEF z
  <2> HIDE DEF e
  <2> QED BY <1>0, <1>5, <1>6, <2>1, <2>2 DEF HasLength
<1> QED BY <1>7, <1>8, <1>9

\* A power of two, divided by another.
LEMMA PowerByPower ==
  ASSUME NEW m \in Nat, NEW h \in Nat
  PROVE  /\ m >= h => 2^m % 2^h = 0 /\ 2^m \div 2^h = 2^(m - h)
         /\ m < h => 2^m % 2^h # 0
<1>1. 2^m \in Nat \ {0} /\ 2^h \in Nat \ {0}
  BY Power
<1>2. CASE m >= h
  <2>1. m - h \in Nat /\ h + (m - h) = m
    BY <1>2
  <2>2. 2^(h + (m - h)) = 2^h * 2^(m - h) /\ 2^(m - h) \in Nat \ {0}
    BY <2>1, Power, PowerSum
  <2>3. 2^m = 2^h * 2^(m - h) + 0
    BY <1>1, <2>1, <2>2
  <2>4. 2^m \in Int /\ 2^(m - h) \in Int /\ 0 \in 0 .. 2^h - 1
    BY <1>1, <2>2
  <2>5. 2^m \div 2^h = 2^(m - h) /\ 2^m % 2^h = 0
    BY <1>1, <2>3, <2>4, UniqueDivision
  <2> QED BY <1>2, <2>5
<1>3. CASE m < h
  <2>1. m + 1 \in Nat /\ h - (m + 1) \in Nat /\ (m + 1) + (h - (m + 1)) = h
    BY <1>3
  <2>2. 2^h = (2 * 2^m) * 2^(h - (m + 1)) /\ 2^(h - (m + 1)) \in Nat \ {0}
    <3>1. 2^((m + 1) + (h - (m + 1))) = 2^(m + 1) * 2^(h - (m + 1)) /\ 2^(m + 1) = 2 * 2^m
      BY <2>1, PowerStep, PowerSum
    <3> QED BY <2>1, <3>1, Power
  <2>3. \A u, v \in Nat \ {0} : u < (2 * u) * v
    <3> SUFFICES ASSUME NEW u \in Nat \ {0}, NEW v \in Nat \ {0} PROVE u < (2 * u) * v
      OBVIOUS
    <3>1. 2 * u <= (2 * u) * v
      OBVIOUS
    <3> QED BY <3>1
  <2>4. 2^m < 2^h
    BY <1>1, <2>2, <2>3
  <2>5. 2^m = 2^h * 0 + 2^m /\ 2^m \in 0 .. 2^h - 1 /\ 2^m \in Int /\ 0 \in Int
    BY <1>1, <2>4
  <2>6. 2^m % 2^h = 2^m
    BY <1>1, <2>5, UniqueDivision
  <2> QED BY <1>1, <1>3, <2>6
<1> QED BY <1>2, <1>3

\* What __ctzsi2 has left of 2^k after i steps.
CtzAt(k) ==
  [i \in Nat |-> {s \in Halving : /\ s.h = 2^((LOG - 1) - i)
                                  /\ s.r <= k /\ k - s.r < 2 * s.h /\ s.x = 2^(k - s.r)}]

\* A step of __ctzsi2.
LEMMA CtzStep ==
  ASSUME NEW k \in Nat, NEW i \in 0 .. (LOG - 1) - 1, NEW s \in CtzAt(k)[i]
  PROVE  ctz_half[s] \in CtzAt(k)[i + 1]
<1> DEFINE h == s.h
           g == 2^((LOG - 1) - (i + 1))
           x == s.x
           r == s.r
           m == k - r
<1>1. /\ s \in Halving /\ h = 2 * g /\ h \div 2 = g /\ g \in Nat \ {0} /\ i \in Nat /\ i + 1 \in Nat
      /\ h \in Nat /\ r \in Nat /\ x \in Nat /\ r <= k /\ m < 2 * h /\ x = 2^m
  BY Halves DEF CtzAt, Halving
<1>2. m \in Nat
  BY <1>1
<1> HIDE DEF m
<1>3. /\ m >= h => x % 2^h = 0 /\ x \div 2^h = 2^(m - h)
      /\ m < h => x % 2^h # 0
  BY <1>1, <1>2, PowerByPower
<1>4. CASE m >= h
  <2> DEFINE u == [x |-> 2^(m - h), r |-> r + h, h |-> g]
  <2>1. ctz_half[s] = u
    <3>1. ctz_half[s] = [x |-> shr(x, h), r |-> r + h, h |-> h \div 2]
      BY <1>1, <1>3, <1>4 DEF ctz_half
    <3> QED BY <1>1, <1>3, <1>4, <3>1 DEF shr
  <2>2. m - h \in Nat /\ k - (r + h) = m - h /\ r + h <= k /\ m - h < 2 * g
    BY <1>1, <1>2, <1>4 DEF m
  <2>3. u \in Halving
    BY <1>1, <2>2, Power DEF Halving
  <2> QED BY <1>1, <2>1, <2>2, <2>3 DEF CtzAt
<1>5. CASE m < h
  <2> DEFINE u == [x |-> x, r |-> r, h |-> g]
  <2>1. ctz_half[s] = u
    <3>1. ctz_half[s] = [x |-> shr(x, 0), r |-> r + 0, h |-> h \div 2]
      BY <1>1, <1>3, <1>5 DEF ctz_half
    <3>2. shr(x, 0) = x
      <4>1. x \div 1 = x
        BY <1>1
      <4> QED BY <4>1, PowerZero DEF shr
    <3> QED BY <1>1, <3>1, <3>2
  <2>2. m < 2 * g /\ m = k - r
    BY <1>1, <1>2, <1>5 DEF m
  <2>3. u \in Halving
    BY <1>1 DEF Halving
  <2> QED BY <1>1, <2>1, <2>2, <2>3 DEF CtzAt
<1> QED BY <1>1, <1>2, <1>4, <1>5

\* __ctzsi2 finds the bit of a power of two.
LEMMA CtzRight ==
  ASSUME NEW k \in 0 .. BITS - 1
  PROVE  ctz(2^k) = k
<1> DEFINE s0 == [x |-> 2^k, r |-> 0, h |-> BITS \div 2]
           s == Iterate(ctz_half, s0, LOG - 1)
<1>0. k \in Nat /\ BITS \in Nat /\ BITS >= 2 /\ k < BITS
  BY DivisionFacts
<1>1. s0 \in CtzAt(k)[0]
  <2>1. s0.h = 2^((LOG - 1) - 0) /\ 2 * s0.h = BITS /\ BITS \div 2 \in Nat
    BY <1>0, Halves
  <2>2. s0.r = 0 /\ s0.x = 2^(k - 0) /\ k - 0 = k /\ s0.r <= k /\ k - s0.r < 2 * s0.h
    <3>1. k - 0 = k
      BY <1>0
    <3> QED BY <1>0, <2>1, <3>1
  <2>4. s0 \in Halving
    BY <1>0, <2>1, Power DEF Halving
  <2> HIDE DEF s0
  <2> QED BY <2>1, <2>2, <2>4 DEF CtzAt
<1>2. s \in CtzAt(k)[LOG - 1]
  <2>1. \A i \in 0 .. (LOG - 1) - 1 : \A t \in CtzAt(k)[i] : ctz_half[t] \in CtzAt(k)[i + 1]
    BY <1>0, CtzStep
  <2> HIDE DEF s0
  <2> QED BY <1>1, <2>1, Halves, IterateInvariant
<1>3. ctz(2^k) = IF s.x % 2 = 1 THEN s.r ELSE (s.r + 2) - shr(s.x % 4, 1)
  BY DEF ctz
<1> HIDE DEF s, s0
<1>4. s \in Halving /\ s.h = 1 /\ s.r <= k /\ k - s.r < 2 * s.h /\ s.x = 2^(k - s.r)
  BY <1>2, Halves DEF CtzAt
<1>5. s.r \in Nat /\ (k - s.r = 0 \/ k - s.r = 1)
  BY <1>0, <1>4 DEF Halving
<1>6. 2^1 = 2 /\ 2^0 = 1
  <2>1. 2^(0 + 1) = 2 * 2^0 /\ 0 + 1 = 1
    BY PowerStep
  <2> QED BY <2>1, PowerZero
<1>7. CASE k - s.r = 0
  <2>0. s.x = 1
    BY <1>4, <1>6, <1>7, Zenon
  <2>1. s.x % 2 = 1 /\ s.r = k
    BY <1>0, <1>5, <1>7, <2>0
  <2> QED BY <1>3, <2>1
<1>8. CASE k - s.r = 1
  <2>0. s.x = 2
    BY <1>4, <1>6, <1>8, Zenon
  <2>1. s.x = 2 /\ s.r + 1 = k
    BY <1>0, <1>5, <1>8, <2>0
  <2>2. 2 % 2 = 0 /\ 2 % 4 = 2 /\ 2 \div 2 = 1
    OBVIOUS
  <2>3. shr(s.x % 4, 1) = 1
    BY <1>6, <2>1, <2>2 DEF shr
  <2> QED BY <1>0, <1>3, <1>5, <2>1, <2>2, <2>3
<1> QED BY <1>5, <1>7, <1>8

--------------------------------------------------------------------------
\* The carry tells whether the remainder is as large as the divisor.
LEMMA CarryRight ==
  ASSUME NEW r \in Nat, NEW d \in Nat, (d - r) - 1 \in -HALF .. HALF - 1
  PROVE  carry(r, d) = IF r >= d THEN 1 ELSE 0
<1>0. HALF \in Nat \ {0} /\ DWORD = 2 * HALF /\ DWORD \div 2 = HALF /\ DWORD \in Nat \ {0}
  BY DivisionFacts
<1> DEFINE z == (d - r) - 1
<1>1. z \in Int /\ -HALF <= z /\ z < HALF
  BY <1>0
<1>2. carry(r, d) = (z % DWORD) \div HALF
  BY <1>0 DEF carry
<1>3. CASE r >= d
  <2>1. z < 0
    BY <1>3
  <2>2. z = DWORD * (-1) + (z + DWORD) /\ z + DWORD \in 0 .. DWORD - 1 /\ -1 \in Int
    BY <1>0, <1>1, <2>1
  <2>3. z % DWORD = z + DWORD
    <3> HIDE DEF z
    <3> QED BY <1>0, <1>1, <2>2, UniqueDivision
  <2>4. z + DWORD = HALF * 1 + (z + HALF) /\ z + HALF \in 0 .. HALF - 1 /\ z + DWORD \in Int
    BY <1>0, <1>1, <2>1
  <2>5. (z + DWORD) \div HALF = 1
    <3> HIDE DEF z
    <3> QED BY <1>0, <2>4, UniqueDivision
  <2> QED BY <1>2, <1>3, <2>3, <2>5
<1>4. CASE ~ (r >= d)
  <2>1. z >= 0
    BY <1>4
  <2>2. z = DWORD * 0 + z /\ z \in 0 .. DWORD - 1 /\ z = HALF * 0 + z /\ z \in 0 .. HALF - 1 /\ 0 \in Int
    BY <1>0, <1>1, <2>1
  <2>3. z % DWORD = z /\ z \div HALF = 0
    <3> HIDE DEF z
    <3> QED BY <1>0, <1>1, <2>2, UniqueDivision
  <2> QED BY <1>2, <1>4, <2>3
<1> QED BY <1>3, <1>4

\* One bit more of a quotient by a power of two.
LEMMA NextBit ==
  ASSUME NEW n \in Nat, NEW p \in Nat \ {0}
  PROVE  /\ (n % (2 * p)) \div p \in {0, 1}
         /\ n \div p = 2 * (n \div (2 * p)) + ((n % (2 * p)) \div p)
         /\ n % (2 * p) = p * ((n % (2 * p)) \div p) + (n % p)
<1> DEFINE u == n \div (2 * p)
           z == n % (2 * p)
           b == z \div p
           y == z % p
<1>1. n = (2 * p) * u + z /\ z \in 0 .. 2 * p - 1 /\ u \in Int
  <2>1. 2 * p \in Nat \ {0} /\ n \in Int
    OBVIOUS
  <2> QED BY <2>1, Division
<1> HIDE DEF u, z
<1>2. z = p * b + y /\ y \in 0 .. p - 1 /\ b \in Int
  <2>1. z \in Int
    BY <1>1
  <2> QED BY <2>1, Division
<1> HIDE DEF b, y
<1>3. b = 0 \/ b = 1
  <2>1. b < 0 => p * b <= -p
    BY <1>2
  <2>2. b >= 2 => p * b >= 2 * p
    BY <1>2
  <2>3. p * b \in Int
    BY <1>2
  <2> QED BY <1>1, <1>2, <2>1, <2>2, <2>3
<1>4. n = p * (2 * u + b) + y
  <2>1. p * (2 * u + b) = (2 * p) * u + p * b
    BY <1>1, <1>2
  <2>2. (2 * p) * u \in Int /\ p * b \in Int
    BY <1>1, <1>2
  <2> QED BY <1>1, <1>2, <2>1, <2>2
<1>5. n \div p = 2 * u + b /\ n % p = y
  <2>1. n \in Int /\ 2 * u + b \in Int
    BY <1>1, <1>2
  <2> QED BY <1>2, <1>4, <2>1, UniqueDivision
<1> QED BY <1>2, <1>3, <1>5 DEF u, z, b

\* Before a round of the loop of __udivmoddi4, as numbers: of q = z * w + t the
\* upper bit is z's, b, and y is the rest of z.
RoundOf(p, w, b, y, t, c, q) ==
  /\ p \in Nat \ {0} /\ w \in Nat \ {0} /\ p * w = HALF
  /\ b \in {0, 1} /\ y \in 0 .. p - 1
  /\ t \in Nat /\ c \in {0, 1} /\ 2 * t + c < w
  /\ q = (p * b + y) * w + t

\* What is left is the rest of z above one bit more.
LEMMA RoundNumbers ==
  ASSUME NEW p, NEW w, NEW b, NEW y, NEW t, NEW c, NEW q, RoundOf(p, w, b, y, t, c, q)
  PROVE  /\ q \in Nat /\ q \div HALF = b
         /\ (2 * q + c) % DWORD = y * (2 * w) + (2 * t + c)
<1> USE DEF RoundOf
<1> DEFINE g == y * w + t
<1>0. HALF \in Nat \ {0} /\ DWORD = 2 * HALF /\ DWORD \in Nat \ {0}
  BY DivisionFacts
<1>1. y \in Nat /\ y * w \in Nat /\ b \in Nat /\ c \in Nat
  OBVIOUS
<1>2. g \in 0 .. HALF - 1
  <2>1. y * w <= (p - 1) * w
    BY <1>1
  <2>2. (p - 1) * w = p * w - w
    OBVIOUS
  <2>3. t < w /\ g \in Nat
    BY <1>1
  <2> QED BY <1>0, <1>1, <2>1, <2>2, <2>3
<1>3. q = HALF * b + g
  <2>1. (p * b + y) * w = (p * w) * b + y * w
    BY <1>1
  <2>2. (p * w) * b \in Nat
    BY <1>1
  <2> QED BY <1>1, <2>1, <2>2
<1>4. HALF * b \in Nat
  BY <1>0, <1>1
<1>5. q \div HALF = b /\ q \in Nat
  <2> HIDE DEF g
  <2>1. q \in Nat
    BY <1>0, <1>2, <1>3, <1>4
  <2>2. q \in Int /\ b \in Int
    BY <1>1, <2>1
  <2> QED BY <1>0, <1>2, <1>3, <2>1, <2>2, UniqueDivision
<1>6. (2 * q + c) % DWORD = 2 * g + c
  <2> HIDE DEF g
  <2>1. 2 * q + c = DWORD * b + (2 * g + c)
    <3>1. DWORD * b = 2 * (HALF * b)
      BY <1>0, <1>1
    <3> QED BY <1>0, <1>1, <1>2, <1>3, <1>4, <3>1
  <2>2. 2 * g + c \in 0 .. DWORD - 1 /\ 2 * q + c \in Int /\ b \in Int
    BY <1>0, <1>1, <1>2, <1>5
  <2> DEFINE a == 2 * q + c  r == 2 * g + c
  <2>3. DWORD \in Nat \ {0} /\ a = DWORD * b + r /\ r \in 0 .. DWORD - 1 /\ a \in Int /\ b \in Int
    BY <1>0, <2>1, <2>2
  <2> HIDE DEF a, r, RoundOf
  <2>4. a % DWORD = r
    BY <2>3, UniqueDivision
  <2> QED BY <2>4 DEF a, r
<1>7. 2 * g + c = y * (2 * w) + (2 * t + c)
  <2> DEFINE m == y * w
  <2>1. y * (2 * w) = 2 * m
    BY <1>1
  <2>2. g = m + t /\ m \in Nat /\ t \in Nat
    BY <1>1
  <2> HIDE DEF m, g, RoundOf
  <2> QED BY <1>1, <2>1, <2>2
<1> QED BY <1>5, <1>6, <1>7

\* What the loop has after j of its sr rounds: the quotient of n's upper bits,
\* its last bit in c, the remainder in r, and n's lower bits at the top of q.
RoundAt(n, d, sr) ==
  [j \in Nat |->
    {s \in [q : Nat, r : Nat, c : Nat] :
       /\ s.c \in {0, 1} /\ s.r < d
       /\ \E t \in Nat :
            /\ 2 * t + s.c < 2^j
            /\ n \div 2^(sr - j) = (2 * t + s.c) * d + s.r
            /\ s.q = (n % 2^(sr - j)) * 2^(2 * BITS - (sr - j)) + t}]

\* No divisor reaches beyond half the numbers, but in the first and only round
\* for a dividend that does so too.
Comparable(n, d, sr) == d <= HALF \/ (sr = 1 /\ n >= HALF)

\* A round keeps it.
LEMMA RoundStep ==
  ASSUME NEW n \in DoubleWord, NEW d \in DoubleWord \ {0}, NEW sr \in 1 .. 2 * BITS - 1,
         Comparable(n, d, sr), NEW j \in 0 .. sr - 1, NEW s \in RoundAt(n, d, sr)[j]
  PROVE  round(d)[s] \in RoundAt(n, d, sr)[j + 1]
<1>0. /\ BITS \in Nat /\ BITS >= 2 /\ DWORD = 2 * HALF /\ DWORD \div 2 = HALF /\ HALF \in Nat \ {0}
      /\ n \in Nat /\ n < DWORD /\ d \in Nat \ {0} /\ d < DWORD /\ sr \in Nat /\ j \in Nat /\ DWORD \in Nat \ {0}
  BY DivisionFacts DEF DoubleWord
<1> DEFINE m == sr - j
           p == 2^(m - 1)
           w == 2^(2 * BITS - m)
           b == (n % (2 * p)) \div p
           y == n % p
           c == s.c
           r == s.r
<1>1. m \in Nat /\ m >= 1 /\ m - 1 \in Nat /\ 2 * BITS - m \in Nat /\ sr - (j + 1) = m - 1 /\ j + 1 \in Nat
  BY <1>0
<1>2. p \in Nat \ {0} /\ w \in Nat \ {0} /\ 2^m = 2 * p /\ p * w = HALF
  <2>1. 2^((m - 1) + 1) = 2 * 2^(m - 1) /\ (m - 1) + 1 = m
    BY <1>1, PowerStep
  <2>2. 2^((m - 1) + (2 * BITS - m)) = 2^(m - 1) * 2^(2 * BITS - m) /\ (m - 1) + (2 * BITS - m) = 2 * BITS - 1
    BY <1>0, <1>1, PowerSum
  <2> QED BY <1>1, <2>1, <2>2, Power DEF HALF
<1>3. s \in [q : Nat, r : Nat, c : Nat] /\ c \in {0, 1} /\ r < d /\ r \in Nat
  BY <1>0 DEF RoundAt
<1>4. PICK t \in Nat : /\ 2 * t + c < 2^j
                       /\ n \div 2^m = (2 * t + c) * d + r
                       /\ s.q = (n % 2^m) * w + t
  BY <1>0 DEF RoundAt
<1> DEFINE T == 2 * t + c
           v == 2 * r + b
<1> HIDE DEF m, p, w, b, y
<1>5. b \in {0, 1} /\ n \div p = 2 * (n \div (2 * p)) + b /\ n % (2 * p) = p * b + y
  BY <1>0, <1>2, NextBit DEF b, y
<1>6. y \in 0 .. p - 1 /\ n \div p \in Nat /\ n \div p <= n
  <2>1. n \in Int
    BY <1>0
  <2>2. n = p * (n \div p) + y /\ y \in 0 .. p - 1 /\ n \div p \in Int
    BY <1>2, <2>1, Division DEF y
  <2> DEFINE k == n \div p
  <2> HIDE DEF k
  <2>3. n = p * k + y /\ y \in 0 .. p - 1 /\ k \in Int
    BY <2>2 DEF k
  <2>4. k >= 0
    <3>1. k < 0 => p * k <= -p
      BY <1>2, <2>3
    <3>2. p * k \in Int
      BY <1>2, <2>3
    <3> QED BY <1>0, <1>2, <2>3, <3>1, <3>2
  <2>5. k <= p * k /\ p * k \in Nat
    BY <1>2, <2>3, <2>4
  <2> QED BY <1>0, <1>2, <2>3, <2>4, <2>5 DEF k
<1>7. T < w
  <2>1. 2^j <= w
    <3>1. (2 * BITS - m) - j \in Nat /\ j + ((2 * BITS - m) - j) = 2 * BITS - m
      BY <1>0, <1>1 DEF m
    <3>2. 2^(j + ((2 * BITS - m) - j)) = 2^j * 2^((2 * BITS - m) - j)
      BY <1>0, <3>1, PowerSum
    <3>3. 2^j \in Nat \ {0} /\ 2^((2 * BITS - m) - j) \in Nat \ {0} /\ \A e, f \in Nat \ {0} : e <= e * f
      BY <1>0, <3>1, Power
    <3> QED BY <3>1, <3>2, <3>3 DEF w
  <2>2. 2^j \in Nat /\ T \in Nat
    BY <1>0, <1>3, Power
  <2> QED BY <1>2, <1>4, <2>1, <2>2
<1>8. s.q \in Nat /\ s.q \div HALF = b /\ (2 * s.q + c) % DWORD = y * (2 * w) + T
  <2>1. s.q = (p * b + y) * w + t
    BY <1>2, <1>4, <1>5
  <2>2. 2 * t + c < w /\ c \in {0, 1}
    BY <1>3, <1>7
  <2> HIDE DEF c
  <2>3. RoundOf(p, w, b, y, t, c, s.q)
    BY <1>2, <1>5, <1>6, <2>1, <2>2 DEF RoundOf
  <2>4. /\ s.q \in Nat /\ s.q \div HALF = b
        /\ (2 * s.q + c) % DWORD = y * (2 * w) + (2 * t + c)
    BY <2>3, RoundNumbers
  <2> QED BY <2>4
<1>9. n \div p = (2 * T) * d + v /\ v \in Nat /\ v < DWORD
  <2>1. n \div p = 2 * (T * d + r) + b
    BY <1>2, <1>4, <1>5
  <2>2. T \in Nat /\ v \in Nat /\ b \in Nat
    BY <1>3, <1>5
  <2>3. T * d \in Nat /\ (2 * T) * d = 2 * (T * d)
    BY <1>0, <2>2
  <2>4. n \div p = (2 * T) * d + v
    BY <1>3, <2>1, <2>2, <2>3
  <2> HIDE DEF T, v
  <2> QED BY <1>0, <1>6, <2>2, <2>3, <2>4
<1>10. (2 * r + s.q \div (DWORD \div 2)) % DWORD = v
  <2>1. 2 * r + s.q \div (DWORD \div 2) = v
    BY <1>0, <1>8
  <2>2. v = DWORD * 0 + v /\ v \in 0 .. DWORD - 1 /\ v \in Int /\ 0 \in Int
    BY <1>0, <1>9
  <2>3. v % DWORD = v
    BY <1>0, <2>2, UniqueDivision
  <2> QED BY <2>1, <2>3
<1>11. v < 2 * d
  BY <1>0, <1>3, <1>5
<1>12. (d - v) - 1 \in -HALF .. HALF - 1
  <2>1. CASE d <= HALF
    BY <1>0, <1>9, <1>11, <2>1
  <2>2. CASE ~ (d <= HALF)
    <3>1. sr = 1 /\ n >= HALF
      BY <2>2 DEF Comparable
    <3>2. j = 0 /\ m = 1
      BY <1>0, <3>1 DEF m
    <3>3. p = 1 /\ 2^j = 1
      BY <3>2, PowerZero DEF p
    <3>4. T = 0
      BY <1>3, <1>4, <3>3
    <3>5. n \div 1 = n /\ (2 * 0) * d = 0
      BY <1>0
    <3>6. v = n
      BY <1>9, <3>3, <3>4, <3>5
    <3> QED BY <1>0, <2>2, <3>1, <3>6
  <2> QED BY <2>1, <2>2
<1>13. carry(v, d) = IF v >= d THEN 1 ELSE 0
  <2>1. d \in Nat
    BY <1>0
  <2> HIDE DEF v
  <2> QED BY <1>9, <1>12, <2>1, CarryRight
<1> DEFINE e == carry(v, d)
           f == v - e * d
           Q == y * (2 * w) + T
           u == [q |-> Q, r |-> f, c |-> e]
<1>14. round(d)[s] = u
  <2>1. round(d)[s] =
          LET rr == (2 * s.r + s.q \div (DWORD \div 2)) % DWORD
              cc == carry(rr, d)
          IN  [q |-> (2 * s.q + s.c) % DWORD, r |-> rr - cc * d, c |-> cc]
    BY <1>3 DEF round
  <2> QED BY <1>8, <1>10, <2>1
<1>15. e \in {0, 1} /\ f \in Nat /\ f < d /\ v = e * d + f
  BY <1>0, <1>9, <1>11, <1>13
<1>16. Q \in Nat /\ T \in Nat /\ 2 * T + e < 2^(j + 1)
  <2>1. T \in Nat
    BY <1>3
  <2>2. y \in Nat /\ 2 * w \in Nat /\ y * (2 * w) \in Nat
    BY <1>2, <1>6
  <2>3. 2^(j + 1) = 2 * 2^j /\ 2^j \in Nat
    BY <1>0, Power, PowerStep
  <2> HIDE DEF e
  <2> QED BY <1>3, <1>4, <1>15, <2>1, <2>2, <2>3
<1>17. n \div p = (2 * T + e) * d + f
  <2> HIDE DEF T, e, f, v
  <2>1. (2 * T + e) * d = (2 * T) * d + e * d
    BY <1>0, <1>15, <1>16
  <2>2. (2 * T) * d \in Nat /\ e * d \in Nat
    BY <1>0, <1>15, <1>16
  <2> QED BY <1>9, <1>15, <2>1, <2>2
<1>18. 2^(2 * BITS - (m - 1)) = 2 * w
  <2>1. (2 * BITS - m) + 1 = 2 * BITS - (m - 1)
    BY <1>0, <1>1
  <2>2. 2^((2 * BITS - m) + 1) = 2 * 2^(2 * BITS - m)
    BY <1>1, PowerStep
  <2> QED BY <2>1, <2>2 DEF w
<1>19. /\ n \div 2^(sr - (j + 1)) = (2 * T + e) * d + f
       /\ Q = (n % 2^(sr - (j + 1))) * 2^(2 * BITS - (sr - (j + 1))) + T
  <2>1. sr - (j + 1) = m - 1
    BY <1>1
  <2> HIDE DEF T, e, f
  <2> QED BY <1>17, <1>18, <2>1 DEF p, y
<1>20. u \in [q : Nat, r : Nat, c : Nat] /\ u.c = e /\ u.r = f /\ u.q = Q
  <2>1. e \in Nat
    BY <1>15
  <2> HIDE DEF e, f, Q
  <2> QED BY <1>15, <1>16, <2>1
<1>21. u \in RoundAt(n, d, sr)[j + 1]
  <2> HIDE DEF T, e, f, Q, u
  <2> QED BY <1>1, <1>15, <1>16, <1>19, <1>20 DEF RoundAt
<1> QED BY <1>14, <1>21

\* The loop of __udivmoddi4 divides.
LEMMA LoopRight ==
  ASSUME NEW n \in DoubleWord, NEW d \in DoubleWord \ {0}, NEW sr \in 1 .. 2 * BITS - 1,
         Comparable(n, d, sr), n \div 2^sr < d
  PROVE  loop(n, d, sr) = Qr(n \div d, n % d)
<1> DEFINE Q == (n % 2^sr) * 2^(2 * BITS - sr)
           R == n \div 2^sr
           s0 == [q |-> Q, r |-> R, c |-> 0]
           s == Iterate(round(d), s0, sr)
<1>0. /\ BITS \in Nat /\ n \in Nat /\ d \in Nat \ {0} /\ sr \in Nat /\ 2 * BITS - sr \in Nat /\ n \in Int
      /\ DWORD \in Nat \ {0} /\ DWORD = 2 * HALF /\ n < DWORD
  BY DivisionFacts DEF DoubleWord
<1>1. loop(n, d, sr) = Qr((2 * s.q + s.c) % DWORD, s.r)
  BY SplitRight DEF loop, Qr
<1>2. R \in Nat /\ Q \in Nat
  <2> DEFINE p == 2^sr
  <2>1. p \in Nat \ {0} /\ 2^(2 * BITS - sr) \in Nat
    BY <1>0, Power
  <2>2. n = p * (n \div p) + (n % p) /\ n % p \in 0 .. p - 1 /\ n \div p \in Int
    BY <1>0, <2>1, Division
  <2> HIDE DEF p
  <2> DEFINE k == n \div p
             l == n % p
  <2>3. n = p * k + l /\ l \in 0 .. p - 1 /\ k \in Int
    BY <2>2
  <2> HIDE DEF k, l
  <2>4. k >= 0
    <3>1. k < 0 => p * k <= -p
      BY <2>1, <2>3
    <3>2. p * k \in Int
      BY <2>1, <2>3
    <3> QED BY <1>0, <2>1, <2>3, <3>1, <3>2
  <2>5. l * 2^(2 * BITS - sr) \in Nat /\ k \in Nat
    BY <2>1, <2>3, <2>4
  <2> QED BY <2>5 DEF k, l, p
<1>3. s0 \in RoundAt(n, d, sr)[0]
  <2>1. s0 \in [q : Nat, r : Nat, c : Nat] /\ s0.q = Q /\ s0.r = R /\ s0.c = 0
    BY <1>2
  <2>2. sr - 0 = sr /\ 2 * 0 + 0 = 0
    BY <1>0
  <2>3. R = (2 * 0 + 0) * d + R /\ Q = Q + 0 /\ 2 * 0 + 0 < 2^0
    <3> HIDE DEF R, Q
    <3>1. 0 * d = 0 /\ 0 + R = R /\ Q + 0 = Q
      BY <1>0, <1>2
    <3> QED BY <2>2, <3>1, PowerZero
  <2>4. R < d
    OBVIOUS
  <2>5. /\ 2 * 0 + s0.c < 2^0
        /\ n \div 2^(sr - 0) = (2 * 0 + s0.c) * d + s0.r
        /\ s0.q = (n % 2^(sr - 0)) * 2^(2 * BITS - (sr - 0)) + 0
    <3> HIDE DEF s0
    <3>1. n \div 2^(sr - 0) = R /\ (n % 2^(sr - 0)) * 2^(2 * BITS - (sr - 0)) = Q
      BY <2>2
    <3> HIDE DEF R, Q
    <3> QED BY <2>1, <2>3, <3>1
  <2> HIDE DEF s0
  <2> QED BY <2>1, <2>4, <2>5 DEF RoundAt
<1>4. s \in RoundAt(n, d, sr)[sr]
  <2>1. \A j \in 0 .. sr - 1 : \A t \in RoundAt(n, d, sr)[j] : round(d)[t] \in RoundAt(n, d, sr)[j + 1]
    BY RoundStep
  <2> HIDE DEF s0
  <2> QED BY <1>0, <1>3, <2>1, IterateInvariant
<1> HIDE DEF s, s0, Q, R
<1>5. sr - sr = 0 /\ n \div 1 = n /\ n % 1 = 0
  BY <1>0
<1>6. PICK t \in Nat : /\ 2 * t + s.c < 2^sr
                       /\ n \div 2^(sr - sr) = (2 * t + s.c) * d + s.r
                       /\ s.q = (n % 2^(sr - sr)) * 2^(2 * BITS - (sr - sr)) + t
  BY <1>0, <1>4 DEF RoundAt
<1>7. s.c \in {0, 1} /\ s.r \in Nat /\ s.r < d
  BY <1>0, <1>4 DEF RoundAt
<1> DEFINE T == 2 * t + s.c
<1>8. n = T * d + s.r /\ T \in Nat
  <2>1. n \div 2^(sr - sr) = n
    BY <1>5, PowerZero
  <2> QED BY <1>6, <1>7, <2>1
<1>9. s.q = t
  <2>1. n % 2^(sr - sr) = 0
    BY <1>5, PowerZero
  <2>2. 2^(2 * BITS - (sr - sr)) \in Nat
    <3>1. 2 * BITS - (sr - sr) \in Nat
      BY <1>0
    <3> QED BY <3>1, Power
  <2>3. \A x \in Nat : 0 * x + t = t
    OBVIOUS
  <2> QED BY <1>6, <2>1, <2>2, <2>3
<1>10. T < DWORD
  <2>1. T <= T * d /\ T * d \in Nat
    BY <1>0, <1>8
  <2> HIDE DEF T
  <2> QED BY <1>0, <1>7, <1>8, <2>1
<1>11. (2 * s.q + s.c) % DWORD = T
  <2>1. 2 * s.q + s.c = T
    BY <1>9
  <2> HIDE DEF T
  <2>2. T = DWORD * 0 + T /\ T \in 0 .. DWORD - 1 /\ T \in Int /\ 0 \in Int
    BY <1>0, <1>8, <1>10
  <2> QED BY <1>0, <2>1, <2>2, UniqueDivision
<1>12. n \div d = T /\ n % d = s.r
  <2>1. n = d * T + s.r /\ T \in Int /\ s.r \in 0 .. d - 1
    <3>1. T * d = d * T
      BY <1>0, <1>8
    <3> QED BY <1>0, <1>7, <1>8, <3>1
  <2> HIDE DEF T
  <2> QED BY <1>0, <2>1, UniqueDivision
<1> QED BY <1>1, <1>11, <1>12

\* A dividend less than the divisor is the remainder.
LEMMA LessThanDivisor ==
  ASSUME NEW n \in Nat, NEW d \in Nat, n < d
  PROVE  n \div d = 0 /\ n % d = n
<1>1. n = d * 0 + n /\ n \in 0 .. d - 1 /\ n \in Int /\ 0 \in Int /\ d \in Nat \ {0}
  OBVIOUS
<1> QED BY <1>1, UniqueDivision

\* The bits of a double word by those of its words.
LEMMA LengthByHigh ==
  ASSUME NEW n \in DoubleWord, high(n) # 0
  PROVE  clz(high(n)) \in 0 .. BITS - 1 /\ HasLength(n, 2 * BITS - clz(high(n)))
<1> DEFINE h == high(n)
           l == low(n)
           c == clz(h)
           m == BITS - c
<1>0. /\ BITS \in Nat /\ BITS >= 2 /\ UWORD = 2^BITS /\ UWORD \in Nat \ {0}
      /\ h \in SingleWord /\ h \in Nat /\ l \in 0 .. UWORD - 1 /\ n = h * UWORD + l /\ n \in Nat
  BY DivisionFacts, Words DEF SingleWord
<1>1. c \in 0 .. BITS - 1 /\ HasLength(h, m)
  BY <1>0, ClzRight
<1> HIDE DEF h, l, c
<1>2. m \in Nat \ {0} /\ m - 1 \in Nat /\ (m - 1) + BITS = (2 * BITS - c) - 1 /\ m + BITS = 2 * BITS - c
      /\ 2 * BITS - c \in Nat \ {0}
  BY <1>0, <1>1
<1>3. 2^((2 * BITS - c) - 1) = 2^(m - 1) * UWORD /\ 2^(2 * BITS - c) = 2^m * UWORD
  <2>1. 2^((m - 1) + BITS) = 2^(m - 1) * 2^BITS /\ 2^(m + BITS) = 2^m * 2^BITS
    BY <1>0, <1>2, PowerSum
  <2> QED BY <1>0, <1>2, <2>1
<1> DEFINE x == 2^(m - 1)
           y == 2^m
<1>4. x \in Nat /\ y \in Nat /\ x <= h /\ h < y
  BY <1>1, <1>2, Power DEF HasLength
<1> HIDE DEF x, y, m
<1>5. x * UWORD <= n /\ n < y * UWORD
  <2>1. x * UWORD <= h * UWORD
    BY <1>0, <1>4
  <2>2. (h + 1) * UWORD <= y * UWORD /\ (h + 1) * UWORD = h * UWORD + UWORD
    BY <1>0, <1>4
  <2>3. x * UWORD \in Nat /\ y * UWORD \in Nat /\ h * UWORD \in Nat
    BY <1>0, <1>4
  <2> QED BY <1>0, <2>1, <2>2, <2>3
<1> QED BY <1>1, <1>2, <1>3, <1>5 DEF HasLength, x, y, h, c

\* The upper word zero.
LEMMA LengthByLow ==
  ASSUME NEW n \in DoubleWord, high(n) = 0, n # 0
  PROVE  /\ n = low(n) /\ n < UWORD /\ n \in SingleWord
         /\ clz(low(n)) \in 0 .. BITS - 1 /\ HasLength(n, BITS - clz(low(n)))
<1>1. n = 0 * UWORD + low(n) /\ low(n) \in SingleWord /\ UWORD \in Nat
  BY Words, DivisionFacts
<1>2. n = low(n)
  BY <1>1, DivisionFacts DEF SingleWord
<1> QED BY <1>1, <1>2, ClzRight, DivisionFacts DEF SingleWord

\* One bit is one.
LEMMA OneBit ==
  ASSUME NEW x \in Nat, HasLength(x, 1)
  PROVE  x = 1
<1>1. 2^(1 - 1) = 1 /\ 2^1 = 2
  <2>1. 2^(0 + 1) = 2 * 2^0 /\ 0 + 1 = 1 /\ 1 - 1 = 0
    BY PowerStep
  <2> QED BY <2>1, PowerZero
<1> QED BY <1>1 DEF HasLength

\* The loop, started by the difference of the lengths.
LEMMA LoopByLengths ==
  ASSUME NEW n \in DoubleWord, NEW d \in DoubleWord \ {0}, NEW l, NEW m,
         HasLength(n, l), HasLength(d, m), m <= l, l <= 2 * BITS, (1 + l) - m <= 2 * BITS - 1
  PROVE  loop(n, d, (1 + l) - m) = Qr(n \div d, n % d)
<1>0. /\ BITS \in Nat /\ BITS >= 2 /\ l \in Nat \ {0} /\ m \in Nat \ {0} /\ n \in Nat /\ d \in Nat
      /\ HALF \in Nat \ {0} /\ 2 * BITS - 1 \in Nat
  BY DivisionFacts DEF DoubleWord, HasLength
<1>1. (1 + l) - m \in 1 .. 2 * BITS - 1
  BY <1>0
<1>2. n \div 2^((1 + l) - m) < d
  BY <1>0, ShiftedBelow
<1>3. Comparable(n, d, (1 + l) - m)
  <2>1. CASE m <= 2 * BITS - 1
    <3>1. (2 * BITS - 1) - m \in Nat /\ m + ((2 * BITS - 1) - m) = 2 * BITS - 1
      BY <1>0, <2>1
    <3>2. 2^(m + ((2 * BITS - 1) - m)) = 2^m * 2^((2 * BITS - 1) - m)
      BY <1>0, <3>1, PowerSum
    <3>3. 2^m \in Nat \ {0} /\ 2^((2 * BITS - 1) - m) \in Nat \ {0} /\ \A x, y \in Nat \ {0} : x <= x * y
      BY <1>0, <3>1, Power
    <3>4. 2^m <= HALF
      BY <3>1, <3>2, <3>3 DEF HALF
    <3>5. d < 2^m
      BY DEF HasLength
    <3>6. d <= HALF
      BY <1>0, <3>3, <3>4, <3>5
    <3> QED BY <3>6 DEF Comparable
  <2>2. CASE ~ (m <= 2 * BITS - 1)
    <3>1. l = 2 * BITS /\ (1 + l) - m = 1 /\ l - 1 = 2 * BITS - 1
      BY <1>0, <2>2
    <3>2. HALF <= n
      BY <3>1 DEF HasLength, HALF
    <3>3. n >= HALF
      BY <1>0, <3>2
    <3> QED BY <3>1, <3>3 DEF Comparable
  <2> QED BY <2>1, <2>2
<1> QED BY <1>1, <1>2, <1>3, LoopRight

\* By a divisor whose low word is zero.
LEMMA DivideByHigh ==
  ASSUME NEW n \in DoubleWord, NEW d \in DoubleWord \ {0}, low(d) = 0
  PROVE  n \div d = high(n) \div high(d) /\ n % d = all(high(n) % high(d), low(n)) /\ high(d) # 0
<1> DEFINE h == high(n)
           l == low(n)
           g == high(d)
           q == h \div g
           r == h % g
<1>0. /\ UWORD \in Nat \ {0} /\ h \in Nat /\ l \in 0 .. UWORD - 1 /\ n = h * UWORD + l /\ n \in Nat
      /\ g \in Nat /\ d = g * UWORD + 0 /\ d \in Nat \ {0}
  BY DivisionFacts, Words DEF SingleWord, DoubleWord
<1>1. g # 0 /\ d = g * UWORD
  <2> HIDE DEF g
  <2>1. g = 0 => g * UWORD = 0
    BY <1>0
  <2> QED BY <1>0, <2>1
<1>2. h = g * q + r /\ r \in 0 .. g - 1 /\ q \in Int
  <2>1. h \in Int /\ g \in Nat \ {0}
    BY <1>0, <1>1
  <2> HIDE DEF h, g
  <2> QED BY <2>1, Division
<1> HIDE DEF h, l, g, q, r
<1>3. n = d * q + (r * UWORD + l)
  <2>1. (g * q + r) * UWORD = (g * UWORD) * q + r * UWORD
    BY <1>0, <1>2
  <2>2. (g * UWORD) * q \in Int /\ r * UWORD \in Int
    BY <1>0, <1>2
  <2> QED BY <1>0, <1>1, <1>2, <2>1, <2>2
<1>4. r * UWORD + l \in 0 .. d - 1
  <2>1. r * UWORD <= (g - 1) * UWORD /\ (g - 1) * UWORD = g * UWORD - UWORD /\ r * UWORD \in Nat
    BY <1>0, <1>1, <1>2
  <2> QED BY <1>0, <1>1, <2>1
<1>5. n \div d = q /\ n % d = r * UWORD + l
  <2> DEFINE z == r * UWORD + l
  <2>1. n \in Int /\ q \in Int /\ d \in Nat \ {0} /\ n = d * q + z /\ z \in 0 .. d - 1
    BY <1>0, <1>2, <1>3, <1>4
  <2> HIDE DEF z
  <2>2. n \div d = q /\ n % d = z
    BY <2>1, UniqueDivision
  <2> QED BY <2>2 DEF z
<1> QED BY <1>1, <1>5 DEF all, h, l, g, q, r

\* Both upper words count, and the divisor is the longer one: the guard of the
\* loop on sr, which the code has as a comparison without a sign.
LEMMA DivideByLengths ==
  ASSUME NEW n \in DoubleWord, NEW d \in DoubleWord \ {0}, high(n) # 0, high(d) # 0
  PROVE  LET sr == clz(high(d)) - clz(high(n))
         IN  /\ sr \notin 0 .. BITS - 1 => Qr(0, n) = Qr(n \div d, n % d)
             /\ sr \in 0 .. BITS - 1 => loop(n, d, sr + 1) = Qr(n \div d, n % d)
             /\ sr = BITS - 1 => high(d) = 1
<1> DEFINE c == clz(high(n))
           e == clz(high(d))
           l == 2 * BITS - c
           m == 2 * BITS - e
<1>0. /\ BITS \in Nat /\ BITS >= 2 /\ n \in Nat /\ d \in Nat /\ d \in DoubleWord /\ high(d) \in SingleWord
      /\ high(d) \in Nat
  BY DivisionFacts, Words DEF DoubleWord, SingleWord
<1>1. c \in 0 .. BITS - 1 /\ HasLength(n, l) /\ e \in 0 .. BITS - 1 /\ HasLength(d, m) /\ HasLength(high(d), BITS - e)
  BY <1>0, LengthByHigh, ClzRight
<1> HIDE DEF c, e
<1>2. l \in Nat /\ m \in Nat /\ l <= 2 * BITS
  BY <1>0, <1>1
<1>3. CASE e - c \notin 0 .. BITS - 1
  <2>1. l < m
    BY <1>0, <1>1, <1>3
  <2>2. n < d
    BY <1>0, <1>1, <2>1, Shorter
  <2>3. n \div d = 0 /\ n % d = n
    BY <1>0, <2>2, LessThanDivisor
  <2>4. e - c # BITS - 1
    BY <1>0, <1>3
  <2> QED BY <1>3, <2>3, <2>4 DEF c, e
<1>4. CASE e - c \in 0 .. BITS - 1
  <2>1. m <= l /\ (1 + l) - m = (e - c) + 1 /\ (1 + l) - m <= 2 * BITS - 1
    BY <1>0, <1>1, <1>4
  <2>2. loop(n, d, (1 + l) - m) = Qr(n \div d, n % d)
    BY <1>1, <1>2, <2>1, LoopByLengths
  <2>3. e - c = BITS - 1 => high(d) = 1
    <3> SUFFICES ASSUME e - c = BITS - 1 PROVE high(d) = 1
      OBVIOUS
    <3>1. BITS - e = 1
      BY <1>0, <1>1
    <3> QED BY <1>0, <1>1, <3>1, OneBit
  <2> QED BY <1>4, <2>1, <2>2, <2>3 DEF c, e
<1> QED BY <1>3, <1>4

\* __udivmoddi4 divides.
LEMMA UnsignedRight ==
  ASSUME NEW n \in DoubleWord, NEW d \in DoubleWord \ {0}
  PROVE  udivmoddi4(n, d) = Qr(n \div d, n % d)
<1>0. /\ BITS \in Nat /\ BITS >= 2 /\ UWORD \in Nat \ {0} /\ UWORD <= HALF /\ n \in Nat /\ d \in Nat \ {0} /\ d \in DoubleWord
      /\ high(n) \in SingleWord /\ low(n) \in SingleWord /\ n = high(n) * UWORD + low(n)
      /\ high(d) \in SingleWord /\ low(d) \in SingleWord /\ d = high(d) * UWORD + low(d)
      /\ high(n) \in Nat /\ low(n) \in Nat /\ low(n) < UWORD /\ high(d) \in Nat /\ low(d) \in Nat
  BY DivisionFacts, Words DEF DoubleWord, SingleWord
<1>1. CASE high(n) = 0
  <2>1. udivmoddi4(n, d) = small_n(n, d)
    BY <1>1 DEF udivmoddi4
  <2>2. n = low(n)
    <3>1. n = 0 * UWORD + low(n)
      BY <1>0, <1>1
    <3> QED BY <1>0, <3>1
  <2>3. CASE high(d) = 0
    <3>1. d = low(d)
      BY <1>0, <2>3, LengthByLow
    <3> QED BY <2>1, <2>2, <2>3, <3>1 DEF small_n
  <2>4. CASE high(d) # 0
    <3>1. UWORD <= high(d) * UWORD /\ high(d) * UWORD \in Nat
      <4>1. \A x, y \in Nat \ {0} : y <= x * y
        OBVIOUS
      <4> QED BY <1>0, <2>4, <4>1
    <3>2. n < d
      BY <1>0, <2>2, <3>1
    <3>3. n \div d = 0 /\ n % d = n
      BY <1>0, <3>2, LessThanDivisor
    <3> QED BY <2>1, <2>2, <2>4, <3>3 DEF small_n
  <2> QED BY <2>3, <2>4
<1>2. CASE high(n) # 0 /\ low(d) = 0
  <2>0. n \div d = high(n) \div high(d) /\ n % d = all(high(n) % high(d), low(n)) /\ high(d) # 0
    BY <1>2, DivideByHigh
  <2>1. CASE low(n) = 0 \/ PowerOf2(high(d))
    <3>1. udivmoddi4(n, d) = d_high_only(n, d)
      BY <1>2, <2>1 DEF udivmoddi4
    <3>2. CASE low(n) = 0
      BY <2>0, <3>1, <3>2 DEF d_high_only
    <3>3. CASE low(n) # 0
      <4>1. PICK k \in 0 .. BITS - 1 : high(d) = 2^k
        BY <2>1, <3>3 DEF PowerOf2
      <4>2. ctz(high(d)) = k
        BY <4>1, CtzRight
      <4>3. shr(high(n), ctz(high(d))) = high(n) \div high(d)
        BY <4>1, <4>2 DEF shr
      <4> QED BY <2>0, <3>1, <3>3, <4>3 DEF d_high_only
    <3> QED BY <3>2, <3>3
  <2>2. CASE ~ (low(n) = 0 \/ PowerOf2(high(d)))
    <3> DEFINE sr == clz(high(d)) - clz(high(n))
    <3>1. udivmoddi4(n, d) = IF sr \notin 0 .. BITS - 2 THEN Qr(0, n) ELSE loop(n, d, sr + 1)
      BY <1>2, <2>2 DEF udivmoddi4
    <3>2. /\ sr \notin 0 .. BITS - 1 => Qr(0, n) = Qr(n \div d, n % d)
          /\ sr \in 0 .. BITS - 1 => loop(n, d, sr + 1) = Qr(n \div d, n % d)
          /\ sr = BITS - 1 => high(d) = 1
      BY <1>2, <2>0, DivideByLengths
    <3>3. high(d) # 1
      <4>1. 0 \in 0 .. BITS - 1 /\ 2^0 = 1
        BY <1>0, PowerZero
      <4> QED BY <2>2, <4>1 DEF PowerOf2
    <3>4. sr \in Int
      BY <1>0, <1>2, <2>0, LengthByHigh
    <3> HIDE DEF sr
    <3>5. sr \in 0 .. BITS - 2 => sr \in 0 .. BITS - 1
      BY <1>0
    <3>6. sr \notin 0 .. BITS - 2 => sr \notin 0 .. BITS - 1
      BY <1>0, <3>2, <3>3, <3>4
    <3> QED BY <3>1, <3>2, <3>5, <3>6
  <2> QED BY <2>1, <2>2
<1>3. CASE high(n) # 0 /\ low(d) # 0 /\ high(d) = 0
  <2>0. d = low(d) /\ d < UWORD /\ clz(low(d)) \in 0 .. BITS - 1 /\ HasLength(d, BITS - clz(low(d)))
    BY <1>0, <1>3, LengthByLow
  <2>1. CASE PowerOf2(low(d))
    <3>1. udivmoddi4(n, d) = d_low_power(n, d)
      BY <1>3, <2>1 DEF udivmoddi4
    <3>2. PICK k \in 0 .. BITS - 1 : low(d) = 2^k
      BY <2>1 DEF PowerOf2
    <3>3. ctz(low(d)) = k /\ k \in 0 .. BITS
      BY <1>0, <3>2, CtzRight
    <3>4. CASE low(d) = 1
      <4>1. n \div 1 = n /\ n % 1 = 0
        BY <1>0
      <4> QED BY <2>0, <3>1, <3>4, <4>1 DEF d_low_power
    <3>5. CASE low(d) # 1
      <4> DEFINE v == 2^(BITS - k)
      <4>1. Splits(d, v)
        BY <2>0, <3>2, <3>3, SplitPowers
      <4>2. /\ n \div d = all(high(n) \div d, ((high(n) * v) % UWORD) + (low(n) \div d))
            /\ n % d = low(n) % d
        BY <4>1, ShiftedRight
      <4>3. d_low_power(n, d) =
              Qr(all(shr(high(n), k), shl(high(n), BITS - k) + shr(low(n), k)), low(n) % low(d))
        BY <3>3, <3>5 DEF d_low_power
      <4>4. shr(high(n), k) = high(n) \div d /\ shr(low(n), k) = low(n) \div d /\ shl(high(n), BITS - k) = (high(n) * v) % UWORD
        BY <2>0, <3>2 DEF shr, shl
      <4> QED BY <2>0, <3>1, <4>2, <4>3, <4>4
    <3> QED BY <3>4, <3>5
  <2>2. CASE ~ PowerOf2(low(d))
    <3> DEFINE c == clz(high(n))
               e == clz(low(d))
               l == 2 * BITS - c
               m == BITS - e
    <3>1. udivmoddi4(n, d) = loop(n, d, (1 + BITS + e) - c)
      BY <1>3, <2>2 DEF udivmoddi4
    <3>2. c \in 0 .. BITS - 1 /\ HasLength(n, l) /\ e \in 0 .. BITS - 1 /\ HasLength(d, m)
      BY <1>3, <2>0, LengthByHigh
    <3>3. m # 1
      <4> SUFFICES ASSUME m = 1 PROVE FALSE
        OBVIOUS
      <4>1. d = 1
        BY <1>0, <3>2, OneBit
      <4>2. 0 \in 0 .. BITS - 1 /\ 2^0 = 1
        BY <1>0, PowerZero
      <4> QED BY <2>0, <2>2, <4>1, <4>2 DEF PowerOf2
    <3> HIDE DEF c, e
    <3>4. m <= l /\ l <= 2 * BITS /\ (1 + l) - m <= 2 * BITS - 1 /\ (1 + l) - m = (1 + BITS + e) - c
      BY <1>0, <3>2, <3>3
    <3>5. loop(n, d, (1 + l) - m) = Qr(n \div d, n % d)
      BY <3>2, <3>4, LoopByLengths
    <3> QED BY <3>1, <3>4, <3>5
  <2> QED BY <2>1, <2>2
<1>4. CASE high(n) # 0 /\ low(d) # 0 /\ high(d) # 0
  <2> DEFINE sr == clz(high(d)) - clz(high(n))
  <2>1. udivmoddi4(n, d) = IF sr \notin 0 .. BITS - 1 THEN Qr(0, n) ELSE loop(n, d, sr + 1)
    BY <1>4 DEF udivmoddi4
  <2>2. /\ sr \notin 0 .. BITS - 1 => Qr(0, n) = Qr(n \div d, n % d)
        /\ sr \in 0 .. BITS - 1 => loop(n, d, sr + 1) = Qr(n \div d, n % d)
    BY <1>4, DivideByLengths
  <2> HIDE DEF sr
  <2> QED BY <2>1, <2>2
<1> QED BY <1>1, <1>2, <1>3, <1>4

\* Signed double words.
SignedDouble == -HALF .. HALF - 1
Absolute(x) == IF x < 0 THEN -x ELSE x

\* A negative number as a double word.
LEMMA Unsigned ==
  ASSUME NEW x \in 1 .. HALF
  PROVE  unsigned(-x) = DWORD - x
<1>0. HALF \in Nat \ {0} /\ DWORD = 2 * HALF /\ DWORD \in Nat \ {0}
  BY DivisionFacts
<1>1. -x = DWORD * (-1) + (DWORD - x) /\ DWORD - x \in 0 .. DWORD - 1 /\ -x \in Int /\ -1 \in Int
  BY <1>0
<1> QED BY <1>0, <1>1, UniqueDivision DEF unsigned

\* A double word is left as it is.
LEMMA UnsignedAsIs ==
  ASSUME NEW x \in DoubleWord
  PROVE  unsigned(x) = x
<1>1. DWORD \in Nat \ {0} /\ x = DWORD * 0 + x /\ x \in 0 .. DWORD - 1 /\ x \in Int /\ 0 \in Int
  BY DivisionFacts DEF DoubleWord
<1> QED BY <1>1, UniqueDivision DEF unsigned

\* The signed values of double words.
LEMMA SignedRange ==
  ASSUME NEW a \in DoubleWord
  PROVE  signed(a) \in SignedDouble /\ (a # 0 => signed(a) # 0)
BY DivisionFacts DEF signed, DoubleWord, SignedDouble

\* What is kept of a signed number is the number.
LEMMA SignedOfUnsigned ==
  ASSUME NEW x \in SignedDouble
  PROVE  signed(unsigned(x)) = x
<1>0. HALF \in Nat \ {0} /\ DWORD = 2 * HALF /\ DWORD \in Nat \ {0} /\ DWORD \div 2 = HALF
  BY DivisionFacts
<1>1. CASE x < 0
  <2>1. -x \in 1 .. HALF /\ -(-x) = x
    BY <1>0, <1>1 DEF SignedDouble
  <2>2. unsigned(x) = DWORD + x
    BY <1>0, <2>1, Unsigned
  <2> QED BY <1>0, <1>1, <2>1, <2>2 DEF signed
<1>2. CASE x >= 0
  <2>1. x \in DoubleWord /\ x < HALF /\ x \in Int
    BY <1>0, <1>2 DEF SignedDouble, DoubleWord
  <2>2. unsigned(x) = x
    BY <2>1, UnsignedAsIs
  <2> QED BY <1>0, <2>1, <2>2 DEF signed
<1> QED BY <1>0, <1>1, <1>2 DEF SignedDouble

\* The code takes the magnitude without overflow, the least number included.
LEMMA MagnitudeRight ==
  ASSUME NEW x \in SignedDouble
  PROVE  Magnitude(x) = Absolute(x) /\ Absolute(x) \in 0 .. HALF /\ Absolute(x) \in DoubleWord
<1>0. HALF \in Nat \ {0} /\ DWORD = 2 * HALF
  BY DivisionFacts
<1>1. Absolute(x) \in 0 .. HALF /\ Absolute(x) \in DoubleWord
  BY <1>0 DEF Absolute, SignedDouble, DoubleWord
<1>2. x < 0 => unsigned(-x) = -x
  <2> SUFFICES ASSUME x < 0 PROVE unsigned(-x) = -x
    OBVIOUS
  <2>1. -x \in DoubleWord
    BY <1>1 DEF Absolute
  <2> QED BY <2>1, UnsignedAsIs
<1> QED BY <1>1, <1>2 DEF Magnitude, Absolute

\* And puts the sign back.
LEMMA SignBack ==
  ASSUME NEW x \in 0 .. HALF
  PROVE  /\ WithSign(x, TRUE) = -x
         /\ x < HALF => WithSign(x, FALSE) = x
<1>0. HALF \in Nat \ {0} /\ DWORD = 2 * HALF /\ DWORD \div 2 = HALF
  BY DivisionFacts
<1>1. WithSign(x, TRUE) = signed(unsigned(-x)) /\ WithSign(x, FALSE) = signed(x)
  BY DEF WithSign
<1>2. -x \in SignedDouble
  BY <1>0 DEF SignedDouble
<1>3. x < HALF => signed(x) = x
  BY <1>0 DEF signed
<1> QED BY <1>1, <1>2, <1>3, SignedOfUnsigned

\* Quotient and remainder of the magnitudes, with the signs, are C's.
LEMMA SignsOfDivision ==
  ASSUME NEW s \in Int, NEW t \in Int, t # 0, NEW q \in Nat, NEW r \in Nat,
         Absolute(s) = Absolute(t) * q + r, r < Absolute(t)
  PROVE  Divides(s, t, IF (s < 0) # (t < 0) THEN -q ELSE q, IF s < 0 THEN -r ELSE r)
<1>1. CASE s < 0 /\ t < 0
  <2>1. -s = (-t) * q + r /\ r < -t /\ (-t) * q = -(t * q) /\ t * q \in Int /\ q * t = t * q
    BY <1>1 DEF Absolute
  <2>2. s = q * t + (-r)
    BY <2>1
  <2> QED BY <1>1, <2>1, <2>2 DEF Divides
<1>2. CASE s < 0 /\ ~ (t < 0)
  <2>1. -s = t * q + r /\ r < t /\ (-q) * t = -(t * q) /\ t * q \in Int
    BY <1>2 DEF Absolute
  <2>2. s = (-q) * t + (-r)
    BY <2>1
  <2> QED BY <1>2, <2>1, <2>2 DEF Divides
<1>3. CASE ~ (s < 0) /\ t < 0
  <2>1. s = (-t) * q + r /\ r < -t /\ (-t) * q = (-q) * t
    BY <1>3 DEF Absolute
  <2>2. s = (-q) * t + r
    BY <2>1
  <2> QED BY <1>3, <2>1, <2>2 DEF Divides
<1>4. CASE ~ (s < 0) /\ ~ (t < 0)
  <2>1. s = t * q + r /\ r < t /\ t * q = q * t
    BY <1>4 DEF Absolute
  <2>2. s = q * t + r
    BY <2>1
  <2> QED BY <1>4, <2>1, <2>2 DEF Divides
<1> QED BY <1>1, <1>2, <1>3, <1>4

\* __divdi3, __moddi3 and __divmoddi4, but for the one quotient that does not
\* fit.
LEMMA SignedRight ==
  ASSUME NEW s \in SignedDouble, NEW t \in SignedDouble, t # 0, ~ (s = -HALF /\ t = -1)
  PROVE  /\ Divides(s, t, divdi3(s, t), moddi3(s, t))
         /\ divmoddi4(s, t) = [d |-> divdi3(s, t), rem |-> moddi3(s, t)]
<1> DEFINE n == Absolute(s)
           d == Absolute(t)
           q == n \div d
           r == n % d
           Q == IF (s < 0) # (t < 0) THEN -q ELSE q
           R == IF s < 0 THEN -r ELSE r
<1>0. /\ HALF \in Nat \ {0} /\ s \in Int /\ t \in Int /\ n \in 0 .. HALF /\ n \in DoubleWord
      /\ d \in 0 .. HALF /\ d \in DoubleWord \ {0} /\ d \in Nat \ {0} /\ n \in Nat /\ n \in Int
  <2>1. n \in 0 .. HALF /\ n \in DoubleWord /\ d \in 0 .. HALF /\ d \in DoubleWord
    BY MagnitudeRight
  <2>2. d # 0 /\ s \in Int /\ t \in Int
    BY DivisionFacts DEF Absolute, SignedDouble
  <2> HIDE DEF n, d
  <2> QED BY <2>1, <2>2, DivisionFacts
<1>1. udivmoddi4(Magnitude(s), Magnitude(t)) = Qr(q, r)
  <2>1. Magnitude(s) = n /\ Magnitude(t) = d
    BY MagnitudeRight
  <2> HIDE DEF n, d
  <2> QED BY <1>0, <2>1, UnsignedRight
<1>2. n = d * q + r /\ r \in 0 .. d - 1 /\ q \in Int
  <2> HIDE DEF n, d
  <2> QED BY <1>0, Division
<1>3. q \in 0 .. HALF /\ r \in Nat /\ r < d /\ r < HALF /\ r \in 0 .. HALF /\ q \in Nat
  <2> HIDE DEF n, d, q, r
  <2>1. q < 0 => d * q <= -d
    BY <1>0, <1>2
  <2>2. q >= 0 => q <= d * q
    BY <1>0, <1>2
  <2>3. d * q \in Int
    BY <1>0, <1>2
  <2> QED BY <1>0, <1>2, <2>1, <2>2, <2>3
<1>4. ~ ((s < 0) # (t < 0)) => q < HALF
  <2> SUFFICES ASSUME ~ ((s < 0) # (t < 0)), q = HALF PROVE FALSE
    BY <1>0, <1>3
  <2>1. d = 1 /\ n = HALF
    <3> HIDE DEF n, d, q, r
    <3>1. d >= 2 => d * q >= 2 * q
      BY <1>0, <1>3
    <3>2. d * q \in Int
      BY <1>0, <1>2
    <3> QED BY <1>0, <1>2, <1>3, <3>1, <3>2
  <2>2. s = -HALF /\ t = -1
    <3>1. s < 0
      BY <1>0, <2>1 DEF Absolute, SignedDouble
    <3>2. t < 0
      BY <3>1
    <3> QED BY <1>0, <2>1, <3>1, <3>2 DEF Absolute
  <2> QED BY <2>2
<1>5. divdi3(s, t) = Q
  <2> HIDE DEF q, r
  <2>1. divdi3(s, t) = WithSign(q, (s < 0) # (t < 0))
    BY <1>1 DEF divdi3, Qr
  <2>2. CASE (s < 0) # (t < 0)
    <3>1. divdi3(s, t) = WithSign(q, TRUE)
      BY <2>1, <2>2 DEF WithSign
    <3> QED BY <1>3, <2>2, <3>1, SignBack
  <2>3. CASE ~ ((s < 0) # (t < 0))
    <3>1. divdi3(s, t) = WithSign(q, FALSE)
      BY <2>1, <2>3 DEF WithSign
    <3> QED BY <1>3, <1>4, <2>3, <3>1, SignBack
  <2> QED BY <2>2, <2>3
<1>6. moddi3(s, t) = R
  <2> HIDE DEF q, r
  <2>1. moddi3(s, t) = WithSign(r, s < 0)
    BY <1>1 DEF moddi3, Qr
  <2>2. CASE s < 0
    <3>1. moddi3(s, t) = WithSign(r, TRUE)
      BY <2>1, <2>2 DEF WithSign
    <3> QED BY <1>3, <2>2, <3>1, SignBack
  <2>3. CASE ~ (s < 0)
    <3>1. moddi3(s, t) = WithSign(r, FALSE)
      BY <2>1, <2>3 DEF WithSign
    <3> QED BY <1>3, <2>3, <3>1, SignBack
  <2> QED BY <2>2, <2>3
<1>7. Divides(s, t, Q, R)
  <2>1. Absolute(s) = Absolute(t) * q + r /\ r < Absolute(t)
    BY <1>2, <1>3
  <2> HIDE DEF q, r
  <2> QED BY <1>0, <1>3, <2>1, SignsOfDivision
<1>8. divmoddi4(s, t) = [d |-> Q, rem |-> R]
  <2> HIDE DEF q, r
  <2>1. R \in SignedDouble
    BY <1>0, <1>3 DEF SignedDouble
  <2>2. s - Q * t = R
    <3>1. s = Q * t + R /\ Q \in Int /\ R \in Int
      BY <1>3, <1>7 DEF Divides
    <3> HIDE DEF Q, R
    <3>2. Q * t \in Int
      BY <1>0, <3>1
    <3> QED BY <1>0, <3>1, <3>2
  <2> HIDE DEF Q, R
  <2>3. signed(unsigned(s - Q * t)) = R
    BY <2>1, <2>2, SignedOfUnsigned
  <2> QED BY <1>5, <2>3 DEF divmoddi4
<1> HIDE DEF Q, R
<1> QED BY <1>5, <1>6, <1>7, <1>8

\* At every width of the words, all pairs of double words divide as in C.
THEOREM DivisionRight == \A a, b \in DoubleWord : DivAgreesOn(a, b)
<1> SUFFICES ASSUME NEW a \in DoubleWord, NEW b \in DoubleWord, b # 0 PROVE DivAgreesOn(a, b)
  BY DEF DivAgreesOn
<1>0. DWORD \div 2 = HALF /\ a \in Nat /\ b \in Nat \ {0}
  BY DivisionFacts DEF DoubleWord
<1>1. Divides(a, b, udivdi3(a, b), umoddi3(a, b))
  <2>1. udivdi3(a, b) = a \div b /\ umoddi3(a, b) = a % b
    BY UnsignedRight DEF udivdi3, umoddi3, Qr
  <2>2. a = b * (a \div b) + (a % b) /\ a % b \in 0 .. b - 1 /\ a \div b \in Int
    <3>1. a \in Int
      BY <1>0
    <3> QED BY <1>0, <3>1, Division
  <2> DEFINE q == a \div b
             r == a % b
  <2> HIDE DEF q, r
  <2>3. a = b * q + r /\ r \in 0 .. b - 1 /\ q \in Int
    BY <2>2 DEF q, r
  <2>4. b * q = q * b
    BY <1>0, <2>3
  <2>5. Divides(a, b, q, r)
    BY <1>0, <2>3, <2>4 DEF Divides
  <2> QED BY <2>1, <2>5 DEF q, r
<1> DEFINE s == signed(a)
           t == signed(b)
<1>2. s \in SignedDouble /\ t \in SignedDouble /\ t # 0
  BY SignedRange
<1> HIDE DEF s, t
<1>3. ~ (s = -HALF /\ t = -1) =>
        /\ Divides(s, t, divdi3(s, t), moddi3(s, t))
        /\ divmoddi4(s, t) = [d |-> divdi3(s, t), rem |-> moddi3(s, t)]
  BY <1>2, SignedRight
<1> QED BY <1>0, <1>1, <1>3 DEF DivAgreesOn, s, t

\* The same as an invariant of the module: whatever division is asked for.
THEOREM DivAgreesHolds == DivSpec => []DivAgrees
<1> DEFINE I == operands # <<>> => \E a, b \in DoubleWord : operands = <<a, b>>
<1>1. DivInit => I
  BY DEF DivInit
<1>2. I /\ [divide]_operands => I'
  BY DEF divide, DoubleWord
<1>3. I => DivAgrees
  BY DivisionRight DEF DivAgrees
<1> QED BY <1>1, <1>2, <1>3, PTL DEF DivSpec

-----------------------------------------------------------------------------
(* klib's functions on strings and memory.                                 *)

(* A string's length, as C counts it. *)
LEMMA StringLength ==
  ASSUME NEW m \in [0 .. LAST -> Char], NEW a \in Strings(m)
  PROVE  /\ a \in Nat /\ strlenOf(m, a) \in Nat /\ a + strlenOf(m, a) <= LAST
         /\ m[a + strlenOf(m, a)] = NUL
         /\ \A j \in 0 .. strlenOf(m, a) - 1 : m[a + j] # NUL
<1> DEFINE k == strlenOf(m, a)
<1>1. k \in 0 .. LAST /\ IsString(m, a, k)
  BY DEF strlenOf, Strings
<1>2. a \in Nat
  BY StringAssumption DEF Strings
<1> HIDE DEF k
<1>3. QED BY <1>1, <1>2 DEF IsString, k

(* Two characters differ by nothing only if they are the same one, and are *)
(* told in C's order unless one of them is negative as a char.             *)
LEMMA CharDifference ==
  ASSUME NEW x \in Char, NEW y \in Char
  PROVE  LET r == char(x) - char(y)
         IN  r \in Int /\ (r = 0 <=> x = y) /\ Ordered(CharSigned, x, y, r)
BY StringAssumption DEF char, Char, Ordered

(* The first k characters at a and at b are the same. *)
AlikeUpTo(m, a, b, k) ==
  /\ a \in Nat /\ b \in Nat /\ k \in Nat /\ a + k <= LAST /\ b + k <= LAST
  /\ m \in [0 .. LAST -> Char]
  /\ \A j \in 0 .. k - 1 : m[a + j] = m[b + j]

(* What a comparison has found when it stops at the k-th of n. *)
LEMMA Verdict ==
  ASSUME NEW m, NEW a, NEW b, NEW k, AlikeUpTo(m, a, b, k),
         NEW n \in Nat, k < n, m[a + k] = m[b + k] => k = n - 1,
         NEW s, NEW r \in Int, r = 0 <=> m[a + k] = m[b + k], Ordered(s, m[a + k], m[b + k], r)
  PROVE  Comparison(m, a, b, n, s, r)
<1>1. ASSUME \A j \in 0 .. n - 1 : m[a + j] = m[b + j]
      PROVE  r = 0
  <2>1. k \in 0 .. n - 1
    BY DEF AlikeUpTo
  <2>2. m[a + k] = m[b + k]
    BY <1>1, <2>1
  <2>3. QED BY <2>2
<1>2. ASSUME NEW j \in 0 .. n - 1, m[a + j] # m[b + j], \A h \in 0 .. j - 1 : m[a + h] = m[b + h]
      PROVE  r # 0 /\ Ordered(s, m[a + j], m[b + j], r)
  <2>1. j >= k
    BY <1>2 DEF AlikeUpTo
  <2>2. j = k
    <3>1. SUFFICES ASSUME j > k PROVE FALSE
      BY <2>1 DEF AlikeUpTo
    <3>2. m[a + k] = m[b + k]
      BY <1>2, <3>1 DEF AlikeUpTo
    <3>3. QED BY <3>1, <3>2
  <2>3. QED BY <1>2, <2>2
<1>3. QED BY <1>1, <1>2 DEF Comparison

(* k of the n bytes at b are copied to a, where there is room for all. *)
CopyingOf(m, old, a, b, n, k) ==
  /\ m \in [0 .. LAST -> Char] /\ old \in [0 .. LAST -> Char]
  /\ a \in Nat /\ b \in Nat /\ n \in Nat /\ k \in 0 .. n - 1
  /\ Apart(a, n, b, n) /\ a + n <= LAST + 1 /\ b + n <= LAST + 1
  /\ Copied(m, old, a, b, k)

Stored(m, x, v) == [m EXCEPT ![x] = v]

(* One turn of a loop that copies. *)
LEMMA CopyTurn ==
  ASSUME NEW m, NEW old, NEW a, NEW b, NEW n, NEW k, CopyingOf(m, old, a, b, n, k),
         NEW m2, m2 = Stored(m, a + k, old[b + k])
  PROVE  /\ m[b + k] = old[b + k] /\ old[b + k] \in Char
         /\ m2 \in [0 .. LAST -> Char] /\ m2[b + k] = old[b + k]
         /\ Copied(m2, old, a, b, k + 1)
<1> USE DEF CopyingOf, Stored
<1>1. LAST \in Nat
  BY StringAssumption
<1>2. a + k \in 0 .. LAST /\ b + k \in 0 .. LAST /\ a + k # b + k /\ (b + k < a \/ b + k >= a + k)
  BY <1>1 DEF Apart
<1>3. m[b + k] = old[b + k] /\ old[b + k] \in Char
  BY <1>2 DEF Copied
<1>4. /\ m2 \in [0 .. LAST -> Char] /\ m2[a + k] = old[b + k]
      /\ \A x \in 0 .. LAST : x # a + k => m2[x] = m[x]
  BY <1>2, <1>3
<1>5. ASSUME NEW j \in 0 .. k PROVE m2[a + j] = old[b + j]
  <2>1. CASE j = k
    BY <1>4, <2>1
  <2>2. CASE j # k
    <3>1. j \in 0 .. k - 1 /\ a + j \in 0 .. LAST /\ a + j # a + k
      BY <1>1, <1>2, <2>2
    <3>2. QED BY <1>4, <3>1 DEF Copied
  <2>3. QED BY <2>1, <2>2
<1>6. ASSUME NEW x \in 0 .. LAST, x < a \/ x >= a + (k + 1) PROVE m2[x] = old[x]
  <2>1. x # a + k /\ (x < a \/ x >= a + k)
    BY <1>6
  <2>2. QED BY <1>4, <2>1 DEF Copied
<1>7. Copied(m2, old, a, b, k + 1)
  <2>1. (k + 1) - 1 = k
    OBVIOUS
  <2>2. QED BY <1>5, <1>6, <2>1 DEF Copied
<1>8. QED
  <2>1. m2[b + k] = old[b + k]
    BY <1>2, <1>3, <1>4
  <2>2. QED BY <1>3, <1>4, <1>7, <2>1

(* A step that goes on with a call keeps what the call is. *)
LEMMA CallStays ==
  ASSUME CallOK, before' = before, call' = call, memory' \in [0 .. LAST -> Char]
  PROVE  CallOK'
BY DEF CallOK, LegalCall

(* One lemma per loop: a pass through it, the last one included. *)
LEMMA StrlenStep == ASSUME running # "idle", StringInv, strlen, UNCHANGED <<before, call>> PROVE StringInv'
<1>1. CallOK /\ call.f = "strlen" /\ Counting /\ running = "strlen"
  BY DEF strlen, StringInv, LoopOK
<1> DEFINE ls == strlenOf(before, call.src)
<1>2. /\ before \in [0 .. LAST -> Char] /\ call.src \in Strings(before)
  BY <1>1 DEF CallOK, LegalCall
<1>3. /\ ls \in Nat /\ before[call.src + ls] = NUL
      /\ \A j \in 0 .. ls - 1 : before[call.src + j] # NUL
  BY <1>2, StringLength
<1>4. CallOK'
  BY <1>1, CallStays DEF strlen, CallOK
<1>5. memory' = before /\ memory = before /\ sp = call.src /\ cnt \in 0 .. ls
  BY <1>1 DEF strlen, Counting
<1> HIDE DEF ls
<1>6. CASE memory[sp + cnt] # NUL
  <2>1. cnt' = cnt + 1 /\ running' = running /\ sp' = sp
    BY <1>6 DEF strlen
  <2>2. cnt' \in 0 .. ls
    BY <1>3, <1>5, <1>6, <2>1
  <2>3. Counting'
    BY <1>5, <2>1, <2>2 DEF Counting, ls
  <2>4. QED BY <1>1, <1>4, <2>1, <2>3 DEF StringInv, LoopOK, StringsAgree
<1>7. CASE memory[sp + cnt] = NUL
  <2>1. ret' = cnt /\ running' = "done"
    BY <1>7 DEF strlen, result
  <2>2. cnt = ls
    BY <1>3, <1>5, <1>7
  <2>3. StringsAgree'
    BY <1>1, <1>5, <2>1, <2>2 DEF StringsAgree, ls
  <2>4. QED BY <1>4, <2>1, <2>3 DEF StringInv, LoopOK
<1>8. QED BY <1>6, <1>7

(* What a legal call says of the strings that strcpy and strcat copy. *)
LEMMA CopyRoom ==
  ASSUME CallOK, call.f \in {"strcpy", "strcat"}
  PROVE  LET ls == strlenOf(before, call.src)
         IN  /\ Target \in Nat /\ call.src \in Nat /\ ls \in Nat
             /\ before[call.src + ls] = NUL /\ \A j \in 0 .. ls - 1 : before[call.src + j] # NUL
             /\ Apart(Target, ls + 1, call.src, ls + 1)
             /\ Target + (ls + 1) <= LAST + 1 /\ call.src + (ls + 1) <= LAST + 1
<1> DEFINE ls == strlenOf(before, call.src)  ld == strlenOf(before, call.dst)
<1>1. LAST \in Nat /\ before \in [0 .. LAST -> Char] /\ call.dst \in Nat
  BY StringAssumption DEF CallOK
<1>2. call.src \in Strings(before)
  BY DEF CallOK, LegalCall
<1>3. /\ call.src \in Nat /\ ls \in Nat /\ call.src + ls <= LAST /\ before[call.src + ls] = NUL
      /\ \A j \in 0 .. ls - 1 : before[call.src + j] # NUL
  BY <1>1, <1>2, StringLength
<1>4. CASE call.f = "strcpy"
  <2>1. Bytes(call.dst, ls + 1) /\ Apart(call.dst, ls + 1, call.src, ls + 1)
    BY <1>4 DEF CallOK, LegalCall
  <2>2. Target = call.dst
    BY <1>4 DEF Target
  <2> HIDE DEF ls
  <2>3. QED BY <1>1, <1>3, <2>1, <2>2 DEF Bytes, ls
<1>5. CASE call.f = "strcat"
  <2>1. /\ Bytes(call.dst, ld + ls + 1) /\ Apart(call.dst, ld + ls + 1, call.src, ls + 1)
        /\ call.dst \in Strings(before)
    BY <1>5 DEF CallOK, LegalCall
  <2>2. ld \in Nat
    BY <1>1, <2>1, StringLength
  <2>3. Target = call.dst + ld
    BY <1>5 DEF Target
  <2> HIDE DEF ld, ls
  <2>4. Target \in Nat /\ Target + (ls + 1) <= LAST + 1
    <3>1. call.dst + (ld + ls + 1) <= LAST + 1
      BY <2>1 DEF Bytes
    <3>2. QED BY <1>1, <1>3, <2>2, <2>3, <3>1
  <2>6. Apart(Target, ls + 1, call.src, ls + 1)
    BY <1>1, <1>3, <2>1, <2>2, <2>3 DEF Apart
  <2>5. QED BY <1>1, <1>3, <2>4, <2>6 DEF ls
<1>6. QED BY <1>4, <1>5

LEMMA CopyLoop == ASSUME running # "idle", StringInv, copy, UNCHANGED <<before, call>> PROVE StringInv'
<1> DEFINE ls == strlenOf(before, call.src)  src == call.src
<1>1. CallOK /\ call.f \in {"strcpy", "strcat"} /\ Copying /\ running = "copy"
  BY DEF copy, StringInv, LoopOK
<1>2. /\ Target \in Nat /\ src \in Nat /\ ls \in Nat
      /\ before[src + ls] = NUL /\ \A j \in 0 .. ls - 1 : before[src + j] # NUL
      /\ Apart(Target, ls + 1, src, ls + 1) /\ Target + (ls + 1) <= LAST + 1 /\ src + (ls + 1) <= LAST + 1
  BY <1>1, CopyRoom
<1>3. PICK k \in 0 .. ls : dp = Target + k /\ sp = src + k /\ Copied(memory, before, Target, src, k)
  BY <1>1 DEF Copying
<1>4. memory \in [0 .. LAST -> Char] /\ before \in [0 .. LAST -> Char]
  BY <1>1 DEF CallOK
<1>5. Target' = Target /\ ls' = ls /\ src' = src
  BY DEF Target
<1>6. k \in 0 .. (ls + 1) - 1 /\ ls + 1 \in Nat
  BY <1>2, <1>3
<1> HIDE DEF ls
<1> DEFINE m2 == Stored(memory, Target + k, before[src + k])
<1>7. /\ memory[src + k] = before[src + k] /\ m2 \in [0 .. LAST -> Char]
      /\ m2[src + k] = before[src + k] /\ Copied(m2, before, Target, src, k + 1)
  <2>1. CopyingOf(memory, before, Target, src, ls + 1, k)
    BY <1>2, <1>3, <1>4, <1>6 DEF CopyingOf
  <2>2. QED BY <2>1, CopyTurn
<1>8. memory' = m2
  BY <1>3, <1>7 DEF copy, Stored
<1> HIDE DEF m2
<1>9. CallOK'
  BY <1>1, <1>7, <1>8, CallStays
<1>10. CASE memory'[sp] = NUL
  <2>1. k = ls
    <3>1. before[src + k] = NUL
      BY <1>3, <1>7, <1>8, <1>10
    <3>2. QED BY <1>2, <1>3, <3>1
  <2>2. running' = "done" /\ ret' = call.dst
    BY <1>10 DEF copy, result
  <2>3. Copied(memory', before', Target', src', ls' + 1)
    BY <1>5, <1>7, <1>8, <2>1
  <2>4. CASE call.f = "strcpy"
    BY <1>9, <2>2, <2>3, <2>4 DEF StringInv, LoopOK, StringsAgree, Target, ls
  <2>5. CASE call.f = "strcat"
    BY <1>9, <2>2, <2>3, <2>5 DEF StringInv, LoopOK, StringsAgree, Target, ls
  <2>6. QED BY <1>1, <2>4, <2>5
<1>11. CASE memory'[sp] # NUL
  <2>1. k # ls
    BY <1>2, <1>3, <1>7, <1>8, <1>11
  <2>2. dp' = Target + (k + 1) /\ sp' = src + (k + 1) /\ running' = running /\ k + 1 \in 0 .. ls
    BY <1>2, <1>3, <1>11, <2>1 DEF copy
  <2>3. Copied(memory', before', Target', src', k + 1)
    BY <1>5, <1>7, <1>8
  <2>4. Copying'
    BY <1>5, <2>2, <2>3 DEF Copying, ls
  <2>5. QED BY <1>1, <1>9, <2>2, <2>4 DEF StringInv, LoopOK, StringsAgree
<1>12. QED BY <1>10, <1>11

LEMMA FindStep == ASSUME running # "idle", StringInv, strcat_find, UNCHANGED <<before, call>> PROVE StringInv'
<1> DEFINE ld == strlenOf(before, call.dst)
<1>1. CallOK /\ call.f = "strcat" /\ Finding /\ running = "find"
  BY DEF strcat_find, StringInv, LoopOK
<1>2. before \in [0 .. LAST -> Char] /\ call.dst \in Strings(before)
  BY <1>1 DEF CallOK, LegalCall
<1>3. /\ call.dst \in Nat /\ ld \in Nat /\ before[call.dst + ld] = NUL
      /\ \A j \in 0 .. ld - 1 : before[call.dst + j] # NUL
  BY <1>2, StringLength
<1>4. PICK k \in 0 .. ld : dp = call.dst + k
  BY <1>1 DEF Finding
<1>5. memory = before /\ memory' = before /\ sp' = call.src
  BY <1>1 DEF Finding, strcat_find
<1>6. CallOK'
  BY <1>1, <1>2, <1>5, CallStays
<1>7. CASE memory[dp] # NUL
  <2> HIDE DEF ld
  <2>1. running' = running /\ dp' = call.dst + (k + 1)
    BY <1>3, <1>4, <1>7 DEF strcat_find
  <2>2. k + 1 \in 0 .. ld
    BY <1>3, <1>4, <1>5, <1>7
  <2>3. Finding'
    BY <1>5, <2>1, <2>2 DEF Finding, ld
  <2>4. QED BY <1>1, <1>6, <2>1, <2>3 DEF StringInv, LoopOK, StringsAgree
<1>8. CASE memory[dp] = NUL
  <2>1. running' = "copy" /\ dp' = dp
    BY <1>8 DEF strcat_find
  <2>2. k = ld
    <3> HIDE DEF ld
    <3> QED BY <1>3, <1>4, <1>5, <1>8
  <2>3. Target = call.dst + ld /\ Target' = Target
    BY <1>1 DEF Target
  <2>5. Target \in Nat /\ call.src \in Nat /\ strlenOf(before, call.src) \in Nat
    BY <1>1, CopyRoom
  <2>6. Copied(memory', before', Target', call.src', 0)
    BY <1>5, <2>3, <2>5 DEF Copied
  <2>7. dp' = Target' + 0 /\ sp' = call.src' + 0 /\ 0 \in 0 .. strlenOf(before', call.src')
    BY <1>4, <1>5, <2>1, <2>2, <2>3, <2>5
  <2>8. Copying'
    BY <2>6, <2>7 DEF Copying
  <2>9. QED BY <1>1, <1>6, <2>1, <2>8 DEF StringInv, LoopOK, StringsAgree
<1>9. QED BY <1>7, <1>8

LEMMA StrncpyStep == ASSUME running # "idle", StringInv, strncpy, UNCHANGED <<before, call>> PROVE StringInv'
<1> DEFINE ls == strlenOf(before, call.src)  dst == call.dst  src == call.src
           n == Lesser(call.n, ls + 1)
<1>1. CallOK /\ call.f = "strncpy" /\ CopyingUpTo(Lesser(call.n, ls)) /\ running = "strncpy"
  BY DEF strncpy, StringInv, LoopOK
<1>2. /\ src \in Strings(before) /\ Bytes(dst, call.n) /\ Apart(dst, call.n, src, ls + 1)
      /\ memory \in [0 .. LAST -> Char] /\ before \in [0 .. LAST -> Char]
      /\ dst \in Nat /\ call.n \in Nat /\ LAST \in Nat
  BY <1>1, StringAssumption DEF CallOK, LegalCall
<1>3. /\ src \in Nat /\ ls \in Nat /\ src + ls <= LAST /\ before[src + ls] = NUL
      /\ \A j \in 0 .. ls - 1 : before[src + j] # NUL
  BY <1>2, StringLength
<1>4. /\ dp = dst /\ sp = src /\ left = call.n
      /\ cnt \in 0 .. Lesser(call.n, ls) /\ Copied(memory, before, dst, src, cnt)
  BY <1>1 DEF CopyingUpTo
<1> HIDE DEF ls
<1>5. cnt \in Nat /\ cnt <= call.n /\ cnt <= ls
  BY <1>2, <1>3, <1>4 DEF Lesser
<1>6. n \in Nat /\ Apart(dst, n, src, n) /\ dst + n <= LAST + 1 /\ src + n <= LAST + 1
  <2>1. n \in Nat /\ n <= call.n /\ n <= ls + 1
    BY <1>2, <1>3 DEF Lesser
  <2>2. dst + call.n <= LAST + 1
    BY <1>2 DEF Bytes
  <2>3. dst + call.n <= src \/ src + (ls + 1) <= dst
    BY <1>2 DEF Apart
  <2> HIDE DEF n
  <2>4. dst + n <= LAST + 1 /\ src + n <= LAST + 1
    BY <1>2, <1>3, <2>1, <2>2
  <2>5. Apart(dst, n, src, n)
    BY <1>2, <1>3, <2>1, <2>3 DEF Apart
  <2>6. QED BY <2>1, <2>4, <2>5
<1> DEFINE m2 == Stored(memory, dst + cnt, before[src + cnt])
<1>7. ASSUME cnt < call.n
      PROVE  /\ memory[src + cnt] = before[src + cnt] /\ m2 \in [0 .. LAST -> Char]
             /\ Copied(m2, before, dst, src, cnt + 1)
  <2>1. cnt \in 0 .. n - 1
    BY <1>2, <1>3, <1>5, <1>7 DEF Lesser
  <2>2. CopyingOf(memory, before, dst, src, n, cnt)
    <3> HIDE DEF n
    <3> QED BY <1>2, <1>3, <1>4, <1>6, <2>1 DEF CopyingOf
  <2>3. QED BY <2>2, CopyTurn
<1>8. CASE cnt < left /\ memory[sp + cnt] # NUL
  <2>1. memory' = m2 /\ cnt' = cnt + 1 /\ UNCHANGED <<running, dp, sp, left>>
    BY <1>4, <1>7, <1>8 DEF strncpy, Stored
  <2> HIDE DEF m2
  <2>2. cnt # ls
    BY <1>3, <1>4, <1>7, <1>8
  <2>3. cnt + 1 \in 0 .. Lesser(call.n, ls)
    BY <1>2, <1>3, <1>4, <1>5, <1>8, <2>2 DEF Lesser
  <2>4. CopyingUpTo(Lesser(call.n, ls))'
    BY <1>4, <1>7, <1>8, <2>1, <2>3 DEF CopyingUpTo, ls
  <2>5. CallOK'
    BY <1>1, <1>4, <1>7, <1>8, <2>1, CallStays
  <2>6. QED BY <1>1, <2>1, <2>4, <2>5 DEF StringInv, LoopOK, StringsAgree, ls
<1>9. CASE ~ (cnt < left /\ memory[sp + cnt] # NUL)
  <2>1. running' = "done" /\ ret' = dst
    BY <1>9 DEF strncpy, result
  <2>2. memory' \in [0 .. LAST -> Char] /\ Copied(memory', before, dst, src, n)
    <3>1. CASE cnt < left
      <4>1. before[src + cnt] = NUL
        BY <1>4, <1>7, <1>9, <3>1
      <4>2. cnt = ls
        BY <1>3, <1>4, <1>5, <4>1
      <4>3. memory' = m2
        BY <1>4, <1>9, <3>1, <4>1 DEF strncpy, Stored
      <4>4. n = cnt + 1
        BY <1>2, <1>3, <1>4, <3>1, <4>2 DEF Lesser
      <4> HIDE DEF m2, n
      <4>5. QED BY <1>4, <1>7, <3>1, <4>3, <4>4
    <3>2. CASE ~ (cnt < left)
      <4>1. n = cnt
        BY <1>2, <1>3, <1>4, <1>5, <3>2 DEF Lesser
      <4>2. memory' = memory
        BY <3>2 DEF strncpy
      <4>3. QED BY <1>2, <1>4, <4>1, <4>2
    <3>3. QED BY <3>1, <3>2
  <2>3. CallOK'
    BY <1>1, <2>2, CallStays
  <2>4. StringsAgree'
    BY <1>1, <2>1, <2>2 DEF StringsAgree, ls
  <2>5. QED BY <2>1, <2>3, <2>4 DEF StringInv, LoopOK
<1>10. QED BY <1>8, <1>9

LEMMA MemcpyStep == ASSUME running # "idle", StringInv, memcpy, UNCHANGED <<before, call>> PROVE StringInv'
<1> DEFINE dst == call.dst  src == call.src  n == call.n
<1>1. CallOK /\ call.f = "memcpy" /\ CopyingUpTo(n) /\ running = "memcpy"
  BY DEF memcpy, StringInv, LoopOK
<1>2. /\ Bytes(dst, n) /\ Bytes(src, n) /\ Apart(dst, n, src, n)
      /\ memory \in [0 .. LAST -> Char] /\ before \in [0 .. LAST -> Char]
      /\ dst \in Nat /\ src \in Nat /\ n \in Nat
  BY <1>1 DEF CallOK, LegalCall
<1>3. /\ dp = dst /\ sp = src /\ left = n /\ cnt \in 0 .. n /\ Copied(memory, before, dst, src, cnt)
  BY <1>1 DEF CopyingUpTo
<1>4. CASE cnt < left
  <2> DEFINE m2 == Stored(memory, dst + cnt, before[src + cnt])
  <2>1. CopyingOf(memory, before, dst, src, n, cnt)
    BY <1>2, <1>3, <1>4 DEF CopyingOf, Bytes
  <2>2. /\ memory[src + cnt] = before[src + cnt] /\ m2 \in [0 .. LAST -> Char]
        /\ Copied(m2, before, dst, src, cnt + 1)
    BY <2>1, CopyTurn
  <2>3. memory' = m2 /\ cnt' = cnt + 1 /\ UNCHANGED <<running, dp, sp, left>>
    BY <1>3, <1>4, <2>2 DEF memcpy, Stored
  <2> HIDE DEF m2
  <2>4. CopyingUpTo(n)'
    BY <1>2, <1>3, <1>4, <2>2, <2>3 DEF CopyingUpTo
  <2>5. CallOK'
    BY <1>1, <2>2, <2>3, CallStays
  <2>6. QED BY <1>1, <2>3, <2>4, <2>5 DEF StringInv, LoopOK, StringsAgree
<1>5. CASE ~ (cnt < left)
  <2>1. running' = "done" /\ memory' = memory
    BY <1>5 DEF memcpy, result
  <2>2. cnt = n
    BY <1>2, <1>3, <1>5
  <2>3. CallOK'
    BY <1>1, <1>2, <2>1, CallStays
  <2>4. StringsAgree'
    BY <1>1, <1>3, <2>1, <2>2 DEF StringsAgree
  <2>5. QED BY <2>1, <2>3, <2>4 DEF StringInv, LoopOK
<1>6. QED BY <1>4, <1>5

LEMMA MemsetStep == ASSUME running # "idle", StringInv, memset, UNCHANGED <<before, call>> PROVE StringInv'
<1> DEFINE dst == call.dst  n == call.n  c == call.c % 256
<1>1. CallOK /\ call.f = "memset" /\ Filling /\ running = "memset"
  BY DEF memset, StringInv, LoopOK
<1>2. /\ Bytes(dst, n) /\ memory \in [0 .. LAST -> Char] /\ before \in [0 .. LAST -> Char]
      /\ dst \in Nat /\ n \in Nat /\ LAST \in Nat
  BY <1>1, StringAssumption DEF CallOK, LegalCall
<1>3. c \in Char
  <2>1. call.c \in Int
    BY <1>1 DEF CallOK
  <2>2. QED BY <2>1, SMT DEF Char
<1>4. dp = dst /\ left \in 0 .. n /\ Filled(left)
  BY <1>1 DEF Filling
<1> HIDE DEF c
<1>5. CASE left # 0
  <2>1. /\ memory' = [memory EXCEPT ![dst + (left - 1)] = c] /\ left' = left - 1
        /\ UNCHANGED <<running, dp>>
    BY <1>4, <1>5 DEF memset, c
  <2>2. dst + (left - 1) \in 0 .. LAST
    BY <1>2, <1>4, <1>5 DEF Bytes
  <2>3. memory' \in [0 .. LAST -> Char]
    BY <1>2, <1>3, <2>1
  <2>4. ASSUME NEW x \in 0 .. LAST
        PROVE  memory'[x] = IF x \in dst + (left - 1) .. (dst + n) - 1 THEN c ELSE before[x]
    <3>1. memory[x] = IF x \in dst + left .. (dst + n) - 1 THEN c ELSE before[x]
      BY <1>4 DEF Filled, c
    <3>2. CASE x = dst + (left - 1)
      BY <1>2, <1>4, <1>5, <2>1, <2>2, <3>2
    <3>3. CASE x # dst + (left - 1)
      <4>1. memory'[x] = memory[x]
        BY <1>2, <2>1, <3>3
      <4>2. x \in dst + (left - 1) .. (dst + n) - 1 <=> x \in dst + left .. (dst + n) - 1
        <5>1. dst \in Int /\ left \in Int /\ n \in Int /\ x \in Int
          BY <1>2, <1>4, StringAssumption
        <5>2. QED BY <3>3, <5>1
      <4>3. QED BY <3>1, <4>1, <4>2
    <3>4. QED BY <3>2, <3>3
  <2>5. Filled(left)'
    BY <2>1, <2>4 DEF Filled, c
  <2>6. Filling'
    BY <1>2, <1>4, <1>5, <2>1, <2>5 DEF Filling
  <2>7. CallOK'
    BY <1>1, <2>3, CallStays
  <2>8. QED BY <1>1, <2>1, <2>6, <2>7 DEF StringInv, LoopOK, StringsAgree
<1>6. CASE left = 0
  <2>1. running' = "done" /\ memory' = memory /\ ret' = dst
    BY <1>6 DEF memset, result
  <2>2. CallOK'
    BY <1>1, <1>2, <2>1, CallStays
  <2>3. dst + left = dst
    BY <1>2, <1>6
  <2>4. StringsAgree'
    BY <1>1, <1>4, <2>1, <2>3 DEF StringsAgree, Filled
  <2>5. QED BY <2>1, <2>2, <2>4 DEF StringInv, LoopOK
<1>7. QED BY <1>5, <1>6

(* Two strings that are alike so far have not ended, neither of them. *)
LEMMA Alike ==
  ASSUME CallOK, call.f \in {"strcmp", "strncmp"},
         NEW k \in 0 .. strlenOf(before, call.dst), Equal(k)
  PROVE  /\ AlikeUpTo(before, call.dst, call.src, k)
         /\ strlenOf(before, call.dst) \in Nat
         /\ before[call.dst + k] = NUL <=> k = strlenOf(before, call.dst)
<1> DEFINE ld == strlenOf(before, call.dst)  ls == strlenOf(before, call.src)
<1>1. /\ before \in [0 .. LAST -> Char] /\ LAST \in Nat
      /\ call.src \in Strings(before) /\ call.dst \in Strings(before)
  BY StringAssumption DEF CallOK, LegalCall
<1>2. /\ call.dst \in Nat /\ ld \in Nat /\ call.dst + ld <= LAST /\ before[call.dst + ld] = NUL
      /\ \A j \in 0 .. ld - 1 : before[call.dst + j] # NUL
  BY <1>1, StringLength
<1>3. /\ call.src \in Nat /\ ls \in Nat /\ call.src + ls <= LAST /\ before[call.src + ls] = NUL
  BY <1>1, StringLength
<1> HIDE DEF ld, ls
<1>4. k \in 0 .. ld /\ \A j \in 0 .. k - 1 : before[call.dst + j] = before[call.src + j]
  BY DEF Equal, ld
<1>5. k <= ls
  <2> SUFFICES ASSUME ls < k PROVE FALSE
    BY <1>2, <1>3, <1>4
  <2>1. ls \in 0 .. k - 1 /\ ls \in 0 .. ld - 1
    BY <1>2, <1>3, <1>4
  <2>2. QED BY <1>2, <1>3, <1>4, <2>1
<1>6. before[call.dst + k] = NUL <=> k = ld
  BY <1>2, <1>4
<1>7. AlikeUpTo(before, call.dst, call.src, k)
  BY <1>1, <1>2, <1>3, <1>4, <1>5 DEF AlikeUpTo
<1>8. QED BY <1>2, <1>6, <1>7 DEF ld

(* The next character is alike, too. *)
LEMMA OneMoreAlike ==
  ASSUME NEW k \in Nat, Equal(k), before[call.dst + k] = before[call.src + k],
         call.dst \in Nat, call.src \in Nat,
         UNCHANGED <<memory, before, call>>, dp' = dp + 1, sp' = sp + 1
  PROVE  Equal(k + 1)'
<1>1. dp' = call.dst' + (k + 1) /\ sp' = call.src' + (k + 1) /\ memory' = before'
  BY DEF Equal
<1>2. \A j \in 0 .. (k + 1) - 1 : before'[call.dst' + j] = before'[call.src' + j]
  BY DEF Equal
<1>3. QED BY <1>1, <1>2 DEF Equal

LEMMA StrcmpStep == ASSUME running # "idle", StringInv, strcmp, UNCHANGED <<before, call>> PROVE StringInv'
<1> DEFINE ld == strlenOf(before, call.dst)  x(k) == before[call.dst + k]  y(k) == before[call.src + k]
<1>1. CallOK /\ call.f = "strcmp" /\ running = "strcmp" /\ memory' = memory
  BY DEF strcmp, StringInv, LoopOK
<1>2. PICK k \in 0 .. ld : Equal(k)
  BY <1>1 DEF StringInv, LoopOK
<1>3. AlikeUpTo(before, call.dst, call.src, k) /\ ld \in Nat /\ (x(k) = NUL <=> k = ld)
  BY <1>1, <1>2, Alike
<1> HIDE DEF ld
<1>4. /\ memory = before /\ dp = call.dst + k /\ sp = call.src + k
  BY <1>2 DEF Equal
<1>5. x(k) \in Char /\ y(k) \in Char /\ k \in Nat
  BY <1>3, StringAssumption DEF AlikeUpTo
<1>6. char(x(k)) - char(y(k)) = 0 <=> x(k) = y(k)
  BY <1>5, CharDifference
<1>7. CallOK'
  BY <1>1, CallStays DEF CallOK
<1>8. CASE x(k) # NUL /\ x(k) = y(k)
  <2>1. dp' = dp + 1 /\ sp' = sp + 1 /\ running' = running
    BY <1>4, <1>6, <1>8 DEF strcmp
  <2>2. Equal(k + 1)' /\ k + 1 \in 0 .. ld
    BY <1>1, <1>2, <1>3, <1>5, <1>8, <2>1, OneMoreAlike DEF AlikeUpTo
  <2>3. QED BY <1>1, <1>7, <2>1, <2>2 DEF StringInv, LoopOK, StringsAgree, ld
<1>9. CASE ~ (x(k) # NUL /\ x(k) = y(k))
  <2>1. running' = "done" /\ ret' = char(x(k)) - char(y(k))
    BY <1>4, <1>6, <1>9 DEF strcmp, result
  <2>2. k < ld + 1 /\ (x(k) = y(k) => k = (ld + 1) - 1) /\ ld + 1 \in Nat
    BY <1>2, <1>3, <1>9
  <2>3. Comparison(before, call.dst, call.src, ld + 1, CharSigned, char(x(k)) - char(y(k)))
    <3>1. /\ char(x(k)) - char(y(k)) \in Int
          /\ Ordered(CharSigned, x(k), y(k), char(x(k)) - char(y(k)))
      BY <1>5, CharDifference
    <3>2. QED BY <1>3, <1>6, <2>2, <3>1, Verdict
  <2>4. StringsAgree'
    BY <1>1, <1>4, <2>1, <2>3 DEF StringsAgree, ld
  <2>5. QED BY <1>7, <2>1, <2>4 DEF StringInv, LoopOK
<1>10. QED BY <1>8, <1>9

LEMMA StrncmpStep == ASSUME running # "idle", StringInv, strncmp, UNCHANGED <<before, call>> PROVE StringInv'
<1> DEFINE ld == strlenOf(before, call.dst)  x(k) == before[call.dst + k]  y(k) == before[call.src + k]
           n == call.n
<1>1. CallOK /\ call.f = "strncmp" /\ running = "strncmp" /\ memory' = memory
  BY DEF strncmp, StringInv, LoopOK
<1>2. PICK k \in 0 .. ld : Equal(k) /\ left >= 1 /\ left = n - k
  BY <1>1 DEF StringInv, LoopOK
<1>3. AlikeUpTo(before, call.dst, call.src, k) /\ ld \in Nat /\ (x(k) = NUL <=> k = ld)
  BY <1>1, <1>2, Alike
<1> HIDE DEF ld
<1>4. memory = before /\ dp = call.dst + k /\ sp = call.src + k
  BY <1>2 DEF Equal
<1>5. x(k) \in Char /\ y(k) \in Char /\ k \in Nat /\ n \in Nat
  BY <1>1, <1>3, StringAssumption DEF AlikeUpTo, CallOK
<1>6. char(x(k)) - char(y(k)) = 0 <=> x(k) = y(k)
  BY <1>5, CharDifference
<1>7. CallOK'
  BY <1>1, CallStays DEF CallOK
<1>8. CASE left > 1 /\ x(k) # NUL /\ x(k) = y(k)
  <2>1. dp' = dp + 1 /\ sp' = sp + 1 /\ running' = running /\ left' = left - 1
    BY <1>4, <1>6, <1>8 DEF strncmp, goes_on
  <2>2. Equal(k + 1)' /\ k + 1 \in 0 .. ld
    BY <1>1, <1>2, <1>3, <1>5, <1>8, <2>1, OneMoreAlike DEF AlikeUpTo
  <2>3. left' >= 1 /\ left' = n - (k + 1)
    BY <1>2, <1>5, <1>8, <2>1
  <2>4. QED BY <1>1, <1>7, <2>1, <2>2, <2>3 DEF StringInv, LoopOK, StringsAgree, ld
<1>9. CASE ~ (left > 1 /\ x(k) # NUL /\ x(k) = y(k))
  <2> DEFINE bound == Lesser(n, ld + 1)
  <2>1. running' = "done" /\ ret' = char(x(k)) - char(y(k))
    BY <1>4, <1>6, <1>9 DEF strncmp, goes_on, result
  <2>2. k < bound /\ bound \in Nat
    BY <1>2, <1>3, <1>5 DEF Lesser
  <2>3. x(k) = y(k) => k = bound - 1
    <3>1. CASE left = 1
      BY <1>2, <1>3, <1>5, <3>1 DEF Lesser
    <3>2. CASE x(k) = NUL
      BY <1>2, <1>3, <1>5, <3>2 DEF Lesser
    <3>3. CASE x(k) # y(k)
      BY <3>3
    <3>4. QED BY <1>2, <1>5, <1>9, <3>1, <3>2, <3>3
  <2> HIDE DEF bound
  <2>4. Comparison(before, call.dst, call.src, bound, CharSigned, char(x(k)) - char(y(k)))
    <3>1. /\ char(x(k)) - char(y(k)) \in Int
          /\ Ordered(CharSigned, x(k), y(k), char(x(k)) - char(y(k)))
      BY <1>5, CharDifference
    <3>2. QED BY <1>3, <1>6, <2>2, <2>3, <3>1, Verdict
  <2>5. StringsAgree'
    BY <1>1, <1>4, <2>1, <2>4 DEF StringsAgree, ld, bound
  <2>6. QED BY <1>7, <2>1, <2>5 DEF StringInv, LoopOK
<1>10. QED BY <1>8, <1>9

LEMMA MemcmpStep == ASSUME running # "idle", StringInv, memcmp, UNCHANGED <<before, call>> PROVE StringInv'
<1> DEFINE x(k) == before[call.dst + k]  y(k) == before[call.src + k]  n == call.n
<1>1. CallOK /\ call.f = "memcmp" /\ running = "memcmp" /\ memory' = memory
  BY DEF memcmp, StringInv, LoopOK
<1>2. PICK k \in 0 .. n - 1 : Equal(k) /\ left = n - k
  BY <1>1 DEF StringInv, LoopOK
<1>3. /\ call.dst \in Nat /\ call.src \in Nat /\ n \in Nat /\ LAST \in Nat
      /\ Bytes(call.dst, n) /\ Bytes(call.src, n) /\ before \in [0 .. LAST -> Char]
  BY <1>1, StringAssumption DEF CallOK, LegalCall
<1>4. memory = before /\ dp = call.dst + k /\ sp = call.src + k
  BY <1>2 DEF Equal
<1>5. AlikeUpTo(before, call.dst, call.src, k)
  <2>1. k \in Nat /\ call.dst + k <= LAST /\ call.src + k <= LAST
    <3>1. call.dst + n <= LAST + 1 /\ call.src + n <= LAST + 1
      BY <1>3 DEF Bytes
    <3>2. k \in Nat /\ k <= n - 1
      BY <1>2, <1>3
    <3> HIDE DEF n
    <3>3. QED BY <1>3, <3>1, <3>2
  <2>2. \A j \in 0 .. k - 1 : before[call.dst + j] = before[call.src + j]
    BY <1>2 DEF Equal
  <2>3. QED BY <1>3, <2>1, <2>2 DEF AlikeUpTo
<1>6. x(k) \in Char /\ y(k) \in Char /\ k \in Nat
  BY <1>3, <1>5 DEF AlikeUpTo
<1>7. /\ x(k) - y(k) \in Int /\ (x(k) - y(k) = 0 <=> x(k) = y(k))
      /\ Ordered(FALSE, x(k), y(k), x(k) - y(k))
  <2>1. x(k) \in Int /\ y(k) \in Int
    BY <1>6 DEF Char
  <2>2. QED BY <2>1 DEF Ordered
<1>8. CallOK'
  BY <1>1, CallStays DEF CallOK
<1>9. CASE left > 1 /\ x(k) = y(k)
  <2>1. dp' = dp + 1 /\ sp' = sp + 1 /\ running' = running /\ left' = left - 1
    BY <1>4, <1>7, <1>9 DEF memcmp
  <2>2. Equal(k + 1)'
    BY <1>1, <1>2, <1>3, <1>6, <1>9, <2>1, OneMoreAlike
  <2>3. k + 1 \in 0 .. n - 1 /\ left' = n - (k + 1)
    BY <1>2, <1>3, <1>9, <2>1
  <2>4. QED BY <1>1, <1>8, <2>1, <2>2, <2>3 DEF StringInv, LoopOK, StringsAgree
<1>10. CASE ~ (left > 1 /\ x(k) = y(k))
  <2>1. running' = "done" /\ ret' = x(k) - y(k)
    BY <1>4, <1>7, <1>10 DEF memcmp, result
  <2>2. k < n /\ (x(k) = y(k) => k = n - 1)
    BY <1>2, <1>3, <1>10
  <2>3. Comparison(before, call.dst, call.src, n, FALSE, x(k) - y(k))
    BY <1>3, <1>5, <1>7, <2>2, Verdict
  <2>4. StringsAgree'
    BY <1>1, <1>4, <2>1, <2>3 DEF StringsAgree
  <2>5. QED BY <1>8, <2>1, <2>4 DEF StringInv, LoopOK
<1>11. QED BY <1>9, <1>10

(* A call begins with its loop at the first character, or is over at once. *)
LEMMA StartStep ==
  ASSUME NEW m \in Memories, NEW c \in Calls, start(m, c)
  PROVE  StringInv'
<1> DEFINE ls == strlenOf(m, c.src)  ld == strlenOf(m, c.dst)
<1>1. /\ m \in [0 .. LAST -> Char]
      /\ c \in [f : Functions, dst : Nat, src : Nat, n : Nat, c : Int] /\ LegalCall(m, c)
  BY StringAssumption DEF start
<1>2. /\ memory' = m /\ before' = m /\ call' = c
      /\ cnt' = 0 /\ dp' = c.dst /\ sp' = c.src /\ left' = c.n /\ ret' = 0
  BY DEF start
<1>3. CallOK'
  BY <1>1, <1>2 DEF CallOK
<1>4. c.dst \in Nat /\ c.src \in Nat /\ c.n \in Nat /\ c.f \in Functions
  BY <1>1
<1>5. /\ c.src \in Strings(m) => ls \in Nat
      /\ c.dst \in Strings(m) => ld \in Nat
  BY <1>1, StringLength
<1> HIDE DEF ls, ld
<1>6. \A a \in Nat, b \in Nat : Copied(m, m, a, b, 0)
  BY DEF Copied
<1>7. Equal(0)'
  BY <1>2, <1>4 DEF Equal
<1>8. CASE c.f = "strlen"
  <2>1. running' = "strlen" /\ c.src \in Strings(m)
    BY <1>1, <1>8 DEF start, LegalCall
  <2>2. Counting'
    BY <1>2, <1>5, <2>1 DEF Counting, ls
  <2>3. QED BY <1>2, <1>3, <1>8, <2>1, <2>2 DEF StringInv, LoopOK, StringsAgree
<1>9. CASE c.f = "strcpy"
  <2>1. running' = "copy" /\ c.src \in Strings(m)
    BY <1>1, <1>9 DEF start, LegalCall
  <2>2. Target' = c.dst
    BY <1>2, <1>9 DEF Target
  <2>3. /\ dp' = Target' + 0 /\ sp' = call'.src + 0 /\ 0 \in 0 .. strlenOf(before', call'.src)
        /\ Copied(memory', before', Target', call'.src, 0)
    BY <1>2, <1>4, <1>5, <1>6, <2>1, <2>2 DEF ls
  <2>4. Copying'
    BY <2>3 DEF Copying
  <2>5. QED BY <1>2, <1>3, <1>9, <2>1, <2>4 DEF StringInv, LoopOK, StringsAgree
<1>10. CASE c.f = "strcat"
  <2>1. running' = "find" /\ c.dst \in Strings(m)
    BY <1>1, <1>10 DEF start, LegalCall
  <2>2. dp' = call'.dst + 0 /\ 0 \in 0 .. strlenOf(before', call'.dst)
    BY <1>2, <1>4, <1>5, <2>1 DEF ld
  <2>3. Finding'
    BY <1>2, <2>2 DEF Finding
  <2>4. QED BY <1>2, <1>3, <1>10, <2>1, <2>3 DEF StringInv, LoopOK, StringsAgree
<1>11. CASE c.f = "strncpy"
  <2>1. running' = "strncpy" /\ c.src \in Strings(m)
    BY <1>1, <1>11 DEF start, LegalCall
  <2>2. 0 \in 0 .. Lesser(c.n, ls)
    BY <1>4, <1>5, <2>1 DEF Lesser
  <2>3. CopyingUpTo(Lesser(call.n, strlenOf(before, call.src)))'
    BY <1>2, <1>4, <1>6, <2>2 DEF CopyingUpTo, ls
  <2>4. QED BY <1>2, <1>3, <1>11, <2>1, <2>3 DEF StringInv, LoopOK, StringsAgree
<1>12. CASE c.f = "memcpy"
  <2>1. running' = "memcpy"
    BY <1>12 DEF start
  <2>2. CopyingUpTo(call.n)'
    BY <1>2, <1>4, <1>6 DEF CopyingUpTo
  <2>3. QED BY <1>2, <1>3, <1>12, <2>1, <2>2 DEF StringInv, LoopOK, StringsAgree
<1>13. CASE c.f = "memset"
  <2>1. running' = "memset"
    BY <1>13 DEF start
  <2>2. \A x \in 0 .. LAST : x \notin c.dst + c.n .. (c.dst + c.n) - 1
    BY <1>4
  <2>3. Filled(left)'
    BY <1>2, <2>2 DEF Filled
  <2>4. Filling'
    BY <1>2, <1>4, <2>3 DEF Filling
  <2>5. QED BY <1>2, <1>3, <1>13, <2>1, <2>4 DEF StringInv, LoopOK, StringsAgree
<1>14. CASE c.f = "strcmp"
  <2>1. running' = "strcmp" /\ c.dst \in Strings(m)
    BY <1>1, <1>14 DEF start, LegalCall
  <2>2. 0 \in 0 .. strlenOf(before', call'.dst)
    BY <1>2, <1>5, <2>1 DEF ld
  <2>3. QED BY <1>2, <1>3, <1>7, <1>14, <2>1, <2>2 DEF StringInv, LoopOK, StringsAgree
<1>15. CASE c.f = "strncmp"
  <2>1. c.dst \in Strings(m)
    BY <1>1, <1>15 DEF LegalCall
  <2>2. 0 \in 0 .. strlenOf(before', call'.dst)
    BY <1>2, <1>5, <2>1 DEF ld
  <2>3. CASE c.n = 0
    <3>1. running' = "done"
      BY <1>15, <2>3 DEF start
    <3>2. Lesser(c.n, ld + 1) = 0
      BY <1>5, <2>1, <2>3 DEF Lesser
    <3>3. Comparison(m, c.dst, c.src, 0, CharSigned, 0)
      BY DEF Comparison
    <3>4. StringsAgree'
      BY <1>2, <1>15, <3>1, <3>2, <3>3 DEF StringsAgree, ld
    <3>5. QED BY <1>3, <3>1, <3>4 DEF StringInv, LoopOK
  <2>4. CASE c.n # 0
    <3>1. running' = "strncmp"
      BY <1>15, <2>4 DEF start
    <3>2. left' >= 1 /\ left' = call'.n - 0
      BY <1>2, <1>4, <2>4
    <3>3. QED BY <1>2, <1>3, <1>7, <1>15, <2>2, <3>1, <3>2 DEF StringInv, LoopOK, StringsAgree
  <2>5. QED BY <2>3, <2>4
<1>16. CASE c.f = "memcmp"
  <2>1. CASE c.n = 0
    <3>1. running' = "done"
      BY <1>16, <2>1 DEF start
    <3>2. Comparison(m, c.dst, c.src, 0, FALSE, 0)
      BY DEF Comparison
    <3>3. StringsAgree'
      BY <1>2, <1>16, <2>1, <3>1, <3>2 DEF StringsAgree
    <3>4. QED BY <1>3, <3>1, <3>3 DEF StringInv, LoopOK
  <2>2. CASE c.n # 0
    <3>1. running' = "memcmp"
      BY <1>16, <2>2 DEF start
    <3>2. 0 \in 0 .. call'.n - 1 /\ left' = call'.n - 0
      BY <1>2, <1>4, <2>2
    <3>3. QED BY <1>2, <1>3, <1>7, <1>16, <3>1, <3>2 DEF StringInv, LoopOK, StringsAgree
  <2>3. QED BY <2>1, <2>2
<1>17. QED
  BY <1>4, <1>8, <1>9, <1>10, <1>11, <1>12, <1>13, <1>14, <1>15, <1>16 DEF Functions

(* Whatever memory holds, and wherever the strings are in it: a legal call *)
(* of a function of string.c is always in a state of its loop that the     *)
(* call and what memory held say.                                          *)
THEOREM StringInvariant == StringSpec => []StringInv
<1>1. StringInit => StringInv
  BY DEF StringInit, StringInv
<1>2. StringInv /\ [StringNext]_stringvars => StringInv'
  <2> SUFFICES ASSUME StringInv, [StringNext]_stringvars PROVE StringInv'
    OBVIOUS
  <2>1. CASE UNCHANGED stringvars
    <3>1. CallOK => CallOK'
      BY <2>1 DEF stringvars, CallOK, LegalCall
    <3>2. LoopOK => LoopOK'
      BY <2>1 DEF stringvars, LoopOK, Counting, Copying, Finding, CopyingUpTo, Equal, Filling, Filled, Target, StringsAgree
    <3>3. QED BY <2>1, <3>1, <3>2 DEF stringvars, StringInv
  <2>2. ASSUME NEW m \in Memories, NEW c \in Calls, start(m, c) PROVE StringInv'
    BY <2>2, StartStep
  <2>3. CASE pass
    <3>1. UNCHANGED <<before, call>>
      BY <2>3 DEF pass
    <3>2. running # "idle"
      BY <2>3 DEF pass, strlen, copy, strcat_find, strncpy, strcmp, strncmp, memset, memcpy, memcmp
    <3>3. QED
      BY <2>3, <3>1, <3>2, StrlenStep, CopyLoop, FindStep, StrncpyStep, StrcmpStep, StrncmpStep,
         MemsetStep, MemcpyStep, MemcmpStep DEF pass
  <2>4. QED BY <2>1, <2>2, <2>3 DEF StringNext
<1>3. QED BY <1>1, <1>2, PTL DEF StringSpec

(* So that what is there when it returns is what C asks for: no byte but   *)
(* the result's has changed, and a comparison tells the order of the first *)
(* difference as C does, unsigned; where char is signed, a character below *)
(* 128 against one from there on is told to differ, with the order open.   *)
THEOREM StringsAgreeHolds == StringSpec => []StringsAgree
<1>1. StringInv => StringsAgree
  BY DEF StringInv, LoopOK, StringsAgree
<1>2. QED BY <1>1, StringInvariant, PTL

(* Where char is unsigned, as on riscv, strcmp does what its comment says:  *)
(* the longer of two strings that begin alike is the greater.              *)
THEOREM LongerIsGreaterHolds ==
  ASSUME ~ CharSigned
  PROVE  StringSpec => []LongerIsGreater
<1> DEFINE l1 == strlenOf(before, call.dst)  l2 == strlenOf(before, call.src)  j == Lesser(l1, l2)
           x == before[call.dst + j]  y == before[call.src + j]
<1>1. ASSUME StringInv, running = "done", call.f = "strcmp", l1 # l2,
             \A h \in 0 .. j - 1 : before[call.dst + h] = before[call.src + h]
      PROVE  IF l1 > l2 THEN ret > 0 ELSE ret < 0
  <2>1. /\ before \in [0 .. LAST -> Char] /\ LAST \in Nat
        /\ call.dst \in Strings(before) /\ call.src \in Strings(before)
    BY <1>1, StringAssumption DEF StringInv, CallOK, LegalCall
  <2>2. /\ call.dst \in Nat /\ l1 \in Nat /\ call.dst + l1 <= LAST /\ before[call.dst + l1] = NUL
        /\ \A h \in 0 .. l1 - 1 : before[call.dst + h] # NUL
    BY <2>1, StringLength
  <2>3. /\ call.src \in Nat /\ l2 \in Nat /\ call.src + l2 <= LAST /\ before[call.src + l2] = NUL
        /\ \A h \in 0 .. l2 - 1 : before[call.src + h] # NUL
    BY <2>1, StringLength
  <2>4. Comparison(before, call.dst, call.src, l1 + 1, CharSigned, ret)
    BY <1>1 DEF StringInv, LoopOK, StringsAgree
  <2> HIDE DEF l1, l2
  <2>5. /\ j \in 0 .. (l1 + 1) - 1 /\ j <= l2
        /\ l1 > l2 => x # NUL /\ y = NUL
        /\ ~ (l1 > l2) => x = NUL /\ y # NUL
    BY <1>1, <2>2, <2>3 DEF Lesser
  <2>6. x \in Char /\ y \in Char
    BY <2>1, <2>2, <2>3, <2>5
  <2> HIDE DEF j
  <2>7. x # y /\ \A h \in 0 .. j - 1 : before[call.dst + h] = before[call.src + h]
    BY <1>1, <2>5
  <2>8. ret \in Int /\ ret # 0 /\ Ordered(CharSigned, x, y, ret)
    BY <2>4, <2>5, <2>7 DEF Comparison
  <2> HIDE DEF x, y
  <2>9. QED BY <2>5, <2>6, <2>8 DEF Ordered, Char, NUL
<1>2. StringInv => LongerIsGreater
  BY <1>1 DEF LongerIsGreater
<1>3. QED BY <1>2, StringInvariant, PTL
=============================================================================

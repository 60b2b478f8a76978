----------------------------- MODULE IsaProofs ------------------------------
(***************************************************************************)
(* Theorems about Isa, for words of every width and every instruction:     *)
(* what an iteration of cpu_exec leaves are words, the program counter     *)
(* stays aligned but for a jalr, loads, stores and CSR instructions do     *)
(* what the architecture says, and so do the computations.                 *)
(***************************************************************************)
EXTENDS Isa, FiniteSetTheorems, TLAPS

-----------------------------------------------------------------------------
\* Arithmetic on residues.

\* Adding a multiple of the modulus changes no residue.
LEMMA ResidueShift == ASSUME NEW d \in Nat \ {0}, NEW x \in Int, NEW k \in Int
                      PROVE  (x + k * d) % d = x % d
<1> DEFINE r == x % d
           q == x \div d
<1>1. r \in 0 .. d - 1 /\ q \in Int /\ x = q * d + r
  OBVIOUS
<1> HIDE DEF r, q
<1>2. x + k * d = r + (q + k) * d
  BY <1>1
<1>3. ASSUME NEW m \in Int PROVE (r + m * d) % d = r
  BY <1>1
<1>4. (x + k * d) % d = r
  BY <1>1, <1>2, <1>3
<1> QED
  BY <1>4 DEF r

\* A residue may be taken of a summand first.
LEMMA ResidueOfSum == ASSUME NEW d \in Nat \ {0}, NEW a \in Int, NEW x \in Int
                      PROVE  (a + (x % d)) % d = (a + x) % d
<1> DEFINE r == x % d
           q == x \div d
<1>1. r \in Int /\ q \in Int /\ x = q * d + r
  OBVIOUS
<1> HIDE DEF r, q
<1> DEFINE y == a + r
<1>2. y \in Int /\ y + q * d = a + x
  BY <1>1
<1> HIDE DEF y
<1>3. (y + q * d) % d = y % d
  BY <1>1, <1>2, ResidueShift
<1> QED
  BY <1>2, <1>3 DEF r, y

\* A number keeps its residue modulo a divisor of the modulus.
LEMMA ResidueOfResidue == ASSUME NEW d \in Nat \ {0}, NEW k \in Nat \ {0}, NEW x \in Int
                          PROVE  (x % (k * d)) % d = x % d
<1> DEFINE m == k * d
           r == x % m
           q == x \div m
<1>1. m \in Nat \ {0}
  OBVIOUS
<1> HIDE DEF m
<1>2. r \in Int /\ q \in Int /\ x = q * m + r
  BY <1>1
<1> HIDE DEF r, q
<1>3. q * k \in Int /\ q * m = (q * k) * d
  BY <1>2 DEF m
<1>4. x = r + (q * k) * d
  BY <1>1, <1>2, <1>3
<1>5. (r + (q * k) * d) % d = r % d
  BY <1>2, <1>3, ResidueShift
<1>6. r % d = x % d
  BY <1>4, <1>5
<1> QED
  BY <1>6 DEF r, m

\* A multiple of a divisor of the modulus stays one.
LEMMA DivisorKept == ASSUME NEW d \in Nat \ {0}, NEW k \in Nat \ {0}, NEW x \in Int,
                            x % d = 0
                     PROVE  (x % (k * d)) % d = 0
  BY ResidueOfResidue

-----------------------------------------------------------------------------
\* Induction, on sets of numbers.

\* A set of numbers has a least one.
LEMMA Least == ASSUME NEW T, T \subseteq Nat, T # {}
               PROVE  \E m \in T : \A k \in T : ~(k < m)
<1>1. PICK m \in T : \A k \in T : <<k, m>> \notin OpToRel(<, Nat)
  BY WFMin, NatLessThanWellFounded, Zenon
<1>2. \A k \in T : ~(k < m)
  BY <1>1, Zenon DEF OpToRel
<1> QED
  BY <1>2, Zenon

\* What holds of 0, and of n + 1 if it does of n, holds of every number.
LEMMA Induction == ASSUME NEW S, S \subseteq Nat, 0 \in S, \A n \in S : n + 1 \in S
                   PROVE  S = Nat
<1> DEFINE rest == Nat \ S
<1> SUFFICES ASSUME rest # {} PROVE FALSE
  OBVIOUS
<1>1. PICK m \in rest : \A k \in rest : ~(k < m)
  BY Least, Zenon
<1>2. m - 1 \in S /\ m \in Nat
  BY <1>1
<1> QED
  BY <1>1, <1>2

-----------------------------------------------------------------------------
\* The powers of two.

\* A set of n elements has 2^n subsets, which makes the laws of exponents laws of
\* counting: the library knows those, and the provers nothing of exponents.
LEMMA Counting == ASSUME NEW n \in Nat
                  PROVE  IsFiniteSet(SUBSET (1 .. n)) /\ Cardinality(SUBSET (1 .. n)) = 2^n
<1>1. IsFiniteSet(1 .. n) /\ Cardinality(1 .. n) = n
  BY FS_Interval
<1> QED
  BY <1>1, FS_SUBSET, Zenon

LEMMA Exponents == 2^0 = 1 /\ \A n \in Nat : 2^n \in Nat /\ 2^(n + 1) = 2 * (2^n)
<1>1. 2^0 = 1
  <2>1. SUBSET (1 .. 0) = {{}}
    OBVIOUS
  <2>2. Cardinality(SUBSET (1 .. 0)) = 2^0
    BY Counting, Zenon, 0 \in Nat
  <2> QED
    BY <2>1, <2>2, FS_Singleton, Zenon
<1>2. ASSUME NEW n \in Nat PROVE 2^n \in Nat /\ 2^(n + 1) = 2 * (2^n)
  <2> DEFINE Without == SUBSET (1 .. n)
             Having == {T \in SUBSET (1 .. n + 1) : n + 1 \in T}
             f == [T \in Without |-> T \cup {n + 1}]
  <2>1. IsFiniteSet(Without) /\ Cardinality(Without) = 2^n
    BY Counting, Zenon
  <2>2. Cardinality(SUBSET (1 .. n + 1)) = 2^(n + 1)
    <3>1. n + 1 \in Nat
      OBVIOUS
    <3> QED
      BY <3>1, Counting, Zenon
  <2>3. SUBSET (1 .. n + 1) = Without \cup Having /\ Without \cap Having = {}
    OBVIOUS
  <2>4. f \in Bijection(Without, Having)
    <3>1. f \in [Without -> Having]
      OBVIOUS
    <3>2. ASSUME NEW T \in Without, NEW U \in Without, f[T] = f[U] PROVE T = U
      <4>1. n + 1 \notin T /\ n + 1 \notin U
        OBVIOUS
      <4>2. T \cup {n + 1} = U \cup {n + 1}
        BY <3>2
      <4> QED
        BY <4>1, <4>2
    <3>3. ASSUME NEW U \in Having PROVE \E T \in Without : f[T] = U
      <4>1. U \ {n + 1} \in Without /\ (U \ {n + 1}) \cup {n + 1} = U
        OBVIOUS
      <4> QED
        BY <4>1
    <3> HIDE DEF Without, Having, f
    <3> QED
      BY <3>1, <3>2, <3>3, Zenon DEF Bijection, Injection, Surjection, IsInjective
  <2> HIDE DEF Without, Having, f
  <2>5. IsFiniteSet(Having) /\ Cardinality(Having) = 2^n
    BY <2>1, <2>4, FS_Bijection, Zenon DEF ExistsBijection
  <2> DEFINE k == Cardinality(Without)
  <2>6. k \in Nat
    BY <2>1, FS_CardinalityType
  <2>7. Cardinality(Without \cup Having) = k + k - 0
    <3>1. Cardinality(Without \cup Having)
             = Cardinality(Without) + Cardinality(Having) - Cardinality(Without \cap Having)
      BY <2>1, <2>5, FS_Union, Zenon
    <3>2. Cardinality(Without \cap Having) = 0 /\ Cardinality(Having) = Cardinality(Without)
      BY <2>1, <2>3, <2>5, FS_EmptySet, Zenon
    <3> QED
      BY <3>1, <3>2, Zenon
  <2>8. k = 2^n /\ Cardinality(Without \cup Having) = 2^(n + 1)
    BY <2>1, <2>2, <2>3, Zenon
  <2> HIDE DEF k
  <2>9. k + k - 0 = 2 * k
    BY <2>6
  <2> QED
    BY <2>6, <2>7, <2>8, <2>9, Zenon
<1> QED
  BY <1>1, <1>2, Zenon

LEMMA ExponentsAdd == \A n \in Nat : 2^n > 0 /\ \A m \in Nat : 2^(m + n) = (2^m) * (2^n)
<1> DEFINE P(n) == 2^n > 0 /\ \A m \in Nat : 2^(m + n) = (2^m) * (2^n)
           S == {n \in Nat : P(n)}
<1>1. P(0)
  <2>1. \A m \in Nat : m + 0 = m /\ 2^m \in Nat
    BY Exponents
  <2>2. \A x \in Nat : x * 1 = x
    OBVIOUS
  <2> QED
    BY <2>1, <2>2, Exponents
<1>2. ASSUME NEW n \in Nat, P(n) PROVE P(n + 1)
  <2>1. 2^(n + 1) = 2 * (2^n) /\ 2^n \in Nat
    BY Exponents
  <2>2. ASSUME NEW m \in Nat PROVE 2^(m + (n + 1)) = (2^m) * (2^(n + 1))
    <3> DEFINE k == m + n
               x == 2^m
               y == 2^n
    <3>1. k \in Nat /\ m + (n + 1) = k + 1
      OBVIOUS
    <3>2. 2^(k + 1) = 2 * (2^k)
      BY <3>1, Exponents, Zenon
    <3>3. 2^k = x * y /\ 2^(n + 1) = 2 * y
      BY <1>2, <2>1
    <3>4. x \in Nat /\ y \in Nat
      BY Exponents, Zenon
    <3> HIDE DEF k, x, y
    <3>5. 2 * (x * y) = x * (2 * y)
      BY <3>4
    <3> QED
      BY <3>1, <3>2, <3>3, <3>5, Zenon DEF x
  <2>3. 2^(n + 1) > 0
    <3> DEFINE y == 2^n
    <3>1. y > 0 /\ y \in Nat /\ 2^(n + 1) = 2 * y
      BY <1>2, <2>1
    <3> HIDE DEF y
    <3>2. 2 * y > 0
      BY <3>1
    <3> QED
      BY <3>1, <3>2
  <2> QED
    BY <2>2, <2>3
<1> HIDE DEF P
<1>3. S = Nat
  <2>1. S \subseteq Nat /\ 0 \in S /\ \A n \in S : n + 1 \in S
    BY <1>1, <1>2
  <2> QED
    BY <2>1, Induction
<1>4. \A n \in Nat : P(n)
  BY <1>3
<1> QED
  BY <1>4 DEF P

\* The laws of the powers of two that are in use.
LEMMA Powers == /\ Width \in Nat
                /\ \A n \in 0 .. Width : Pow2[n] \in Nat \ {0}
                /\ \A m, n \in 0 .. Width : m + n <= Width => Pow2[m + n] = Pow2[m] * Pow2[n]
<1>1. Width \in Nat
  <2>1. ShBits \in Nat /\ Width = 2^ShBits
    BY RiscvAssumption
  <2> QED
    BY <2>1, Exponents, Zenon
<1>2. ASSUME NEW n \in 0 .. Width PROVE n \in Nat /\ Pow2[n] = 2^n
  BY <1>1 DEF Pow2
<1>3. ASSUME NEW n \in 0 .. Width PROVE Pow2[n] \in Nat \ {0}
  <2> DEFINE x == 2^n
  <2>1. x \in Nat /\ x > 0 /\ Pow2[n] = x
    BY <1>2, Exponents, ExponentsAdd, Zenon
  <2> HIDE DEF x
  <2> QED
    BY <2>1
<1>4. ASSUME NEW m \in 0 .. Width, NEW n \in 0 .. Width, m + n <= Width
      PROVE  Pow2[m + n] = Pow2[m] * Pow2[n]
  <2>1. m + n \in 0 .. Width /\ m \in Nat /\ n \in Nat
    BY <1>1, <1>4
  <2>2. Pow2[m + n] = 2^(m + n) /\ Pow2[m] = 2^m /\ Pow2[n] = 2^n
    BY <1>2, <2>1, Zenon
  <2>3. 2^(m + n) = (2^m) * (2^n)
    BY <2>1, ExponentsAdd, Zenon
  <2> QED
    BY <2>2, <2>3, Zenon
<1> QED
  BY <1>1, <1>3, <1>4

LEMMA Numbers == /\ Width \in Nat /\ ShBits \in Nat /\ F7Bits \in Nat /\ ImmBits \in Nat
                 /\ ShBits > 0 /\ F7Bits >= 3 /\ ImmBits = ShBits + F7Bits /\ ImmBits < Width
                 /\ Pow2[0] = 1 /\ Pow2[1] = 2 /\ Pow2[2] = 4 /\ Pow2[ShBits] = Width
<1>1. /\ ShBits \in Nat /\ F7Bits \in Nat /\ ShBits > 0 /\ F7Bits >= 3
      /\ Width > ShBits + F7Bits
  BY RiscvAssumption
<1>2. Width \in Nat /\ 0 \in 0 .. Width /\ 1 \in 0 .. Width /\ 2 \in 0 .. Width
      /\ ShBits \in 0 .. Width
  BY <1>1, Powers
<1>3. Pow2[0] = 1 /\ Pow2[1] = 2 /\ Pow2[2] = 4
  <2>1. 2^0 = 1 /\ 2^(0 + 1) = 2 * (2^0) /\ 2^(1 + 1) = 2 * (2^1)
    BY Exponents
  <2>2. 0 + 1 = 1 /\ 1 + 1 = 2 /\ 2 * 1 = 2 /\ 2 * 2 = 4
    OBVIOUS
  <2> QED
    BY <1>2, <2>1, <2>2, Zenon DEF Pow2
<1>4. Pow2[ShBits] = Width
  BY <1>2, RiscvAssumption, Zenon DEF Pow2
<1> QED
  BY <1>1, <1>2, <1>3, <1>4 DEF ImmBits

LEMMA Power == ASSUME NEW n \in 0 .. Width
               PROVE  Pow2[n] \in Nat /\ Pow2[n] > 0
  BY Powers

LEMMA Doubled == ASSUME NEW n \in 0 .. Width - 1
                 PROVE  Pow2[n + 1] = 2 * Pow2[n]
<1>1. n \in 0 .. Width /\ 1 \in 0 .. Width /\ n + 1 <= Width
  BY Numbers
<1>2. Pow2[n + 1] = Pow2[n] * Pow2[1] /\ Pow2[n] \in Nat
  BY <1>1, Powers
<1> QED
  BY <1>2, Numbers

\* The sizes that the fields give rise to.
LEMMA Sizes == /\ Space \in Nat \ {0} /\ Space = 2 * Pow2[Width - 1]
               /\ Pow2[Width - 1] \in Nat /\ Pow2[Width - 1] > 0
               /\ Width = 2 * Pow2[ShBits - 1] /\ Pow2[ShBits - 1] \in Nat
               /\ Width <= Pow2[Width - 1]
<1>1. Space \in Nat \ {0}
  BY Numbers, Powers DEF Space
<1>2. Space = 2 * Pow2[Width - 1] /\ Pow2[Width - 1] \in Nat /\ Pow2[Width - 1] > 0
  <2>1. Width - 1 \in 0 .. Width - 1 /\ (Width - 1) + 1 = Width
    BY Numbers
  <2> QED
    BY <2>1, Doubled, Power DEF Space
<1>3. Width = 2 * Pow2[ShBits - 1] /\ Pow2[ShBits - 1] \in Nat
  <2>1. ShBits - 1 \in 0 .. Width - 1 /\ (ShBits - 1) + 1 = ShBits
    BY Numbers
  <2> QED
    BY <2>1, Doubled, Power, Numbers
<1>4. Width <= Pow2[Width - 1]
  <2> DEFINE n == Width - 1 - ShBits
  <2>1. n \in 0 .. Width /\ ShBits \in 0 .. Width /\ ShBits + n = Width - 1 /\ ShBits + n <= Width
    BY Numbers
  <2> HIDE DEF n
  <2>2. Pow2[Width - 1] = Width * Pow2[n]
    <3>1. Pow2[ShBits + n] = Pow2[ShBits] * Pow2[n]
      BY <2>1, Powers, Zenon
    <3> QED
      BY <2>1, <3>1, Numbers, Zenon
  <2>3. Pow2[n] \in Nat \ {0}
    BY <2>1, Powers
  <2> QED
    BY <2>2, <2>3, Numbers
<1> QED
  BY <1>1, <1>2, <1>3, <1>4

\* The sizes of the immediates: twelve bits, one of them the sign.
LEMMA ImmSizes == /\ Pow2[F7Bits] = 2 * Pow2[F7Bits - 1]
                  /\ Pow2[F7Bits - 1] \in Nat /\ Pow2[F7Bits - 1] > 1
                  /\ Pow2[ImmBits] = 2 * Pow2[ImmBits - 1]
                  /\ Pow2[ImmBits - 1] = Width * Pow2[F7Bits - 1]
                  /\ Pow2[ImmBits - 1] = 2 * Pow2[ImmBits - 2] /\ Pow2[ImmBits - 2] \in Nat
                  /\ Pow2[ImmBits - 1] \in Nat /\ Pow2[ImmBits] \in Nat
<1>1. Pow2[F7Bits] = 2 * Pow2[F7Bits - 1]
  <2>1. F7Bits - 1 \in 0 .. Width - 1 /\ (F7Bits - 1) + 1 = F7Bits
    BY Numbers
  <2> QED
    BY <2>1, Doubled
<1>2. Pow2[F7Bits - 1] \in Nat /\ Pow2[F7Bits - 1] > 1
  <2>1. F7Bits - 2 \in 0 .. Width - 1 /\ (F7Bits - 2) + 1 = F7Bits - 1
    BY Numbers
  <2>2. F7Bits - 2 \in 0 .. Width
    BY Numbers
  <2> QED
    BY <2>1, <2>2, Doubled, Power
<1>3. Pow2[ImmBits] = 2 * Pow2[ImmBits - 1]
  <2>1. ImmBits - 1 \in 0 .. Width - 1 /\ (ImmBits - 1) + 1 = ImmBits
    BY Numbers
  <2> QED
    BY <2>1, Doubled
<1>4. Pow2[ImmBits - 1] = Width * Pow2[F7Bits - 1]
  <2> DEFINE n == F7Bits - 1
  <2>1. n \in 0 .. Width /\ ShBits \in 0 .. Width /\ ShBits + n = ImmBits - 1 /\ ShBits + n <= Width
    BY Numbers
  <2> HIDE DEF n
  <2>2. Pow2[ImmBits - 1] = Width * Pow2[n]
    <3>1. Pow2[ShBits + n] = Pow2[ShBits] * Pow2[n]
      BY <2>1, Powers, Zenon
    <3> QED
      BY <2>1, <3>1, Numbers, Zenon
  <2> QED
    BY <2>2 DEF n
<1>5. Pow2[ImmBits - 1] = 2 * Pow2[ImmBits - 2] /\ Pow2[ImmBits - 2] \in Nat
  <2>1. ImmBits - 2 \in 0 .. Width - 1 /\ (ImmBits - 2) + 1 = ImmBits - 1
    BY Numbers
  <2>2. ImmBits - 2 \in 0 .. Width
    BY Numbers
  <2> QED
    BY <2>1, <2>2, Doubled, Power
<1>6. Pow2[ImmBits - 1] \in Nat /\ Pow2[ImmBits] \in Nat
  <2>1. ImmBits - 1 \in 0 .. Width /\ ImmBits \in 0 .. Width
    BY Numbers
  <2> QED
    BY <2>1, Power
<1> QED
  BY <1>1, <1>2, <1>3, <1>4, <1>5, <1>6

\* No power of two in use is more than the number of words.
LEMMA PowerFits == ASSUME NEW n \in 0 .. Width
                   PROVE  Pow2[n] <= Space
<1> DEFINE m == Width - n
<1>1. m \in 0 .. Width /\ n + m = Width /\ n + m <= Width
  BY Numbers
<1> HIDE DEF m
<1>2. Space = Pow2[n] * Pow2[m]
  BY <1>1, Powers DEF Space
<1>3. Pow2[n] \in Nat \ {0} /\ Pow2[m] \in Nat \ {0}
  BY <1>1, Powers
<1> QED
  BY <1>2, <1>3

\* A word has two bits more than are needed for this: multiples of four wrap to
\* multiples of four.
LEMMA SpaceByFour == Pow2[Width - 2] \in Nat \ {0} /\ Space = Pow2[Width - 2] * 4
<1> DEFINE n == Width - 2
<1>1. n \in 0 .. Width /\ 2 \in 0 .. Width /\ n + 2 = Width /\ n + 2 <= Width
  BY Numbers
<1> HIDE DEF n
<1>2. Space = Pow2[n] * Pow2[2] /\ Pow2[n] \in Nat \ {0}
  BY <1>1, Powers DEF Space
<1> QED
  BY <1>2, Numbers DEF n

-----------------------------------------------------------------------------
\* Words.

LEMMA WrapWord == ASSUME NEW i \in Int PROVE Wrap(i) \in Word
  BY Sizes DEF Wrap, Word

LEMMA WordInt == ASSUME NEW x \in Word PROVE x \in Nat /\ x < Space
  BY Sizes DEF Word

LEMMA SignedOfInt == ASSUME NEW x \in Int, NEW k \in 1 .. Width
                     PROVE  SignedOf(x, k) \in Int
<1>1. k - 1 \in 0 .. Width /\ k \in 0 .. Width
  BY Numbers
<1>2. Pow2[k - 1] \in Nat /\ Pow2[k] \in Nat
  BY <1>1, Power
<1> QED
  BY <1>2 DEF SignedOf

\* A word and the integer it stands for differ by a multiple of Space.
LEMMA SignedInt == ASSUME NEW x \in Word
                   PROVE  \E k \in {0, 1} : Signed(x) = x - k * Space
<1>1. Signed(x) = x \/ Signed(x) = x - Space
  BY DEF Signed, SignedOf, Space
<1> QED
  BY <1>1, WordInt, Sizes

LEMMA SignedIsInt == ASSUME NEW x \in Word PROVE Signed(x) \in Int
  BY SignedInt, WordInt, Sizes

\* Adding a multiple of the divisor adds to the quotient.
LEMMA QuotientShift == ASSUME NEW d \in Nat \ {0}, NEW x \in Int, NEW k \in Int
                       PROVE  (x + k * d) \div d = (x \div d) + k
<1> DEFINE r == x % d
           q == x \div d
<1>1. r \in 0 .. d - 1 /\ q \in Int /\ x = q * d + r
  OBVIOUS
<1> HIDE DEF r, q
<1>2. x + k * d = r + (q + k) * d
  BY <1>1
<1>3. ASSUME NEW m \in Int PROVE (r + m * d) \div d = m
  BY <1>1
<1>4. (x + k * d) \div d = q + k
  BY <1>1, <1>2, <1>3
<1> QED
  BY <1>4 DEF q

\* A larger exponent makes no smaller power.
LEMMA PowersGrow == ASSUME NEW m \in 0 .. Width, NEW n \in 0 .. Width, m <= n
                    PROVE  Pow2[m] <= Pow2[n]
<1> DEFINE k == n - m
<1>1. k \in 0 .. Width /\ m + k = n /\ m + k <= Width
  BY Numbers
<1> HIDE DEF k
<1>2. Pow2[n] = Pow2[m] * Pow2[k]
  BY <1>1, Powers
<1>3. Pow2[m] \in Nat \ {0} /\ Pow2[k] \in Nat \ {0}
  BY <1>1, Powers
<1> QED
  BY <1>2, <1>3

\* The bits of a number of k bits with one more in front.
Bit(x, i) == (x \div Pow2[i]) % 2 = 1

LEMMA BitAbove == ASSUME NEW i \in Bits, NEW x \in Nat, x < Pow2[i]
                  PROVE  ~Bit(x, i)
<1>1. Pow2[i] \in Nat /\ Pow2[i] > 0
  BY Numbers, Power DEF Bits
<1>2. x \div Pow2[i] = 0
  BY <1>1
<1> QED
  BY <1>2 DEF Bit

LEMMA BitInFront == ASSUME NEW k \in Bits, NEW x \in 0 .. Pow2[k] - 1, NEW i \in Bits
                    PROVE  Bit(x + Pow2[k], i) <=> (i = k \/ (i < k /\ Bit(x, i)))
<1>1. /\ i \in 0 .. Width - 1 /\ k \in 0 .. Width - 1 /\ i \in 0 .. Width /\ k \in 0 .. Width
      /\ k + 1 \in 0 .. Width /\ i \in Nat /\ k \in Nat
  BY Numbers DEF Bits
<1>2. Pow2[k] \in Nat /\ Pow2[k] > 0 /\ Pow2[i] \in Nat /\ Pow2[i] > 0 /\ x \in Nat /\ x < Pow2[k]
  BY <1>1, Power
<1>3. CASE i < k
  <2> DEFINE c == Pow2[k - i - 1]
             q == x \div Pow2[i]
  <2>1. k - i - 1 \in 0 .. Width - 1 /\ k - i \in 0 .. Width /\ (k - i - 1) + 1 = k - i
        /\ i + (k - i) = k /\ k <= Width /\ k - i - 1 \in 0 .. Width
    BY <1>1, <1>3, Numbers
  <2>2. Pow2[k - i] = 2 * c /\ c \in Nat
    BY <2>1, Doubled, Power
  <2>3. Pow2[k] = Pow2[i] * Pow2[k - i]
    BY <1>1, <2>1, Powers
  <2>4. q \in Int
    BY <1>2
  <2> HIDE DEF c
  <2>5. Pow2[k] = (2 * c) * Pow2[i] /\ 2 * c \in Int
    BY <1>2, <2>2, <2>3
  <2>6. (x + (2 * c) * Pow2[i]) \div Pow2[i] = q + 2 * c
    <3> DEFINE m == 2 * c
               d == Pow2[i]
    <3>1. m \in Int /\ d \in Nat \ {0} /\ x \in Int
      BY <1>2, <2>5
    <3> HIDE DEF m, d
    <3>2. (x + m * d) \div d = (x \div d) + m
      BY <3>1, QuotientShift
    <3> QED
      BY <3>2 DEF m, d
  <2> HIDE DEF q
  <2>7. (q + c * 2) % 2 = q % 2
    BY <2>2, <2>4, ResidueShift
  <2>8. q + 2 * c = q + c * 2
    BY <2>2
  <2>9. (x + Pow2[k]) \div Pow2[i] = q + c * 2
    BY <2>5, <2>6, <2>8
  <2>10. Bit(x + Pow2[k], i) <=> Bit(x, i)
    BY <2>7, <2>9 DEF Bit, q
  <2>11. i # k
    BY <1>1, <1>3
  <2> QED
    BY <1>3, <2>10, <2>11, Zenon
<1>4. CASE i = k
  <2> DEFINE d == Pow2[k]
  <2>1. d \in Nat /\ d > 0 /\ x \in Nat /\ x < d
    BY <1>2
  <2> HIDE DEF d
  <2>2. (x + d) \div d = 1
    BY <2>1
  <2>3. Bit(x + Pow2[k], i)
    BY <1>4, <2>2 DEF Bit, d
  <2> QED
    BY <1>4, <2>3, Zenon
<1>5. CASE i > k
  <2>1. Pow2[k + 1] = 2 * Pow2[k] /\ Pow2[k + 1] <= Pow2[i]
    BY <1>1, <1>5, Doubled, PowersGrow
  <2>2. x + Pow2[k] \in Nat /\ x + Pow2[k] < Pow2[i]
    BY <1>2, <2>1
  <2> DEFINE y == x + Pow2[k]
  <2> HIDE DEF y
  <2>3. ~Bit(y, i)
    BY <2>2, BitAbove DEF y
  <2>4. ~(i = k) /\ ~(i < k)
    BY <1>1, <1>5
  <2> QED
    BY <2>3, <2>4, Zenon DEF y
<1> QED
  BY <1>1, <1>3, <1>4, <1>5

\* Every set of bits is a word, by induction on the number of bits.
LEMMA EveryWord == \A bits \in SUBSET Bits : \E x \in Word : BitsOf[x] = bits
<1> DEFINE Stands(x, bits) == \A i \in Bits : Bit(x, i) <=> i \in bits
           P(k) == k <= Width => \A bits \in SUBSET (0 .. k - 1) :
                                    \E x \in 0 .. Pow2[k] - 1 : Stands(x, bits)
           S == {k \in Nat : P(k)}
<1>1. P(0)
  <2>1. Pow2[0] = 1 /\ 0 \in Nat /\ 0 \in 0 .. Pow2[0] - 1
    BY Numbers
  <2>2. ASSUME NEW i \in Bits PROVE ~Bit(0, i)
    <3>1. Pow2[i] > 0
      BY Numbers, Power DEF Bits
    <3> QED
      BY <2>1, <3>1, BitAbove
  <2>3. ASSUME NEW bits \in SUBSET (0 .. 0 - 1) PROVE Stands(0, bits)
    <3>1. ASSUME NEW i \in bits PROVE FALSE
      <4>1. i \in 0 .. 0 - 1
        BY <2>3, <3>1, Zenon
      <4> QED
        BY <4>1
    <3> QED
      BY <2>2, <3>1, Zenon
  <2> HIDE DEF Stands
  <2> QED
    BY <2>1, <2>3
<1>2. ASSUME NEW k \in Nat, P(k) PROVE P(k + 1)
  <2> SUFFICES ASSUME k + 1 <= Width, NEW bits \in SUBSET (0 .. k)
               PROVE  \E x \in 0 .. Pow2[k + 1] - 1 : Stands(x, bits)
    OBVIOUS
  <2>1. k \in Bits /\ k \in 0 .. Width - 1 /\ k \in 0 .. Width /\ k <= Width
    BY Numbers DEF Bits
  <2>2. Pow2[k + 1] = 2 * Pow2[k] /\ Pow2[k] \in Nat
    BY <2>1, Doubled, Power
  <2>3. bits \ {k} \in SUBSET (0 .. k - 1)
    OBVIOUS
  <2>4. PICK x \in 0 .. Pow2[k] - 1 : Stands(x, bits \ {k})
    BY <1>2, <2>1, <2>3
  <2>5. x \in Nat /\ x < Pow2[k]
    BY <2>2, <2>4
  <2>6. CASE k \in bits
    <3> DEFINE y == x + Pow2[k]
    <3>1. y \in 0 .. Pow2[k + 1] - 1
      BY <2>2, <2>5
    <3>2. ASSUME NEW i \in Bits PROVE Bit(y, i) <=> i \in bits
      <4>1. Bit(y, i) <=> (i = k \/ (i < k /\ Bit(x, i)))
        BY <2>1, <2>4, BitInFront
      <4>2. Bit(x, i) <=> i \in bits \ {k}
        BY <2>4
      <4>3. i \in bits => i = k \/ i < k
        OBVIOUS
      <4> HIDE DEF y
      <4> QED
        BY <2>6, <4>1, <4>2, <4>3, Zenon
    <3> HIDE DEF y
    <3> QED
      BY <3>1, <3>2, Zenon
  <2>7. CASE k \notin bits
    <3>1. x \in 0 .. Pow2[k + 1] - 1 /\ bits \ {k} = bits
      BY <2>2, <2>5, <2>7
    <3> QED
      BY <2>4, <3>1, Zenon
  <2> QED
    BY <2>6, <2>7
<1> HIDE DEF P
<1>3. S = Nat
  <2>1. S \subseteq Nat /\ 0 \in S /\ \A n \in S : n + 1 \in S
    BY <1>1, <1>2
  <2> QED
    BY <2>1, Induction
<1>4. P(Width) /\ Width <= Width
  BY <1>3, Numbers
<1> SUFFICES ASSUME NEW bits \in SUBSET Bits
             PROVE  \E x \in Word : BitsOf[x] = bits
  OBVIOUS
<1>5. PICK x \in 0 .. Pow2[Width] - 1 : Stands(x, bits)
  BY <1>4, Zenon DEF P, Bits
<1>6. x \in Word
  BY <1>5 DEF Word, Space
<1>7. BitsOf[x] = {i \in Bits : Bit(x, i)}
  BY <1>6, Zenon DEF BitsOf, Bit
<1>8. {i \in Bits : Bit(x, i)} = bits
  BY <1>5, Zenon
<1> QED
  BY <1>6, <1>7, <1>8, Zenon

\* The word of a set of bits has these bits.
LEMMA BitsOfWord == ASSUME NEW bits \in SUBSET Bits
                    PROVE  WordOf[bits] \in Word /\ BitsOf[WordOf[bits]] = bits
  BY EveryWord DEF WordOf

LEMMA BitsType == ASSUME NEW x \in Word PROVE BitsOf[x] \in SUBSET Bits
  BY DEF BitsOf

LEMMA Logic == ASSUME NEW x \in Word, NEW y \in Word
               PROVE  /\ And(x, y) \in Word /\ Or(x, y) \in Word
                      /\ Xor(x, y) \in Word /\ Not(x) \in Word
                      /\ BitsOf[And(x, y)] = BitsOf[x] \cap BitsOf[y]
                      /\ BitsOf[Or(x, y)] = BitsOf[x] \cup BitsOf[y]
                      /\ BitsOf[Not(x)] = Bits \ BitsOf[x]
<1>1. BitsOf[x] \in SUBSET Bits /\ BitsOf[y] \in SUBSET Bits
  BY BitsType
<1>2. /\ BitsOf[x] \cap BitsOf[y] \in SUBSET Bits
      /\ BitsOf[x] \cup BitsOf[y] \in SUBSET Bits
      /\ Bits \ BitsOf[x] \in SUBSET Bits
      /\ {i \in Bits : (i \in BitsOf[x]) # (i \in BitsOf[y])} \in SUBSET Bits
  BY <1>1
<1> QED
  BY <1>2, BitsOfWord, Zenon DEF And, Or, Xor, Not

\* A shift by less than a word, as a multiplication and as a division.
LEMMA ShiftWord == ASSUME NEW x \in Word, NEW k \in 0 .. Width - 1
                   PROVE  /\ x * Pow2[k] \in Int /\ x \div Pow2[k] \in Word
                          /\ Signed(x) \div Pow2[k] \in Int
<1>1. Pow2[k] \in Nat /\ Pow2[k] > 0
  BY Power, Numbers
<1>2. x \in Nat /\ x < Space /\ Space \in Nat /\ Signed(x) \in Int
  BY WordInt, SignedIsInt, Sizes
<1>3. x \div Pow2[k] \in Nat /\ x \div Pow2[k] <= x
  BY <1>1, <1>2
<1>4. x \div Pow2[k] \in Word
  BY <1>2, <1>3 DEF Word
<1>5. Signed(x) \div Pow2[k] \in Int
  BY <1>1, <1>2
<1> QED
  BY <1>1, <1>2, <1>4, <1>5

\* Rounding towards zero gives integers.
LEMMA QuotInt == ASSUME NEW i \in Int, NEW j \in Int, j # 0
                 PROVE  Quot(i, j) \in Int /\ Rem(i, j) \in Int
<1>1. Magnitude(i) \in Nat /\ Magnitude(j) \in Nat \ {0}
  BY DEF Magnitude
<1>2. Magnitude(i) \div Magnitude(j) \in Nat
  BY <1>1
<1>3. Quot(i, j) \in Int
  BY <1>2 DEF Quot
<1> QED
  BY <1>3 DEF Rem

LEMMA SignedZero == ASSUME NEW x \in Word, x # 0 PROVE Signed(x) # 0
<1>1. Signed(x) = x \/ Signed(x) = x - Space
  BY DEF Signed, SignedOf, Space
<1> QED
  BY <1>1, WordInt, Sizes

-----------------------------------------------------------------------------
\* The state of an iteration.

\* The fields of an instruction.
LEMMA Fields == ASSUME NEW i \in Insts
                PROVE  /\ i.op \in 0 .. 127 /\ i.func3 \in 0 .. 7
                       /\ i.func7 \in 0 .. Pow2[F7Bits] - 1
                       /\ i.rd \in 0 .. Width - 1 /\ i.rs1 \in 0 .. Width - 1
                       /\ i.rs2 \in 0 .. Width - 1 /\ i.u \in 0 .. Pow2[Width - ImmBits] - 1
                       /\ i.func7 \in Nat /\ i.rd \in Nat /\ i.rs1 \in Nat /\ i.rs2 \in Nat
                       /\ i.u \in Nat
<1>1. i \in Inst
  BY IsaAssumption
<1>2. Pow2[F7Bits] \in Nat /\ Pow2[Width - ImmBits] \in Nat
  BY Numbers, Power
<1> QED
  BY <1>1, <1>2, Numbers DEF Inst

\* The immediates are integers.
LEMMA ImmInt == ASSUME NEW i \in Insts
                PROVE  ImmI(i) \in Int /\ ImmS(i) \in Int /\ ImmU(i) \in Int
<1>1. i.func7 * Width + i.rs2 \in Int /\ i.func7 * Width + i.rd \in Int
  BY Fields, Numbers
<1>2. ImmBits \in 1 .. Width
  BY Numbers
<1>3. ImmI(i) \in Int /\ ImmS(i) \in Int
  BY <1>1, <1>2, SignedOfInt DEF ImmI, ImmS
<1>4. ImmU(i) \in Int
  BY Fields, ImmSizes DEF ImmU
<1> QED
  BY <1>3, <1>4

\* What the operands are.
LEMMA Operands == ASSUME TypeOK
                  PROVE  /\ A \in Word /\ B \in Word /\ A \in Nat /\ B \in Nat
                         /\ Signed(A) \in Int /\ Signed(B) \in Int
                         /\ pc \in Word /\ pc \in Nat
                         /\ imm_11_0 \in Nat /\ simm_11_0 = ImmI(inst) /\ simm_11_0 \in Int
                         /\ inst \in Insts /\ inst.rd \in 0 .. Width - 1
<1>1. inst \in Insts /\ pc \in Word /\ gpr \in [0 .. Width - 1 -> Word]
  BY DEF TypeOK
<1>2. A \in Word /\ B \in Word /\ inst.rd \in 0 .. Width - 1
  BY <1>1, Fields DEF A, B
<1>3. A \in Nat /\ B \in Nat /\ pc \in Nat /\ Signed(A) \in Int /\ Signed(B) \in Int
  BY <1>1, <1>2, WordInt, SignedIsInt
<1>4. imm_11_0 \in Nat
  <2>1. inst.func7 \in Nat /\ inst.rs2 \in Nat /\ Width \in Nat
    BY <1>1, Fields, Numbers, Zenon
  <2>2. \A i, j, k \in Nat : i * j + k \in Nat
    OBVIOUS
  <2> QED
    BY <2>1, <2>2, Zenon DEF imm_11_0
<1>5. simm_11_0 = ImmI(inst) /\ ImmI(inst) \in Int
  BY <1>1, ImmInt DEF simm_11_0, imm_11_0, ImmI
<1> QED
  BY <1>1, <1>2, <1>3, <1>4, <1>5

\* The handlers whose result is cut to a word.
Wrapped == {"add", "sub", "sll", "sra", "mul", "mulh", "mulhu", "mulhsu", "div", "rem",
            "lui", "auipc", "addi", "slli", "srai"}

LEMMA ValueWord == ASSUME TypeOK, NEW h \in Computations, ~Traps(h)
                   PROVE  Value(h) \in Word
<1> USE Operands
<1>1. CASE h \in {"and", "or", "xor", "andi", "ori", "xori"}
  <2>1. Wrap(simm_11_0) \in Word
    BY WrapWord
  <2>2. /\ And(A, B) \in Word /\ Or(A, B) \in Word /\ Xor(A, B) \in Word
        /\ And(A, Wrap(simm_11_0)) \in Word /\ Or(A, Wrap(simm_11_0)) \in Word
        /\ Xor(A, Wrap(simm_11_0)) \in Word
    BY <2>1, Logic
  <2> HIDE Operands
  <2> QED
    BY <1>1, <2>2 DEF Value
<1>2. CASE h \in {"slt", "sltu", "slti", "sltiu"}
  <2>1. \A b \in BOOLEAN : Bool(b) \in Word
    BY Sizes DEF Bool, Word
  <2> HIDE Operands
  <2>2. /\ Bool(Signed(A) < Signed(B)) \in Word /\ Bool(A < B) \in Word
        /\ Bool(A < imm_11_0) \in Word /\ Bool(Signed(A) < simm_11_0) \in Word
    BY Sizes DEF Bool, Word
  <2> QED
    BY <1>2, <2>2 DEF Value
<1>3. CASE h \in {"srl", "srli", "divu", "remu"}
  <2>1. B % Width \in 0 .. Width - 1 /\ shamt \in 0 .. Width - 1
    BY Numbers, Fields DEF shamt
  <2>2. A \div Pow2[B % Width] \in Word /\ A \div Pow2[shamt] \in Word
    BY <2>1, ShiftWord
  <2>3. ASSUME B # 0 PROVE A \div B \in Word /\ A % B \in Word
    <3>1. A \div B \in Nat /\ A \div B <= A /\ A % B \in Nat /\ A % B <= A
      BY <2>3
    <3> QED
      BY <3>1, Sizes, WordInt DEF Word
  <2>4. h \in {"divu", "remu"} => B # 0
    BY DEF Traps, Divisions
  <2> HIDE Operands
  <2> QED
    BY <1>3, <2>2, <2>3, <2>4 DEF Value
<1>4. CASE h \in Wrapped
  <2>1. B % Width \in 0 .. Width - 1 /\ shamt \in 0 .. Width - 1
    BY Numbers, Fields DEF shamt
  <2>2. /\ A * Pow2[B % Width] \in Int /\ Signed(A) \div Pow2[B % Width] \in Int
        /\ A * Pow2[shamt] \in Int /\ Signed(A) \div Pow2[shamt] \in Int
    BY <2>1, ShiftWord
  <2>3. /\ Signed(A) * Signed(B) \in Int /\ (Signed(A) * Signed(B)) \div Space \in Int
        /\ (A * B) \div Space \in Int /\ A + B \in Int /\ A - B \in Int /\ A + simm_11_0 \in Int
    BY Sizes
  <2>4. Product64(Signed(A), B) \div Space \in Int
    <3>1. Space * Space \in Nat \ {0}
      BY Sizes
    <3> QED
      BY <3>1, Sizes DEF Product64
  <2>5. inst.u * Pow2[ImmBits] \in Int /\ pc + inst.u * Pow2[ImmBits] \in Int
    BY Fields, ImmSizes
  <2>6. h \in {"div", "rem"} => /\ Quot(Signed(A), Signed(B)) \in Int
                                /\ Rem(Signed(A), Signed(B)) \in Int
    BY QuotInt, SignedZero DEF Traps, Divisions
  <2> HIDE Operands
  <2> QED
    BY <1>4, <2>2, <2>3, <2>4, <2>5, <2>6, WrapWord DEF Value, Wrapped
<1> QED
  BY <1>1, <1>2, <1>3, <1>4, Zenon DEF Computations, Divisions, Wrapped

\* What is stored in a CSR is a word.
LEMMA CsrWord == ASSUME NEW h \in CsrOps, NEW old \in Word, NEW x \in Word
                 PROVE  CsrValue(h, old, x) \in Word
<1>1. Or(old, x) \in Word /\ Not(x) \in Word
  BY Logic
<1>2. And(old, Not(x)) \in Word
  BY <1>1, Logic
<1> QED
  BY <1>1, <1>2 DEF CsrValue, CsrOps

\* A register number is a word.
LEMMA RegisterWord == ASSUME NEW r \in 0 .. Width - 1 PROVE r \in Word
  BY Sizes, Numbers DEF Word

\* The data of an access are less than what its bytes can hold.
LEMMA DataWord == ASSUME NEW len \in {1, 2, 4}, NEW w \in Word
                  PROVE  w % DataSpace(len) \in Word
<1>1. len * (Width \div 4) \in 0 .. Width
  BY Numbers
<1> DEFINE d == Pow2[len * (Width \div 4)]
<1>2. d \in Nat /\ d > 0
  BY <1>1, Power
<1> HIDE DEF d
<1>3. w % d \in Nat /\ w % d <= w
  BY <1>2, WordInt
<1>4. w % d \in Word
  BY <1>3, WordInt, Sizes DEF Word
<1> QED
  BY <1>4 DEF DataSpace, d

\* What a load leaves in the register is a word.
LEMMA LoadedWord == ASSUME NEW len \in {1, 2, 4}, NEW w \in Word
                    PROVE  Wrap(SignedOf(w, len * (Width \div 4))) \in Word
<1>1. len * (Width \div 4) \in 1 .. Width
  <2>1. Width >= 4
    BY Numbers
  <2>2. Width \div 4 \in Nat /\ Width \div 4 >= 1 /\ 4 * (Width \div 4) <= Width
    BY <2>1, Numbers
  <2> QED
    BY <2>2, Numbers
<1>2. SignedOf(w, len * (Width \div 4)) \in Int
  BY <1>1, SignedOfInt, WordInt
<1> QED
  BY <1>2, WrapWord

\* The offsets of stores and branches are integers, those of branches even.
LEMMA Offsets == ASSUME TypeOK
                 PROVE  /\ STORE_SIMM \in Int
                        /\ BRANCH_SIMM \in Int /\ BRANCH_SIMM % 2 = 0
<1> DEFINE T == Pow2[F7Bits - 1]
           H == Pow2[ImmBits - 1]
           W == Pow2[ShBits - 1]
           Q == Pow2[ImmBits - 2]
<1>1. /\ T \in Nat \ {0} /\ W \in Nat /\ Q \in Nat /\ H \in Nat /\ Width = 2 * W
      /\ H = 2 * Q /\ Pow2[ImmBits] = 2 * H
  BY ImmSizes, Sizes
<1>2. inst.rd \in Nat /\ inst.func7 \in Nat
  BY Fields DEF TypeOK
<1> HIDE DEF T, H, W, Q
<1>3. Top(inst.func7) \in Int /\ inst.func7 % T \in Nat /\ inst.rd % 2 \in {0, 1}
  BY <1>1, <1>2 DEF Top, T
<1> DEFINE f == inst.func7 % T
           t == Top(inst.func7)
           b == inst.rd % 2
           e == inst.rd \div 2
<1>4. f \in Nat /\ t \in Int /\ b \in {0, 1} /\ e \in Nat /\ inst.rd = 2 * e + b
  BY <1>2, <1>3
<1>5. STORE_SIMM \in Int
  <2>1. inst.func7 * Width \in Int /\ t * Pow2[ImmBits] \in Int
    BY <1>1, <1>2, <1>4
  <2> QED
    BY <2>1, <1>2, <1>4 DEF STORE_SIMM
<1>6. BRANCH_SIMM = (inst.rd - b) + f * Width + b * H - t * Pow2[ImmBits]
  BY DEF BRANCH_SIMM, T, H
<1> HIDE DEF f, t, b, e
<1>7. /\ f * W \in Int /\ f * Width = 2 * (f * W)
      /\ b * Q \in Int /\ b * H = 2 * (b * Q)
      /\ t * H \in Int /\ t * Pow2[ImmBits] = 2 * (t * H)
  BY <1>1, <1>4
<1> DEFINE half == e + f * W + b * Q - t * H
<1>8. half \in Int /\ BRANCH_SIMM = 2 * half
  BY <1>4, <1>6, <1>7
<1> HIDE DEF half
<1>9. (2 * half) % 2 = 0
  BY <1>8
<1> QED
  BY <1>5, <1>8, <1>9

\* Where the iteration ends, the program counter is a word.
LEMMA RetireWord == ASSUME NEW target \in Int, Retire(target)
                    PROVE  pc' \in Word /\ status' = "done" /\ inst' = inst
  BY WrapWord DEF Retire

\* A register is assigned a word.
LEMMA SetWord == ASSUME TypeOK, NEW v \in Word, Set(inst.rd, v)
                 PROVE  gpr' \in [0 .. Width - 1 -> Word]
  BY DEF TypeOK, Set

LEMMA TypeInit == ASSUME Init PROVE TypeOK
<1>1. 0 \in Word
  BY Sizes DEF Word
<1>2. gpr \in [0 .. Width - 1 -> Word]
  <2>1. PICK g \in [Registers -> StartWords] :
           gpr = [r \in 0 .. Width - 1 |-> IF r \in Registers THEN g[r] ELSE 0]
    BY DEF Init
  <2> QED
    BY <1>1, <2>1, IsaAssumption
<1>3. csr \in [Csrs -> Word] /\ pc \in Word
  BY IsaAssumption DEF Init
<1> QED
  BY <1>2, <1>3 DEF Init, TypeOK

LEMMA TypeStep == ASSUME TypeOK, [Next]_vars PROVE TypeOK'
<1> DEFINE h == Handler(inst)
<1>0. CASE UNCHANGED vars
  BY <1>0 DEF TypeOK, vars
<1>1. CASE Compute
  <2>1. h \in Computations /\ ~Traps(h) /\ Set(inst.rd, Value(h)) /\ Retire(pc)
        /\ csr' = csr /\ access' = access
    BY <1>1 DEF Compute, Running
  <2>2. Value(h) \in Word
    BY <2>1, ValueWord
  <2>3. gpr' \in [0 .. Width - 1 -> Word]
    BY <2>1, <2>2, SetWord
  <2>4. pc' \in Word /\ status' = "done" /\ inst' = inst
    BY <2>1, RetireWord, Operands
  <2> QED
    BY <2>1, <2>3, <2>4 DEF TypeOK
<1>2. CASE DivisionTraps
  BY <1>2 DEF DivisionTraps, Stop, TypeOK
<1>3. CASE Load
  <2> DEFINE addr == Wrap(A + simm_11_0)
             len  == Bytes(h)
  <2>1. h \in Loads
    BY <1>3 DEF Load, Running
  <2>2. len \in {1, 2, 4}
    BY <2>1 DEF Loads, Bytes
  <2>3. addr \in Word
    BY WrapWord, Operands
  <2>4. CASE Stop("fault")
    BY <2>4 DEF Stop, TypeOK
  <2>5. CASE ~Stop("fault")
    <3>1. PICK w \in StartWords :
             /\ access' = [write |-> FALSE, addr |-> addr, len |-> len,
                           data |-> w % DataSpace(len)]
             /\ Set(inst.rd, IF h \in {"lb", "lh"}
                             THEN Wrap(SignedOf(w % DataSpace(len), len * (Width \div 4)))
                             ELSE w % DataSpace(len))
             /\ Retire(pc) /\ csr' = csr
      BY <1>3, <2>5 DEF Load
    <3> DEFINE data == w % DataSpace(len)
               v    == IF h \in {"lb", "lh"} THEN Wrap(SignedOf(data, len * (Width \div 4)))
                                             ELSE data
    <3>2. data \in Word
      BY <2>2, DataWord, IsaAssumption
    <3>3. v \in Word
      BY <2>2, <3>2, LoadedWord
    <3>4. Set(inst.rd, v)
      BY <3>1
    <3> HIDE DEF v
    <3>5. gpr' \in [0 .. Width - 1 -> Word]
      BY <3>3, <3>4, SetWord
    <3>6. pc' \in Word /\ status' = "done" /\ inst' = inst
      BY <3>1, RetireWord, Operands
    <3> HIDE DEF data, addr, len
    <3>7. access' \in Access
      BY <2>2, <2>3, <3>1, <3>2 DEF Access, data
    <3> QED
      BY <3>1, <3>5, <3>6, <3>7 DEF TypeOK
  <2> QED
    BY <2>4, <2>5
<1>4. CASE Store
  <2> DEFINE addr == Wrap(A + STORE_SIMM)
             len  == Bytes(h)
  <2>1. h \in Stores
    BY <1>4 DEF Store, Running
  <2>2. len \in {1, 2, 4}
    BY <2>1 DEF Stores, Bytes
  <2>3. addr \in Word
    BY WrapWord, Operands, Offsets
  <2>4. CASE Stop("fault")
    BY <2>4 DEF Stop, TypeOK
  <2>5. CASE ~Stop("fault")
    <3>1. /\ access' = [write |-> TRUE, addr |-> addr, len |-> len,
                        data |-> B % DataSpace(len)]
          /\ Retire(pc) /\ gpr' = gpr /\ csr' = csr
      BY <1>4, <2>5 DEF Store
    <3>2. B % DataSpace(len) \in Word
      BY <2>2, DataWord, Operands
    <3>3. pc' \in Word /\ status' = "done" /\ inst' = inst
      BY <3>1, RetireWord, Operands
    <3> HIDE DEF addr, len
    <3>4. access' \in Access
      BY <2>2, <2>3, <3>1, <3>2 DEF Access
    <3> QED
      BY <3>1, <3>3, <3>4 DEF TypeOK
  <2> QED
    BY <2>4, <2>5
<1>5. CASE Branch
  <2> DEFINE target == IF Taken(h) THEN pc + 2 * BRANCH_SIMM ELSE pc
  <2>1. target \in Int
    BY Operands, Offsets
  <2>2. Retire(target) /\ gpr' = gpr /\ csr' = csr /\ access' = access
    BY <1>5 DEF Branch
  <2> HIDE DEF target
  <2>3. pc' \in Word /\ status' = "done" /\ inst' = inst
    BY <2>1, <2>2, RetireWord
  <2> QED
    BY <2>2, <2>3 DEF TypeOK
<1>6. CASE jal
  <2>1. pc + inst.u * Pow2[ImmBits] \in Int /\ pc + 4 \in Int
    BY Operands, Fields, ImmSizes
  <2>2. Wrap(pc + 4) \in Word
    BY <2>1, WrapWord
  <2>3. gpr' \in [0 .. Width - 1 -> Word]
    BY <1>6, <2>2, SetWord DEF jal
  <2>4. pc' \in Word /\ status' = "done" /\ inst' = inst
    BY <1>6, <2>1, RetireWord DEF jal
  <2> QED
    BY <1>6, <2>3, <2>4 DEF TypeOK, jal
<1>7. CASE jalr
  <2>1. pc + 4 \in Int
    BY Operands
  <2>2. Wrap(pc + 4) \in Word
    BY <2>1, WrapWord
  <2>3. gpr' \in [0 .. Width - 1 -> Word]
    BY <1>7, <2>2, SetWord DEF jalr
  <2>4. gpr'[inst.rs1] \in Int
    BY <2>3, Operands, Fields, WordInt
  <2>5. pc' \in Word /\ status' = "done" /\ inst' = inst
    BY <1>7, <2>4, RetireWord DEF jalr
  <2> QED
    BY <1>7, <2>3, <2>5 DEF TypeOK, jalr
<1>8. CASE fence
  <2>1. pc' \in Word /\ status' = "done" /\ inst' = inst
    BY <1>8, RetireWord, Operands DEF fence
  <2> QED
    BY <1>8, <2>1 DEF TypeOK, fence
<1>9. CASE Csr
  <2>1. h \in CsrOps /\ imm_11_0 \in Csrs
    BY <1>9, CsrAssumption, Operands DEF Csr, Running, imm_11_0
  <2>2. pc' \in Word /\ status' = "done" /\ inst' = inst
    BY <1>9, RetireWord, Operands DEF Csr
  <2>3. gpr' \in [0 .. Width - 1 -> Word] /\ csr' \in [Csrs -> Word]
    <3>1. CASE UNCHANGED <<gpr, csr>>
      BY <3>1 DEF TypeOK
    <3>2. CASE ~UNCHANGED <<gpr, csr>>
      <4> DEFINE x == IF h \in {"csrrw", "csrrs", "csrrc"} THEN gpr'[inst.rs1] ELSE inst.rs1
      <4>1. /\ Set(inst.rd, csr[imm_11_0])
            /\ csr' = [csr EXCEPT ![imm_11_0] = CsrValue(h, csr[imm_11_0], x)]
        BY <1>9, <3>2 DEF Csr
      <4>2. csr \in [Csrs -> Word] /\ csr[imm_11_0] \in Word
        BY <2>1 DEF TypeOK
      <4>3. gpr' \in [0 .. Width - 1 -> Word]
        BY <4>1, <4>2, SetWord
      <4>4. x \in Word
        BY <4>3, Operands, Fields, RegisterWord
      <4> HIDE DEF x
      <4>5. CsrValue(h, csr[imm_11_0], x) \in Word
        BY <2>1, <4>2, <4>4, CsrWord
      <4> QED
        BY <4>1, <4>2, <4>3, <4>5
    <3> QED
      BY <3>1, <3>2
  <2> QED
    BY <1>9, <2>2, <2>3 DEF TypeOK, Csr
<1>10. CASE inv
  <2>1. pc + 4 \in Int
    BY Operands
  <2>2. pc' \in Word
    BY <1>10, <2>1, WrapWord DEF inv
  <2> QED
    BY <1>10, <2>2 DEF TypeOK, inv
<1>11. CASE Abort
  BY <1>11 DEF Abort, Stop, TypeOK
<1> QED
  BY <1>0, <1>1, <1>2, <1>3, <1>4, <1>5, <1>6, <1>7, <1>8, <1>9, <1>10, <1>11 DEF Next

\* What an iteration leaves in the registers, in the CSRs, in cpu.pc and on
\* the way to memory are words, in every width: every handler cuts its result,
\* and cpu.pc wraps.
THEOREM Invariance == Spec => []TypeOK
<1>1. Init => TypeOK
  BY TypeInit
<1>2. TypeOK /\ [Next]_vars => TypeOK'
  BY TypeStep
<1> QED
  BY <1>1, <1>2, PTL DEF Spec

-----------------------------------------------------------------------------
\* The program counter.

LEMMA WrapAligned == ASSUME NEW x \in Int, x % 4 = 0
                     PROVE  Wrap(x) % 4 = 0
<1> DEFINE k == Pow2[Width - 2]
<1>1. k \in Nat \ {0} /\ Space = k * 4
  BY SpaceByFour
<1> HIDE DEF k
<1>2. 4 \in Nat \ {0}
  OBVIOUS
<1>3. (x % (k * 4)) % 4 = 0
  BY <1>1, <1>2, DivisorKept, Zenon
<1> QED
  BY <1>1, <1>3 DEF Wrap

LEMMA RetireAligned == ASSUME NEW target \in Int, target % 4 = 0, Retire(target)
                       PROVE  pc' % 4 = 0
<1>1. target + 4 \in Int /\ (target + 4) % 4 = 0
  OBVIOUS
<1> QED
  BY <1>1, WrapAligned DEF Retire

LEMMA AlignedStep == ASSUME TypeOK, Next, pc % 4 = 0, ~Running({"jalr"})
                     PROVE  pc' % 4 = 0
<1>0. pc \in Int /\ pc % 4 = 0
  BY Operands
<1>1. CASE \/ Compute \/ fence \/ Csr
  BY <1>0, <1>1, RetireAligned DEF Compute, fence, Csr
<1>2. CASE \/ DivisionTraps \/ Abort
  BY <1>2 DEF DivisionTraps, Abort, Stop
<1>3. CASE Load \/ Store
  <2>1. Stop("fault") \/ Retire(pc)
    BY <1>3 DEF Load, Store
  <2> QED
    BY <2>1, <1>0, RetireAligned DEF Stop
<1>4. CASE Branch
  <2> DEFINE simm == BRANCH_SIMM
             target == IF Taken(Handler(inst)) THEN pc + 2 * simm ELSE pc
  <2>1. simm \in Int /\ simm % 2 = 0
    BY Offsets
  <2>2. Retire(target)
    BY <1>4 DEF Branch
  <2> HIDE DEF simm
  <2>3. target \in Int /\ target % 4 = 0
    BY <1>0, <2>1
  <2> QED
    BY <2>2, <2>3, RetireAligned
<1>5. CASE jal
  <2> DEFINE q == Pow2[ImmBits - 2]
             target == pc + inst.u * Pow2[ImmBits]
  <2>1. q \in Nat /\ Pow2[ImmBits] = 4 * q /\ inst.u \in Nat
    BY ImmSizes, Fields, Operands
  <2> HIDE DEF q
  <2>2. inst.u * q \in Nat /\ target = pc + 4 * (inst.u * q)
    BY <1>0, <2>1
  <2>3. Retire(target)
    BY <1>5 DEF jal
  <2> HIDE DEF target
  <2>4. target \in Int /\ target % 4 = 0
    BY <1>0, <2>2
  <2> QED
    BY <2>3, <2>4, RetireAligned
<1>6. CASE jalr
  BY <1>6 DEF jalr
<1>7. CASE inv
  <2>1. pc + 4 \in Int /\ (pc + 4) % 4 = 0
    BY <1>0
  <2> QED
    BY <1>7, <2>1, WrapAligned DEF inv
<1> QED
  BY <1>1, <1>2, <1>3, <1>4, <1>5, <1>6, <1>7 DEF Next

\* The assertion of cpu_exec on an aligned cpu.pc can fail after a jalr only,
\* for every width of words: the offsets that branches add are multiples of
\* four, the link of the other instructions too, and wrapping keeps that.
THEOREM Alignment == Spec => PcStaysAligned
<1>1. TypeOK /\ [Next]_vars =>
         [(pc % 4 = 0 /\ ~Running({"jalr"})) => pc' % 4 = 0]_vars
  BY AlignedStep
<1> QED
  BY <1>1, Invariance, PTL DEF Spec, PcStaysAligned

-----------------------------------------------------------------------------
\* Loads and stores.

\* The macro of the stores forgets the sign only.
LEMMA StoreOffset == ASSUME TypeOK, ImmS(inst) >= 0
                     PROVE  STORE_SIMM = ImmS(inst)
<1> DEFINE T == Pow2[F7Bits - 1]
           H == Pow2[ImmBits - 1]
           f == inst.func7
           x == f * Width + inst.rd
<1>1. /\ T \in Nat \ {0} /\ Pow2[F7Bits] = 2 * T /\ Width \in Nat \ {0}
      /\ H = Width * T /\ Pow2[ImmBits] = 2 * H /\ H \in Nat
  BY ImmSizes, Numbers
<1>2. inst.rd \in 0 .. Width - 1 /\ f \in 0 .. 2 * T - 1
  BY <1>1, Fields DEF TypeOK
<1> HIDE DEF T, H, f
<1>3. x \in Nat /\ x < 2 * H
  <2>1. f * Width \in Nat /\ f * Width <= (2 * T - 1) * Width
    BY <1>1, <1>2
  <2>2. (2 * T - 1) * Width = 2 * H - Width
    BY <1>1
  <2> QED
    BY <1>1, <1>2, <2>1, <2>2
<1>4. ImmS(inst) = IF x < H THEN x ELSE x - 2 * H
  BY <1>1 DEF ImmS, SignedOf, H, f
<1> HIDE DEF x
<1>5. x < H
  BY <1>1, <1>3, <1>4
<1>6. f < T
  <2>1. SUFFICES ASSUME f >= T PROVE FALSE
    BY <1>1, <1>2
  <2>2. f * Width >= T * Width
    BY <1>1, <1>2, <2>1
  <2> QED
    BY <1>1, <1>2, <1>5, <2>2 DEF x
<1>7. Top(f) = 0
  <2> DEFINE q == f \div T
             r == f % T
  <2>1. q \in Nat /\ f = q * T + r /\ r \in 0 .. T - 1
    BY <1>1, <1>2
  <2> HIDE DEF q, r
  <2>2. q > 0 => q * T >= T
    BY <1>1, <2>1
  <2>3. q = 0
    BY <1>1, <1>6, <2>1, <2>2
  <2> QED
    BY <2>3 DEF Top, T, q
<1>8. STORE_SIMM = x
  BY <1>1, <1>2, <1>7 DEF STORE_SIMM, x, f
<1> QED
  BY <1>3, <1>4, <1>5, <1>8

LEMMA AccessStep ==
    ASSUME TypeOK, Next, access' # access
    PROVE  LET h == Handler(inst)
               a == IF h \in Loads THEN Wrap(A + ImmI(inst)) ELSE Wrap(A + ImmS(inst))
           IN  /\ access'.len = Bytes(h) /\ access'.addr % Bytes(h) = 0
               /\ access'.write <=> h \in Stores
               /\ (h \in Loads \/ ImmS(inst) >= 0) => access'.addr = a
               /\ h \in Loads => gpr'[inst.rd] = Loaded(h, access'.data)
<1> DEFINE h == Handler(inst)
<1>1. CASE Load
  <2> DEFINE addr == Wrap(A + simm_11_0)
             len  == Bytes(h)
  <2>1. h \in Loads /\ h \notin Stores
    BY <1>1 DEF Load, Running, Loads, Stores
  <2>2. PICK w \in StartWords :
           /\ access' = [write |-> FALSE, addr |-> addr, len |-> len, data |-> w % DataSpace(len)]
           /\ Set(inst.rd, IF h \in {"lb", "lh"}
                           THEN Wrap(SignedOf(w % DataSpace(len), len * (Width \div 4)))
                           ELSE w % DataSpace(len))
    BY <1>1 DEF Load, Stop
  <2>3. addr % len = 0
    BY <1>1 DEF Load, Stop
  <2>4. addr = Wrap(A + ImmI(inst))
    BY Operands
  <2> DEFINE data == w % DataSpace(len)
  <2>5. gpr'[inst.rd] = Loaded(h, data)
    <3>1. inst.rd \in DOMAIN gpr
      BY Operands DEF TypeOK
    <3> QED
      BY <2>2, <3>1 DEF Set, Loaded
  <2> HIDE DEF addr, len, data
  <2>6. /\ access'.len = len /\ access'.addr = addr /\ access'.data = data
        /\ access'.write = FALSE
    BY <2>2 DEF data
  <2> QED
    BY <2>1, <2>3, <2>4, <2>5, <2>6 DEF len
<1>2. CASE Store
  <2> DEFINE addr == Wrap(A + STORE_SIMM)
             len  == Bytes(h)
  <2>1. h \in Stores /\ h \notin Loads
    BY <1>2 DEF Store, Running, Loads, Stores
  <2>2. /\ access' = [write |-> TRUE, addr |-> addr, len |-> len, data |-> B % DataSpace(len)]
        /\ addr % len = 0
    BY <1>2 DEF Store, Stop
  <2>3. ImmS(inst) >= 0 => addr = Wrap(A + ImmS(inst))
    BY StoreOffset
  <2> HIDE DEF addr, len
  <2>4. access'.len = len /\ access'.addr = addr /\ access'.write = TRUE
    BY <2>2
  <2> QED
    BY <2>1, <2>2, <2>3, <2>4 DEF len
<1>3. CASE ~Load /\ ~Store
  BY <1>3 DEF Next, Compute, DivisionTraps, Branch, jal, jalr, fence, Csr, inv, Abort, Stop
<1> QED
  BY <1>1, <1>2, <1>3

\* For every width: no unaligned address reaches memory, a load goes to the
\* address of the architecture and extends what it finds as it should, and a
\* store goes to the right address if its offset is not negative (the macro
\* STORE_SIMM puts the sign together from a field that has none).
THEOREM Accesses == Spec => AccessesAsRiscv
<1>1. TypeOK /\ [Next]_vars =>
        [(access' # access) =>
           LET h == Handler(inst)
               a == IF h \in Loads THEN Wrap(A + ImmI(inst)) ELSE Wrap(A + ImmS(inst))
           IN  /\ access'.len = Bytes(h) /\ access'.addr % Bytes(h) = 0
               /\ access'.write <=> h \in Stores
               /\ (h \in Loads \/ ImmS(inst) >= 0) => access'.addr = a
               /\ h \in Loads => gpr'[inst.rd] = Loaded(h, access'.data)]_vars
  BY AccessStep
<1> QED
  BY <1>1, Invariance, PTL DEF Spec, AccessesAsRiscv

-----------------------------------------------------------------------------
\* Instructions on CSRs.

\* The bits that the architecture puts in the CSR.
NewBits(h, old, mask) == CASE h \in {"csrrw", "csrrwi"} -> mask
                           [] h \in {"csrrs", "csrrsi"} -> old \cup mask
                           [] h \in {"csrrc", "csrrci"} -> old \ mask

\* What is stored has these bits.
LEMMA CsrBits == ASSUME NEW h \in CsrOps, NEW old \in Word, NEW x \in Word
                 PROVE  BitsOf[CsrValue(h, old, x)] = NewBits(h, BitsOf[old], BitsOf[x])
<1>1. CASE h \in {"csrrw", "csrrwi"}
  BY <1>1 DEF CsrValue, NewBits
<1>2. CASE h \in {"csrrs", "csrrsi"}
  <2>1. BitsOf[Or(old, x)] = BitsOf[old] \cup BitsOf[x]
    BY Logic
  <2> QED
    BY <1>2, <2>1 DEF CsrValue, NewBits
<1>3. CASE h \in {"csrrc", "csrrci"}
  <2>1. Not(x) \in Word /\ BitsOf[Not(x)] = Bits \ BitsOf[x]
    BY Logic
  <2>2. BitsOf[And(old, Not(x))] = BitsOf[old] \cap BitsOf[Not(x)]
    BY <2>1, Logic
  <2>3. BitsOf[old] \in SUBSET Bits
    BY BitsType
  <2>4. BitsOf[And(old, Not(x))] = BitsOf[old] \ BitsOf[x]
    BY <2>1, <2>2, <2>3
  <2> QED
    BY <1>3, <2>4 DEF CsrValue, NewBits
<1> QED
  BY <1>1, <1>2, <1>3 DEF CsrOps

LEMMA CsrStep ==
    ASSUME TypeOK, Next, Running(CsrOps), inst.rd # 0, gpr' # gpr \/ csr' # csr
    PROVE  LET h    == Handler(inst)
               byRegister == h \in {"csrrw", "csrrs", "csrrc"}
               old  == BitsOf[csr[imm_11_0]]
               mask == BitsOf[IF byRegister THEN A ELSE inst.rs1]
           IN  /\ gpr' = [gpr EXCEPT ![inst.rd] = csr[imm_11_0]]
               /\ ~(byRegister /\ inst.rd = inst.rs1) =>
                     BitsOf[csr'[imm_11_0]] =
                        CASE h \in {"csrrw", "csrrwi"} -> mask
                          [] h \in {"csrrs", "csrrsi"} -> old \cup mask
                          [] h \in {"csrrc", "csrrci"} -> old \ mask
<1> DEFINE h == Handler(inst)
           byRegister == h \in {"csrrw", "csrrs", "csrrc"}
           x == IF byRegister THEN gpr'[inst.rs1] ELSE inst.rs1
           y == IF byRegister THEN A ELSE inst.rs1
<1>1. h \in CsrOps /\ imm_11_0 \in Csrs
  BY CsrAssumption, Operands DEF Running, imm_11_0
<1>2. Csr
  BY <1>1 DEF Next, Running, Compute, DivisionTraps, Load, Store, Branch, jal, jalr, fence,
              inv, Abort, Computations, Divisions, Loads, Stores, Branches, CsrOps
<1>3. /\ gpr' = [gpr EXCEPT ![inst.rd] = csr[imm_11_0]]
      /\ csr' = [csr EXCEPT ![imm_11_0] = CsrValue(h, csr[imm_11_0], x)]
  BY <1>2 DEF Csr, Set
<1>4. ASSUME ~(byRegister /\ inst.rd = inst.rs1)
      PROVE  x = y /\ y \in Word
  <2>1. inst.rs1 \in 0 .. Width - 1 /\ inst.rs1 \in Word
    BY Fields, Operands, RegisterWord
  <2>2. byRegister => gpr'[inst.rs1] = A
    BY <1>3, <1>4, <2>1 DEF A, TypeOK
  <2> QED
    BY <2>1, <2>2, Operands
<1>5. csr[imm_11_0] \in Word /\ csr'[imm_11_0] = CsrValue(h, csr[imm_11_0], x)
  BY <1>1, <1>3 DEF TypeOK
<1>6. ASSUME ~(byRegister /\ inst.rd = inst.rs1)
      PROVE  BitsOf[csr'[imm_11_0]] = NewBits(h, BitsOf[csr[imm_11_0]], BitsOf[y])
  <2>1. x = y /\ y \in Word
    BY <1>4, <1>6
  <2> DEFINE c == csr[imm_11_0]
  <2> HIDE DEF x, y, h
  <2>2. csr'[imm_11_0] = CsrValue(h, c, y) /\ c \in Word
    BY <1>5, <2>1
  <2> HIDE DEF c
  <2>3. BitsOf[CsrValue(h, c, y)] = NewBits(h, BitsOf[c], BitsOf[y])
    BY <1>1, <2>1, <2>2, CsrBits
  <2> QED
    BY <2>2, <2>3 DEF c
<1> QED
  BY <1>3, <1>6, Zenon DEF NewBits

\* An instruction on a CSR that does anything does the whole exchange that the
\* architecture asks for, bit by bit, for every width, every set of CSRs and
\* every mask, unless rd is also the register that holds the mask.
THEOREM CsrExchange == Spec => CsrAsRiscv
<1>1. TypeOK /\ [Next]_vars =>
        [(Running(CsrOps) /\ inst.rd # 0 /\ (gpr' # gpr \/ csr' # csr)) =>
           LET h    == Handler(inst)
               byRegister == h \in {"csrrw", "csrrs", "csrrc"}
               old  == BitsOf[csr[imm_11_0]]
               mask == BitsOf[IF byRegister THEN A ELSE inst.rs1]
           IN  /\ gpr' = [gpr EXCEPT ![inst.rd] = csr[imm_11_0]]
               /\ ~(byRegister /\ inst.rd = inst.rs1) =>
                     BitsOf[csr'[imm_11_0]] =
                        CASE h \in {"csrrw", "csrrwi"} -> mask
                          [] h \in {"csrrs", "csrrsi"} -> old \cup mask
                          [] h \in {"csrrc", "csrrci"} -> old \ mask]_vars
  BY CsrStep
<1> QED
  BY <1>1, Invariance, PTL DEF Spec, CsrAsRiscv

-----------------------------------------------------------------------------
\* Computations.

\* The decoding of the immediates: with func7 = 0 or 1 only, so the upper bits
\* of the immediate are clear, but for the bit that says srai.
LEMMA ImmediateDecoded == ASSUME NEW i \in Insts, Handler(i) \in Immediates
                          PROVE  i.func7 = IF Handler(i) = "srai" THEN 1 ELSE 0
<1> DEFINE f == i.func3 + 1
<1>1. f \in 1 .. 8
  BY Fields
<1> HIDE DEF f
<1>2. /\ branch_table[f] \notin Immediates /\ load_table[f] \notin Immediates
      /\ store_table[f] \notin Immediates /\ csr_table[f] \notin Immediates
  BY <1>1 DEF branch_table, load_table, store_table, csr_table, Immediates
<1>3. /\ alu_table_0[f] \notin Immediates /\ alu_table_1[f] \notin Immediates
      /\ alu_table_32[f] \notin Immediates
  BY <1>1 DEF alu_table_0, alu_table_1, alu_table_32, Immediates
<1>4. exec_alu(i) \notin Immediates
  BY <1>3 DEF exec_alu, f, Immediates
<1>5. opcode_table[i.op \div 4] \notin Immediates
  <2>1. i.op \div 4 \in 0 .. 31
    BY Fields
  <2> QED
    BY <2>1 DEF opcode_table, Immediates
<1>6. Handler(i) = exec_alui(i)
  BY <1>2, <1>4, <1>5 DEF Handler, f, Immediates
<1>7. /\ alui_table_0[f] # "srai" /\ alui_table_32[f] \in {"inv", "srai"}
  BY <1>1 DEF alui_table_0, alui_table_32
<1> QED
  BY <1>6, <1>7 DEF exec_alui, f, Immediates

\* So such an immediate is a small number, and its lower bits are shamt.
LEMMA SmallImmediate == ASSUME NEW i \in Insts, Handler(i) \in Immediates
                        PROVE  /\ ImmI(i) = i.func7 * Width + i.rs2
                               /\ Wrap(ImmI(i)) = ImmI(i)
                               /\ Wrap(ImmI(i)) % Width = i.rs2
<1> DEFINE T == Pow2[F7Bits - 1]
           H == Pow2[ImmBits - 1]
           x == i.func7 * Width + i.rs2
<1>1. T \in Nat /\ T > 1 /\ H = Width * T /\ Width \in Nat /\ H <= Space
  BY ImmSizes, Numbers, PowerFits
<1>2. i.func7 \in {0, 1} /\ i.rs2 \in 0 .. Width - 1
  BY ImmediateDecoded, Fields
<1> HIDE DEF T, H
<1>3. H >= 2 * Width
  BY <1>1
<1>4. x \in Nat /\ x < H
  BY <1>1, <1>2, <1>3
<1>5. ImmI(i) = x
  BY <1>4 DEF ImmI, SignedOf, H
<1>6. x % Width = i.rs2
  <2> DEFINE r == i.rs2
             k == i.func7
  <2>1. r \in 0 .. Width - 1 /\ r \in Int /\ k \in Int /\ Width \in Nat \ {0}
    BY <1>1, <1>2
  <2>2. x = r + k * Width
    BY <2>1
  <2> HIDE DEF r, k, x
  <2>3. (r + k * Width) % Width = r % Width
    BY <2>1, ResidueShift, Zenon
  <2>4. r % Width = r
    BY <2>1
  <2> QED
    BY <2>2, <2>3, <2>4, Zenon DEF r
<1> HIDE DEF x
<1>7. Wrap(x) = x
  BY <1>1, <1>4, Sizes DEF Wrap
<1> QED
  BY <1>5, <1>6, <1>7 DEF x

\* The low word of a product does not depend on signs.
LEMMA MulWord == ASSUME NEW x \in Word, NEW y \in Word
                 PROVE  Wrap(Signed(x) * Signed(y)) = Wrap(x * y)
<1>1. PICK j \in {0, 1} : Signed(x) = x - j * Space
  BY SignedInt
<1>2. PICK k \in {0, 1} : Signed(y) = y - k * Space
  BY SignedInt
<1> DEFINE n == x * y
           q == (j * k) * Space - j * y - k * x
           p == Signed(x) * Signed(y)
<1>3. x \in Nat /\ y \in Nat /\ Space \in Nat \ {0}
  BY WordInt, Sizes
<1>4. n \in Int /\ q \in Int /\ p = n + q * Space
  BY <1>1, <1>2, <1>3
<1> HIDE DEF n, q, p
<1>5. p % Space = n % Space
  BY <1>3, <1>4, ResidueShift
<1> QED
  BY <1>5 DEF Wrap, n, p

\* The high word of an unsigned product needs no cut.
LEMMA MulhuWord == ASSUME NEW x \in Word, NEW y \in Word
                   PROVE  Wrap((x * y) \div Space) = (x * y) \div Space
<1> DEFINE n == x * y
           q == n \div Space
           r == n % Space
<1>1. x \in 0 .. Space - 1 /\ y \in 0 .. Space - 1 /\ Space \in Nat \ {0}
  BY Sizes DEF Word
<1>2. n \in Nat /\ n < Space * Space
  <2>1. x * y <= x * Space /\ x * Space < Space * Space /\ x * y \in Nat
    BY <1>1
  <2> QED
    BY <1>1, <2>1
<1> HIDE DEF n
<1>3. q \in Nat /\ n = q * Space + r /\ r \in 0 .. Space - 1
  BY <1>1, <1>2
<1> HIDE DEF q, r
<1>4. q < Space
  <2>1. SUFFICES ASSUME q >= Space PROVE FALSE
    BY <1>1, <1>3
  <2>2. q * Space >= Space * Space
    BY <1>1, <1>3, <2>1
  <2> QED
    BY <1>1, <1>2, <1>3, <2>2
<1>5. q % Space = q
  BY <1>1, <1>3, <1>4
<1> QED
  BY <1>5 DEF Wrap, q, n

\* The high word of a product taken in 64 bits without a sign is that of the
\* product.
LEMMA HighWord == ASSUME NEW p \in Int
                  PROVE  Wrap((p % (Space * Space)) \div Space) = Wrap(p \div Space)
<1> DEFINE s == Space
           d == s * s
           r == p % d
           q == p \div d
           a == r \div s
           b == r % s
<1>1. s \in Nat \ {0}
  BY Sizes
<1>2. d \in Nat \ {0}
  BY <1>1
<1> HIDE DEF d
<1>3. r \in Nat /\ q \in Int /\ p = q * d + r
  BY <1>2
<1> HIDE DEF r, q
<1>4. a \in Nat /\ b \in 0 .. s - 1 /\ r = a * s + b
  BY <1>1, <1>3
<1> HIDE DEF a, b, s
<1> DEFINE m == q * s + a
<1>5. m \in Int /\ p = m * s + b
  <2>1. q * d = (q * s) * s
    BY <1>1, <1>3 DEF d
  <2>2. q * s \in Int
    BY <1>1, <1>3
  <2> QED
    BY <1>1, <1>3, <1>4, <2>1, <2>2
<1>6. m % s = a % s
  <2>1. \A i, j \in Int : (i + j * s) % s = i % s
    BY <1>1, ResidueShift
  <2>2. a + q * s = m /\ a \in Int
    BY <1>1, <1>3, <1>4
  <2> QED
    BY <1>3, <2>1, <2>2
<1> HIDE DEF m
<1>7. p \div s = m
  BY <1>1, <1>4, <1>5
<1> QED
  BY <1>6, <1>7 DEF Wrap, a, r, d, s

\* An int64_t times a uint64_t, wrapped, is the product wrapped.
LEMMA ProductWrapped == ASSUME NEW x \in Int, NEW y \in Int
                        PROVE  Product64(x, y) = (x * y) % (Space * Space)
<1> DEFINE d == Space * Space
           r == x % d
           q == x \div d
           p == x * y
           k == q * y
           n == r * y
<1>1. d \in Nat \ {0}
  BY Sizes
<1> HIDE DEF d
<1>2. r \in Int /\ q \in Int /\ x = q * d + r
  BY <1>1
<1> HIDE DEF r, q
<1>3. n \in Int /\ k \in Int /\ p = n + k * d
  <2>1. n \in Int /\ k \in Int
    BY <1>2
  <2>2. k * d = (q * d) * y
    BY <1>1, <1>2
  <2>3. p = (q * d + r) * y
    BY <1>2
  <2>4. (q * d + r) * y = (q * d) * y + n
    BY <1>1, <1>2
  <2> DEFINE e == (q * d) * y
  <2>5. e \in Int
    BY <1>1, <1>2
  <2> HIDE DEF e, n, k, p
  <2>6. k * d = e /\ p = e + n
    BY <2>2, <2>3, <2>4 DEF e
  <2> QED
    BY <2>1, <2>5, <2>6
<1> HIDE DEF n, k, p
<1>4. p % d = n % d
  BY <1>1, <1>3, ResidueShift
<1> QED
  BY <1>4 DEF Product64, n, r, p, d

\* A small immediate stands for itself as a signed number.
LEMMA SignedImmediate == ASSUME NEW i \in Insts, Handler(i) \in {"slti", "sltiu"}
                         PROVE  Wrap(ImmI(i)) = i.rs2 /\ Signed(i.rs2) = i.rs2
<1>1. Handler(i) \in Immediates /\ Handler(i) # "srai"
  BY DEF Immediates
<1>2. Wrap(ImmI(i)) = i.func7 * Width + i.rs2 /\ i.func7 = 0
  BY <1>1, ImmediateDecoded, SmallImmediate
<1>3. i.rs2 \in 0 .. Width - 1
  BY Fields
<1>4. i.rs2 < Pow2[Width - 1]
  BY <1>3, Sizes, Numbers
<1> QED
  BY <1>2, <1>3, <1>4, Numbers DEF Signed, SignedOf

LEMMA ValueIsComputed == ASSUME TypeOK, Handler(inst) \in Computations, ~Traps(Handler(inst))
                         PROVE  Value(Handler(inst)) = Computed
<1> DEFINE h == Handler(inst)
           imm == Wrap(ImmI(inst))
<1>0. h \in Computations /\ ~Traps(h) /\ inst \in Insts /\ simm_11_0 = ImmI(inst)
  BY Operands
<1> HIDE DEF imm
<1>1. CASE h \in {"add", "sub", "and", "or", "xor", "slt", "sltu", "sll", "srl", "sra", "mulh"}
  BY <1>1 DEF Value, Computed, Result, SecondOperand, Immediates
<1>2. CASE h \in Divisions
  <2>1. B # 0
    BY <1>0, <1>2 DEF Traps
  <2> QED
    BY <1>2, <2>1 DEF Value, Computed, Result, SecondOperand, Immediates, Divisions
<1>3. CASE h \in {"mul", "mulhu", "mulhsu"}
  <2>1. /\ Wrap(Signed(A) * Signed(B)) = Wrap(A * B)
        /\ Wrap((A * B) \div Space) = (A * B) \div Space
    BY Operands, MulWord, MulhuWord
  <2>2. Wrap(Product64(Signed(A), B) \div Space) = Wrap((Signed(A) * B) \div Space)
    <3> DEFINE p == Signed(A) * B
    <3>1. p \in Int
      BY Operands
    <3>2. Product64(Signed(A), B) = p % (Space * Space)
      BY Operands, ProductWrapped
    <3> HIDE DEF p
    <3>3. Wrap((p % (Space * Space)) \div Space) = Wrap(p \div Space)
      BY <3>1, HighWord
    <3> QED
      BY <3>2, <3>3 DEF p
  <2> QED
    BY <1>3, <2>1, <2>2 DEF Value, Computed, Result, SecondOperand, Immediates
<1>4. CASE h \in {"lui", "auipc"}
  BY <1>4 DEF Value, Computed, ImmU
<1>5. CASE h \in {"addi", "andi", "ori", "xori"}
  <2>1. Computed = Result(h, A, imm)
    BY <1>5 DEF Computed, SecondOperand, Immediates, imm
  <2>2. Wrap(A + imm) = Wrap(A + simm_11_0)
    <3>1. A \in Int /\ ImmI(inst) \in Int /\ Space \in Nat \ {0}
      BY Operands, Sizes
    <3>2. (A + (ImmI(inst) % Space)) % Space = (A + ImmI(inst)) % Space
      BY <3>1, ResidueOfSum
    <3> QED
      BY <1>0, <3>2 DEF Wrap, imm
  <2>3. imm = Wrap(simm_11_0)
    BY <1>0 DEF imm
  <2> QED
    BY <1>5, <2>1, <2>2, <2>3 DEF Value, Result
<1>6. CASE h \in {"slli", "srli", "srai"}
  <2>1. Computed = Result(h, A, imm)
    BY <1>6 DEF Computed, SecondOperand, Immediates, imm
  <2>2. imm % Width = shamt
    BY <1>0, <1>6, SmallImmediate DEF imm, shamt, Immediates
  <2> QED
    BY <1>6, <2>1, <2>2 DEF Value, Result
<1>7. CASE h \in {"slti", "sltiu"}
  <2>1. Computed = Result(h, A, imm)
    BY <1>7 DEF Computed, SecondOperand, Immediates, imm
  <2>2. imm = inst.rs2 /\ Signed(imm) = inst.rs2
    BY <1>0, <1>7, SignedImmediate DEF imm
  <2>3. inst.func7 = 0 /\ ImmI(inst) = inst.rs2 /\ imm_11_0 = inst.rs2
    <3>1. h \in Immediates /\ h # "srai"
      BY <1>7 DEF Immediates
    <3>2. inst.func7 = 0 /\ ImmI(inst) = inst.func7 * Width + inst.rs2
      BY <1>0, <3>1, ImmediateDecoded, SmallImmediate
    <3> QED
      BY <1>0, <3>2, Fields, Numbers DEF imm_11_0
  <2> QED
    BY <1>0, <1>7, <2>1, <2>2, <2>3 DEF Value, Result
<1> QED
  BY <1>0, <1>1, <1>2, <1>3, <1>4, <1>5, <1>6, <1>7, Zenon DEF Computations, Divisions

LEMMA ComputeStep ==
    ASSUME TypeOK, Next, Running(Computations \cup {"jal", "jalr"})
    PROVE  \/ status' = "signal" /\ Special(Handler(inst), A, B)
           \/ /\ status' = "done" /\ csr' = csr
              /\ inst.rd # 0 =>
                    gpr' = [gpr EXCEPT ![inst.rd] =
                              IF Running({"jal", "jalr"}) THEN Wrap(pc + 4) ELSE Computed]
<1> DEFINE h == Handler(inst)
<1>1. h \in Computations \cup {"jal", "jalr"} /\ status = "exec"
  BY DEF Running
<1>2. CASE Compute
  <2>1. h \in Computations /\ ~Traps(h)
    BY <1>2 DEF Compute, Running
  <2>2. ~Running({"jal", "jalr"})
    BY <2>1 DEF Running, Computations, Divisions
  <2>3. gpr' = [gpr EXCEPT ![inst.rd] = Computed]
    BY <1>2, <2>1, ValueIsComputed DEF Compute, Set
  <2> QED
    BY <1>2, <2>2, <2>3 DEF Compute, Retire
<1>3. CASE DivisionTraps
  BY <1>3 DEF DivisionTraps, Stop, Traps, Special, Divisions, Running
<1>4. CASE jal \/ jalr
  <2>1. Running({"jal", "jalr"})
    BY <1>4 DEF jal, jalr, Running
  <2>2. gpr' = [gpr EXCEPT ![inst.rd] = Wrap(pc + 4)] /\ status' = "done" /\ csr' = csr
    BY <1>4 DEF jal, jalr, Set, Retire
  <2> QED
    BY <2>1, <2>2
<1>5. ~(Load \/ Store \/ Branch \/ fence \/ Csr \/ inv \/ Abort)
  BY <1>1 DEF Load, Store, Branch, fence, Csr, inv, Abort, Running, Computations, Divisions,
              Loads, Stores, Branches, CsrOps
<1> QED
  BY <1>2, <1>3, <1>4, <1>5 DEF Next

\* The handlers of the computations and the link of the jumps are RV32IM for
\* every width, every instruction and all contents of the registers: shifts by
\* immediates, products of mixed signs and comparisons too, and a process that
\* stops stops in a division the host cannot do.
THEOREM Computes == Spec => ComputesAsRiscv
<1>1. TypeOK /\ [Next]_vars =>
        [Running(Computations \cup {"jal", "jalr"}) =>
           \/ status' = "signal" /\ Special(Handler(inst), A, B)
           \/ /\ status' = "done" /\ csr' = csr
              /\ inst.rd # 0 =>
                    gpr' = [gpr EXCEPT ![inst.rd] =
                              IF Running({"jal", "jalr"}) THEN Wrap(pc + 4)
                                                          ELSE Computed]]_vars
  BY ComputeStep
<1> QED
  BY <1>1, Invariance, PTL DEF Spec, ComputesAsRiscv
=============================================================================

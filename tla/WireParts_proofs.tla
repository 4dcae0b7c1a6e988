--------------------------- MODULE WireParts_proofs ---------------------------
(***************************************************************************)
(* Proofs about what the generated code writes a message of and about a    *)
(* round of the loop that reads it: for every width of bytes, words and    *)
(* int32s that WidthAssumption allows (those of the code among them),      *)
(* every value and every byte around it.                                   *)
(*                                                                         *)
(* A varint is read back because its groups are the digits of the number   *)
(* in base Cont: the sum of the first n digits is the remainder modulo the *)
(* n-th power (FromDigitsOfNumber), and there are Sov of them, as many as  *)
(* the number takes (SovFits).  Indices stay within the bytes because two  *)
(* of them that are not negative overflow to a negative number             *)
(* (SumOrNegative), which is what the code looks for.                      *)
(*                                                                         *)
(* Library facts about powers of two are not at hand: they are proved of   *)
(* the numbers of subsets (PowerStep).                                     *)
(***************************************************************************)
EXTENDS WireParts, FiniteSets, FiniteSetTheorems, WellFoundedInduction, TLAPS

-----------------------------------------------------------------------------
(* Natural numbers and powers of two *)

\* Every set of natural numbers has a least one.
LEMMA Least ==
  ASSUME NEW T \in SUBSET Nat, T # {}
  PROVE  \E n \in T : \A m \in T : n <= m
<1>. DEFINE R == OpToRel(<, Nat)
<1>1. IsWellFoundedOn(R, Nat)
  BY NatLessThanWellFounded
<1>2. \A n, m \in Nat : n < m => <<n, m>> \in R
  BY DEF OpToRel
<1>. HIDE DEF R
<1>3. PICK n \in T : \A m \in T : ~ (<<m, n>> \in R)
  BY <1>1, WFMin
<1>4. \A m \in T : n \in Nat /\ m \in Nat /\ ~ (m < n)
  BY <1>2, <1>3
<1>. QED
  BY <1>4

\* Induction, for the set of the numbers of which something holds.
LEMMA Induct ==
  ASSUME NEW S, 0 \in S, \A n \in Nat : n \in S => n + 1 \in S
  PROVE  Nat \subseteq S
<1>. SUFFICES ASSUME Nat \ S # {} PROVE FALSE
  OBVIOUS
<1>1. PICK n \in Nat \ S : \A m \in Nat \ S : n <= m
  BY Least, Nat \ S \in SUBSET Nat
<1>2. n # 0 /\ n - 1 \in Nat
  BY <1>1
<1>3. n - 1 \in S
  BY <1>1, <1>2
<1>4. (n - 1) + 1 \in S
  BY <1>2, <1>3
<1>. QED
  BY <1>1, <1>2, <1>4

\* A power of two is the number of subsets; one more element doubles them.
LEMMA PowerStep ==
  ASSUME NEW n \in Nat
  PROVE  2 ^ n \in Nat /\ 2 ^ (n + 1) = 2 * 2 ^ n
<1>. DEFINE A == 1 .. n
            f == [S \in SUBSET A |-> S \union {n + 1}]
            B == {S \union {n + 1} : S \in SUBSET A}
<1>1. IsFiniteSet(SUBSET A) /\ Cardinality(SUBSET A) = 2 ^ n
  <2>1. IsFiniteSet(A) /\ Cardinality(A) = n
    BY FS_Interval
  <2>. QED
    BY <2>1, FS_SUBSET
<1>2. Cardinality(SUBSET (1 .. n + 1)) = 2 ^ (n + 1)
  <2>1. IsFiniteSet(1 .. n + 1) /\ Cardinality(1 .. n + 1) = n + 1
    BY FS_Interval
  <2>. QED
    BY <2>1, FS_SUBSET
<1>3. IsFiniteSet(B) /\ Cardinality(B) = 2 ^ n
  <2>1. \A S, T \in SUBSET A : f[S] = f[T] => S = T
    <3>. SUFFICES ASSUME NEW S \in SUBSET A, NEW T \in SUBSET A, f[S] = f[T] PROVE S = T
      OBVIOUS
    <3>1. S = f[S] \ {n + 1} /\ T = f[T] \ {n + 1}
      OBVIOUS
    <3>. QED
      BY <3>1
  <2>2. f \in [SUBSET A -> B] /\ \A T \in B : \E S \in SUBSET A : f[S] = T
    OBVIOUS
  <2>. HIDE DEF f, B, A
  <2>3. f \in Bijection(SUBSET A, B)
    BY <2>1, <2>2 DEF Bijection, Injection, Surjection, IsInjective
  <2>4. ExistsBijection(SUBSET A, B)
    BY <2>3 DEF ExistsBijection
  <2>. QED
    BY <1>1, <2>4, FS_Bijection
<1>4. SUBSET (1 .. n + 1) = (SUBSET A) \union B
  <2>1. ASSUME NEW S \in SUBSET (1 .. n + 1), S \notin SUBSET A PROVE S \in B
    <3>1. n + 1 \in S /\ S \ {n + 1} \in SUBSET A
      BY <2>1
    <3>2. S = (S \ {n + 1}) \union {n + 1}
      BY <3>1
    <3>. QED
      BY <3>1, <3>2
  <2>2. ASSUME NEW S \in SUBSET A PROVE S \union {n + 1} \subseteq 1 .. n + 1
    OBVIOUS
  <2>3. SUBSET A \subseteq SUBSET (1 .. n + 1)
    OBVIOUS
  <2>4. B \subseteq SUBSET (1 .. n + 1)
    BY <2>2
  <2>. HIDE DEF A, B
  <2>. QED
    BY <2>1, <2>3, <2>4
<1>5. (SUBSET A) \cap B = {}
  OBVIOUS
<1>. HIDE DEF A, B, f
<1>6. Cardinality((SUBSET A) \union B) =
        Cardinality(SUBSET A) + Cardinality(B) - Cardinality((SUBSET A) \cap B)
  BY <1>1, <1>3, FS_Union
<1>7. Cardinality((SUBSET A) \cap B) = 0
  BY <1>5, FS_EmptySet
<1>8. 2 ^ n \in Nat
  BY <1>1, FS_CardinalityType
<1>9. 2 ^ (n + 1) = 2 ^ n + 2 ^ n - 0
  BY <1>1, <1>2, <1>3, <1>4, <1>6, <1>7
<1>. QED
  BY <1>8, <1>9

\* Powers of two are not 0.
LEMMA PowerPositive ==
  \A n \in Nat : 2 ^ n \in Nat \ {0}
<1>. DEFINE S == {n \in Nat : 2 ^ n \in Nat \ {0}}
<1>1. 0 \in S
  OBVIOUS
<1>2. \A n \in Nat : n \in S => n + 1 \in S
  BY PowerStep
<1>. HIDE DEF S
<1>3. Nat \subseteq S
  BY <1>1, <1>2, Induct
<1>. QED
  BY <1>3 DEF S

\* A power of two other than the first is at least 2.
LEMMA PowerTwo ==
  ASSUME NEW n \in Nat \ {0}
  PROVE  2 ^ n >= 2
<1>1. n - 1 \in Nat /\ (n - 1) + 1 = n
  OBVIOUS
<1>2. 2 ^ (n - 1) \in Nat \ {0} /\ 2 ^ ((n - 1) + 1) = 2 * 2 ^ (n - 1)
  BY <1>1, PowerStep, PowerPositive
<1>. QED
  BY <1>1, <1>2

\* Exponents are added where powers are multiplied.
LEMMA PowerSum ==
  ASSUME NEW m \in Nat, NEW n \in Nat
  PROVE  2 ^ (m + n) = 2 ^ m * 2 ^ n
<1>. DEFINE S == {k \in Nat : 2 ^ (m + k) = 2 ^ m * 2 ^ k}
<1>1. 0 \in S
  BY PowerPositive
<1>2. ASSUME NEW k \in Nat, k \in S PROVE k + 1 \in S
  <2>1. 2 ^ (m + k) = 2 ^ m * 2 ^ k
    BY <1>2
  <2>2. 2 ^ (k + 1) = 2 * 2 ^ k
    BY PowerStep
  <2>3. 2 ^ ((m + k) + 1) = 2 * 2 ^ (m + k)
    BY PowerStep, m + k \in Nat
  <2>4. (m + k) + 1 = m + (k + 1)
    OBVIOUS
  <2>5. 2 ^ m \in Nat /\ 2 ^ k \in Nat
    BY PowerPositive
  <2>6. 2 * (2 ^ m * 2 ^ k) = 2 ^ m * (2 * 2 ^ k)
    BY <2>5
  <2>. QED
    BY <2>1, <2>2, <2>3, <2>4, <2>6
<1>. HIDE DEF S
<1>3. Nat \subseteq S
  BY <1>1, <1>2, Induct
<1>. QED
  BY <1>3 DEF S

\* A larger exponent does not give a smaller power.
LEMMA PowerMonotone ==
  ASSUME NEW m \in Nat, NEW n \in Nat, m <= n
  PROVE  2 ^ m <= 2 ^ n
<1>1. PICK k \in Nat : n = m + k
  BY n - m \in Nat, n = m + (n - m)
<1>2. 2 ^ n = 2 ^ m * 2 ^ k
  BY <1>1, PowerSum
<1>3. 2 ^ m \in Nat /\ 2 ^ k \in Nat \ {0}
  BY PowerPositive
<1>4. \A a \in Nat, b \in Nat \ {0} : a <= a * b
  OBVIOUS
<1>. QED
  BY <1>2, <1>3, <1>4

-----------------------------------------------------------------------------
(* Division and digits *)

\* What division and remainder are.
LEMMA Division ==
  ASSUME NEW a \in Nat, NEW n \in Nat \ {0}
  PROVE  /\ a \div n \in Nat /\ a % n \in 0 .. n - 1
         /\ a = (a \div n) * n + (a % n)
OBVIOUS

\* There is one quotient and one remainder.
LEMMA DivisionUnique ==
  ASSUME NEW n \in Nat \ {0}, NEW q \in Nat, NEW r \in 0 .. n - 1
  PROVE  (q * n + r) \div n = q /\ (q * n + r) % n = r
<1>1. ASSUME NEW a \in Nat, a = n * q + r
      PROVE  q = a \div n /\ r = a % n
  BY <1>1
<1>2. q * n + r \in Nat /\ q * n + r = n * q + r
  OBVIOUS
<1>. QED
  BY <1>1, <1>2

\* Division by a product is division by one factor and then by the other.
LEMMA DivisionTwice ==
  ASSUME NEW v \in Nat, NEW P \in Nat \ {0}, NEW C \in Nat \ {0}
  PROVE  /\ v % (P * C) = (v % P) + ((v \div P) % C) * P
         /\ v \div (P * C) = (v \div P) \div C
         /\ (v % (P * C)) % P = v % P
<1>. DEFINE q == v \div P
            r == v % P
            x == q \div C
            y == q % C
<1>1. q \in Nat /\ r \in 0 .. P - 1 /\ v = q * P + r
  BY Division
<1>2. x \in Nat /\ y \in 0 .. C - 1 /\ q = x * C + y
  BY <1>1, Division
<1>. HIDE DEF q, r, x, y
<1>3. y * P \in Nat /\ P * C \in Nat \ {0} /\ x * (P * C) \in Nat
  BY <1>2
<1>4. v = x * (P * C) + (y * P + r)
  <2>1. q * P = (x * C) * P + y * P
    BY <1>2
  <2>2. (x * C) * P = x * (P * C)
    BY <1>2
  <2>. QED
    BY <1>1, <1>3, <2>1, <2>2
<1>5. y * P <= (C - 1) * P
  BY <1>2
<1>6. (C - 1) * P = P * C - P
  OBVIOUS
<1>7. y * P + r \in 0 .. P * C - 1
  BY <1>1, <1>3, <1>5, <1>6
<1>8. v \div (P * C) = x /\ v % (P * C) = y * P + r
  BY <1>2, <1>3, <1>4, <1>7, DivisionUnique
<1>9. (y * P + r) % P = r
  BY <1>1, <1>2, DivisionUnique
<1>. QED
  BY <1>1, <1>3, <1>8, <1>9 DEF q, r, x, y

\* What FromDigits computes is a function on the number of digits added.
Sums(d, bits, n, f) ==
  f = [k \in 0 .. n |-> IF k = 0 THEN 0 ELSE f[k - 1] + d[k] * 2 ^ (bits * (k - 1))]

\* There is such a function, however many digits there are.
LEMMA SumsExist ==
  ASSUME NEW d, NEW bits \in Nat
  PROVE  \A n \in Nat : \E f : Sums(d, bits, n, f)
<1>. DEFINE S == {n \in Nat : \E f : Sums(d, bits, n, f)}
<1>1. 0 \in S
  <2>. DEFINE f == [k \in 0 .. 0 |-> 0]
  <2>1. f = [k \in 0 .. 0 |-> IF k = 0 THEN 0 ELSE f[k - 1] + d[k] * 2 ^ (bits * (k - 1))]
    OBVIOUS
  <2>. QED
    BY <2>1 DEF Sums
<1>2. ASSUME NEW n \in Nat, n \in S PROVE n + 1 \in S
  <2>1. PICK f : Sums(d, bits, n, f)
    BY <1>2
  <2>. DEFINE At(h, k) == IF k = 0 THEN 0 ELSE h[k - 1] + d[k] * 2 ^ (bits * (k - 1))
              g == [k \in 0 .. n + 1 |-> At(f, k)]
  <2>2. \A k \in 0 .. n : f[k] = At(f, k)
    BY <2>1 DEF Sums
  <2>3. \A k \in 0 .. n : g[k] = f[k]
    <3>1. \A k \in 0 .. n : k \in 0 .. n + 1
      OBVIOUS
    <3>. HIDE DEF At
    <3>. QED
      BY <2>2, <3>1
  <2>4. ASSUME NEW k \in 0 .. n + 1 PROVE At(g, k) = At(f, k)
    <3>1. CASE k = 0
      BY <3>1
    <3>2. CASE k # 0
      <4>1. k - 1 \in 0 .. n
        BY <3>2
      <4>2. g[k - 1] = f[k - 1]
        BY ONLY <2>3, <4>1
      <4>. HIDE DEF g
      <4>. QED
        BY <4>2
    <3>. QED
      BY <3>1, <3>2
  <2>5. g = [k \in 0 .. n + 1 |-> At(g, k)]
    <3>. HIDE DEF At
    <3>. QED
      BY <2>4
  <2>6. Sums(d, bits, n + 1, g)
    BY <2>5 DEF Sums
  <2>. QED
    BY <2>6
<1>. HIDE DEF S
<1>3. Nat \subseteq S
  BY <1>1, <1>2, Induct
<1>. QED
  BY <1>3 DEF S

\* FromDigits is its last value.
LEMMA FromDigitsSums ==
  ASSUME NEW d, NEW bits \in Nat, Len(d) \in Nat
  PROVE  \E f : Sums(d, bits, Len(d), f) /\ FromDigits(d, bits) = f[Len(d)]
<1>1. \E f : f = [k \in 0 .. Len(d) |->
                    IF k = 0 THEN 0 ELSE f[k - 1] + d[k] * 2 ^ (bits * (k - 1))]
  BY SumsExist DEF Sums
<1>. QED
  BY <1>1 DEF FromDigits, Sums

\* Digits of the right size make a number of the right size.
LEMMA FromDigitsBound ==
  ASSUME NEW bits \in Nat, NEW d \in Seq(0 .. 2 ^ bits - 1)
  PROVE  FromDigits(d, bits) \in 0 .. 2 ^ (bits * Len(d)) - 1
<1>1. PICK f : Sums(d, bits, Len(d), f) /\ FromDigits(d, bits) = f[Len(d)]
  BY FromDigitsSums
<1>. DEFINE S == {k \in Nat : k <= Len(d) => f[k] \in 0 .. 2 ^ (bits * k) - 1}
<1>2. 0 \in S
  <2>1. f[0] = 0
    BY <1>1 DEF Sums
  <2>2. bits * 0 = 0 /\ 2 ^ 0 = 1
    OBVIOUS
  <2>3. 2 ^ (bits * 0) = 1
    BY <2>2
  <2>. QED
    BY <2>1, <2>3
<1>3. ASSUME NEW k \in Nat, k \in S PROVE k + 1 \in S
  <2>. SUFFICES ASSUME k + 1 <= Len(d) PROVE f[k + 1] \in 0 .. 2 ^ (bits * (k + 1)) - 1
    OBVIOUS
  <2>. DEFINE P == 2 ^ (bits * k)
              C == 2 ^ bits
              x == d[k + 1]
  <2>1. P \in Nat \ {0} /\ C \in Nat \ {0} /\ bits * k \in Nat
    BY PowerPositive
  <2>2. f[k] \in 0 .. P - 1
    BY <1>3
  <2>3. f[k + 1] = f[k] + x * P
    BY <1>1 DEF Sums
  <2>4. x \in 0 .. C - 1
    BY k + 1 \in 1 .. Len(d)
  <2>5. 2 ^ (bits * (k + 1)) = P * C
    <3>1. bits * (k + 1) = bits * k + bits
      OBVIOUS
    <3>. QED
      BY <2>1, <3>1, PowerSum
  <2>. HIDE DEF P, C, x
  <2>6. x * P \in Nat /\ x * P <= (C - 1) * P
    BY <2>1, <2>4
  <2>7. (C - 1) * P = P * C - P /\ P * C \in Nat
    BY <2>1
  <2>. QED
    BY <2>1, <2>2, <2>3, <2>5, <2>6, <2>7
<1>. HIDE DEF S
<1>4. Nat \subseteq S
  BY <1>2, <1>3, Induct
<1>. QED
  BY <1>1, <1>4 DEF S

\* The first n digits of a number make its value modulo the n-th power.
LEMMA FromDigitsOfNumber ==
  ASSUME NEW bits \in Nat, NEW n \in Nat, NEW v \in Nat
  PROVE  FromDigits([k \in 1 .. n |-> Digit(v, k - 1, bits)], bits) = v % 2 ^ (bits * n)
<1>. DEFINE d == [k \in 1 .. n |-> Digit(v, k - 1, bits)]
<1>0. Len(d) = n
  OBVIOUS
<1>1. PICK f : Sums(d, bits, n, f) /\ FromDigits(d, bits) = f[n]
  BY <1>0, FromDigitsSums
<1>. DEFINE S == {k \in Nat : k <= n => f[k] = v % 2 ^ (bits * k)}
<1>2. 0 \in S
  <2>1. f[0] = 0
    BY <1>1 DEF Sums
  <2>2. bits * 0 = 0 /\ 2 ^ 0 = 1 /\ v % 1 = 0
    OBVIOUS
  <2>. QED
    BY <2>1, <2>2
<1>3. ASSUME NEW k \in Nat, k \in S PROVE k + 1 \in S
  <2>. SUFFICES ASSUME k + 1 <= n PROVE f[k + 1] = v % 2 ^ (bits * (k + 1))
    OBVIOUS
  <2>. DEFINE P == 2 ^ (bits * k)
              C == 2 ^ bits
  <2>1. P \in Nat \ {0} /\ C \in Nat \ {0} /\ bits * k \in Nat
    BY PowerPositive
  <2>2. f[k] = v % P
    BY <1>3
  <2>3. f[k + 1] = f[k] + d[k + 1] * P
    <3>1. k + 1 \in 0 .. n /\ k + 1 # 0 /\ (k + 1) - 1 = k
      OBVIOUS
    <3>. HIDE DEF d
    <3>. QED
      BY <1>1, <3>1 DEF Sums
  <2>4. d[k + 1] = (v \div P) % C
    BY DEF Digit
  <2>5. 2 ^ (bits * (k + 1)) = P * C
    <3>1. bits * (k + 1) = bits * k + bits
      OBVIOUS
    <3>. QED
      BY <2>1, <3>1, PowerSum
  <2>. HIDE DEF P, C, d
  <2>6. v % (P * C) = (v % P) + ((v \div P) % C) * P
    BY <2>1, DivisionTwice
  <2>. QED
    BY <2>2, <2>3, <2>4, <2>5, <2>6
<1>. HIDE DEF S
<1>4. Nat \subseteq S
  BY <1>2, <1>3, Induct
<1>5. f[n] = v % 2 ^ (bits * n)
  BY <1>4 DEF S
<1>. QED
  BY <1>1, <1>5

-----------------------------------------------------------------------------
(* Widths *)

\* A byte, and half the values of a word: an int is negative beyond it.
Byte == 0 .. 2 * Cont - 1
Half == 2 ^ (WordBits - 1)

\* What WidthAssumption says of the widths, without division.
LEMMA Widths ==
  /\ DataBits \in Nat /\ DataBits >= 2 /\ Cont \in Nat /\ Cont >= 2
  /\ WordBits \in Nat \ {0} /\ IntBits \in Nat \ {0}
  /\ MaxGroups \in Nat \ {0} /\ WordBits = DataBits * (MaxGroups - 1) + 1
  /\ FixedBytes \in Nat \ {0} /\ WordBits = (DataBits + 1) * FixedBytes
<1>. DEFINE g == WordBits \div DataBits
            h == WordBits \div (DataBits + 1)
<1>1. DataBits \in Nat \ {0} /\ WordBits \in Nat /\ IntBits \in Nat /\ WordBits = 2 * IntBits
  BY WidthAssumption
<1>2. g \in Nat /\ WordBits = g * DataBits + 1
  BY <1>1, WidthAssumption, Division
<1>3. DataBits # 1
  <2>1. ASSUME DataBits = 1 PROVE FALSE
    <3>1. WordBits % DataBits \in 0 .. DataBits - 1
      BY <1>1, Division
    <3>. QED
      BY <2>1, <3>1, WidthAssumption
  <2>. QED
    BY <2>1
<1>4. h \in Nat /\ WordBits = h * (DataBits + 1)
  <2>1. h \in Nat /\ WordBits = h * (DataBits + 1) + (WordBits % (DataBits + 1))
    BY <1>1, DataBits + 1 \in Nat \ {0}, Division
  <2>2. h * (DataBits + 1) \in Nat
    BY <1>1, <2>1
  <2>. QED
    BY <2>1, <2>2, WidthAssumption
<1>5. Cont \in Nat /\ Cont >= 2
  <2>. QED
    BY <1>1, PowerPositive, PowerTwo DEF Cont
<1>6. MaxGroups = g + 1 /\ FixedBytes = h
  BY DEF MaxGroups, FixedBytes
<1>. HIDE DEF g, h
<1>7. g * DataBits \in Nat
  BY <1>1, <1>2
<1>8. WordBits \in Nat \ {0} /\ IntBits \in Nat \ {0}
  BY <1>1, <1>2, <1>7
<1>9. h # 0
  <2>1. ASSUME h = 0 PROVE WordBits = 0
    BY <1>1, <1>4, <2>1
  <2>. QED
    BY <1>8, <2>1
<1>10. MaxGroups \in Nat \ {0} /\ WordBits = DataBits * (MaxGroups - 1) + 1
  BY <1>1, <1>2, <1>6
<1>11. WordBits = (DataBits + 1) * FixedBytes
  BY <1>1, <1>4, <1>6
<1>. QED
  BY <1>1, <1>3, <1>4, <1>5, <1>6, <1>8, <1>9, <1>10, <1>11

\* A word is a sign bit and the rest.
LEMMA WordIsTwoHalves ==
  Half \in Nat \ {0} /\ Word = 2 * Half /\ Word \in Nat \ {0}
<1>1. WordBits - 1 \in Nat /\ (WordBits - 1) + 1 = WordBits
  BY Widths
<1>. QED
  BY <1>1, PowerStep, PowerPositive DEF Half, Word

-----------------------------------------------------------------------------
(* The length of a varint *)

\* BitLen is the number of bits of a number.
LEMMA BitLenFits ==
  ASSUME NEW v \in 0 .. Word - 1
  PROVE  /\ BitLen(v) \in 0 .. WordBits
         /\ v < 2 ^ BitLen(v) /\ (BitLen(v) = 0 \/ v >= 2 ^ (BitLen(v) - 1))
<1>. DEFINE T == {n \in Nat : v < 2 ^ n}
<1>1. WordBits \in T
  BY Widths, WordIsTwoHalves DEF Word
<1>2. PICK n \in T : \A m \in T : n <= m
  BY <1>1, Least
<1>3. n \in 0 .. WordBits
  BY <1>1, <1>2, Widths
<1>4. v < 2 ^ n
  BY <1>2
<1>5. n = 0 \/ v >= 2 ^ (n - 1)
  <2>. SUFFICES ASSUME n # 0 PROVE v >= 2 ^ (n - 1)
    OBVIOUS
  <2>1. n - 1 \in Nat /\ ~ (n <= n - 1)
    BY <1>3
  <2>2. n - 1 \notin T
    BY <1>2, <2>1
  <2>3. 2 ^ (n - 1) \in Nat /\ v \in Nat
    BY <2>1, PowerPositive, WordIsTwoHalves
  <2>. QED
    BY <2>1, <2>2, <2>3
<1>. HIDE DEF T
<1>. QED
  BY <1>3, <1>4, <1>5 DEF BitLen

\* A varint has as many groups as it takes, and no more than a word has.
LEMMA SovFits ==
  ASSUME NEW v \in 0 .. Word - 1
  PROVE  /\ Sov(v) \in 1 .. MaxGroups
         /\ v < 2 ^ (DataBits * Sov(v))
         /\ Sov(v) = 1 \/ v >= 2 ^ (DataBits * (Sov(v) - 1))
<1>. DEFINE x == IF v = 0 THEN 1 ELSE v
            n == BitLen(x)
            s == Sov(v)
            D == DataBits
<1>1. x \in 0 .. Word - 1 /\ x >= 1 /\ v <= x /\ v \in Nat /\ x \in Nat
  BY WordIsTwoHalves
<1>2. n \in 0 .. WordBits /\ x < 2 ^ n /\ (n = 0 \/ x >= 2 ^ (n - 1))
  BY <1>1, BitLenFits
<1>3. n \in Nat \ {0}
  <2>1. 2 ^ 0 = 1
    OBVIOUS
  <2>. HIDE DEF x, n
  <2>2. ASSUME n = 0 PROVE FALSE
    <3>1. 2 ^ n = 1
      BY <2>1, <2>2
    <3>. QED
      BY <1>1, <1>2, <3>1
  <2>. QED
    BY <1>2, <2>2, Widths
<1>4. s = (n + D - 1) \div D
  BY DEF Sov
<1>. HIDE DEF x, n, s
<1>5. D \in Nat /\ D >= 2
  BY Widths
<1>6. PICK r \in 0 .. D - 1 : s \in Nat /\ n + D - 1 = s * D + r
  <2>. DEFINE a == n + D - 1
  <2>1. a \in Nat /\ D \in Nat \ {0}
    BY <1>3, <1>5
  <2>2. s = a \div D
    BY <1>4
  <2>. HIDE DEF a
  <2>3. s \in Nat /\ a % D \in 0 .. D - 1 /\ a = s * D + (a % D)
    BY <2>1, <2>2, Division
  <2>. QED
    BY <2>3 DEF a
<1>7. s # 0
  BY <1>3, <1>5, <1>6
<1>8. s - 1 \in Nat /\ s * D = D * s /\ D * (s - 1) = D * s - D /\ D * s \in Nat /\ D * (s - 1) \in Nat
  BY <1>5, <1>6, <1>7
<1>9. n <= D * s /\ D * (s - 1) <= n - 1
  BY <1>3, <1>5, <1>6, <1>8
<1>10. s <= MaxGroups
  <2>. DEFINE g == MaxGroups - 1
  <2>1. g \in Nat /\ D * (s - 1) <= D * g
    BY <1>2, <1>3, <1>8, <1>9, Widths
  <2>. HIDE DEF g
  <2>2. ASSUME s - 1 > g PROVE FALSE
    <3>1. PICK d \in Nat : s - 1 = g + 1 + d
      BY <1>8, <2>1, <2>2, (s - 1) - g - 1 \in Nat
    <3>2. D * (s - 1) = D * g + D + D * d
      BY <1>5, <2>1, <3>1
    <3>3. D * d \in Nat /\ D * g \in Nat
      BY <1>5, <2>1
    <3>. QED
      BY <1>5, <2>1, <3>2, <3>3
  <2>3. s - 1 <= g
    BY <1>8, <2>1, <2>2
  <2>. QED
    BY <1>6, <2>3, Widths DEF g
<1>11. v < 2 ^ (D * s)
  <2>1. 2 ^ n <= 2 ^ (D * s) /\ 2 ^ n \in Nat /\ 2 ^ (D * s) \in Nat
    BY <1>3, <1>8, <1>9, PowerMonotone, PowerPositive
  <2>. QED
    BY <1>1, <1>2, <2>1
<1>12. s = 1 \/ v >= 2 ^ (D * (s - 1))
  <2>1. 2 ^ (D * (s - 1)) <= 2 ^ (n - 1)
    BY <1>3, <1>8, <1>9, PowerMonotone, n - 1 \in Nat
  <2>2. 2 ^ (D * (s - 1)) \in Nat /\ 2 ^ (n - 1) \in Nat
    BY <1>3, <1>8, PowerPositive, n - 1 \in Nat
  <2>3. x >= 2 ^ (D * (s - 1))
    BY <1>1, <1>2, <1>3, <2>1, <2>2
  <2>4. CASE v # 0
    BY <2>3, <2>4 DEF x
  <2>5. CASE v = 0
    <3>1. 2 ^ (D * (s - 1)) <= 1
      BY <2>3, <2>5 DEF x
    <3>2. ASSUME s - 1 # 0 PROVE FALSE
      <4>1. D * (s - 1) # 0
        <5>1. \A a, b \in Nat \ {0} : a * b # 0
          OBVIOUS
        <5>2. D \in Nat \ {0} /\ s - 1 \in Nat \ {0}
          BY <1>5, <1>8, <3>2
        <5>. QED
          BY <5>1, <5>2
      <4>2. 2 ^ (D * (s - 1)) >= 2
        BY <1>8, <4>1, PowerTwo
      <4>. QED
        BY <2>2, <3>1, <4>2
    <3>3. s = 1
      BY <1>6, <3>2
    <3>. QED
      BY <3>3
  <2>. QED
    BY <2>4, <2>5
<1>. QED
  BY <1>6, <1>7, <1>10, <1>11, <1>12, Widths DEF s

-----------------------------------------------------------------------------
(* Varints *)

\* The bytes of a varint: the digits of the number, all but the last with a
\* continuation bit.
LEMMA EncodedBytes ==
  ASSUME NEW v \in 0 .. Word - 1
  PROVE  /\ EncodeVarint(v) \in Seq(Byte) /\ Len(EncodeVarint(v)) = Sov(v)
         /\ \A k \in 1 .. Sov(v) :
              /\ EncodeVarint(v)[k] % Cont = Digit(v, k - 1, DataBits)
              /\ EncodeVarint(v)[k] < Cont <=> k = Sov(v)
<1>. DEFINE D == DataBits
            s == Sov(v)
            e == EncodeVarint(v)
            C == Cont
<1>1. s \in Nat \ {0} /\ v < 2 ^ (D * s) /\ (s = 1 \/ v >= 2 ^ (D * (s - 1)))
  BY SovFits, Widths
<1>2. v \in Nat /\ D \in Nat /\ D >= 2 /\ C \in Nat \ {0} /\ C = 2 ^ D
  BY Widths, WordIsTwoHalves DEF Cont
<1>. HIDE DEF s, C
<1>3. ASSUME NEW k \in 1 .. s
      PROVE  /\ Digit(v, k - 1, D) \in 0 .. C - 1
             /\ v \div 2 ^ (D * k) \in Nat
             /\ v \div 2 ^ (D * k) > 0 <=> k # s
  <2>. DEFINE P == 2 ^ (D * k)
              Q == 2 ^ (D * (k - 1))
  <2>1. D * k \in Nat /\ D * (k - 1) \in Nat
    BY <1>1, <1>2
  <2>2. P \in Nat \ {0} /\ Q \in Nat \ {0}
    BY <2>1, PowerPositive
  <2>3. Digit(v, k - 1, D) = (v \div Q) % C
    BY <1>2 DEF Digit
  <2>4. k # s => v >= P
    <3>. SUFFICES ASSUME k # s PROVE v >= P
      OBVIOUS
    <3>1. k <= s - 1 /\ s # 1
      BY <1>1
    <3>2. PICK d \in Nat : s - 1 = k + d
      BY <1>1, <3>1, s - 1 - k \in Nat
    <3>3. D * (s - 1) = D * k + D * d /\ D * d \in Nat
      BY <1>2, <3>2
    <3>4. D * k <= D * (s - 1) /\ D * (s - 1) \in Nat
      BY <2>1, <3>3
    <3>5. P <= 2 ^ (D * (s - 1)) /\ 2 ^ (D * (s - 1)) \in Nat
      BY <2>1, <3>4, PowerMonotone, PowerPositive
    <3>. HIDE DEF P
    <3>. QED
      BY <1>1, <1>2, <2>2, <3>1, <3>5
  <2>5. k = s => v < P
    BY <1>1
  <2>. HIDE DEF P, Q
  <2>6. v \div Q \in Nat /\ v \div P \in Nat
    BY <1>2, <2>2, Division
  <2>7. (v \div Q) % C \in 0 .. C - 1
    BY <1>2, <2>6, Division
  <2>8. v = (v \div P) * P + (v % P) /\ v % P \in 0 .. P - 1
    BY <1>2, <2>2, Division
  <2>9. v < P => v \div P = 0
    <3>1. \A q \in Nat : q # 0 => q * P >= P
      BY <2>2
    <3>. QED
      BY <1>2, <2>2, <2>6, <2>8, <3>1
  <2>10. v \div P = 0 => v < P
    <3>1. 0 * P = 0
      BY <2>2
    <3>. QED
      BY <2>2, <2>8, <3>1
  <2>. QED
    BY <1>2, <2>2, <2>3, <2>4, <2>5, <2>6, <2>7, <2>9, <2>10 DEF P
<1>4. \A k \in 1 .. s : e[k] = Digit(v, k - 1, D) + (IF k # s THEN C ELSE 0)
  BY <1>3 DEF EncodeVarint, s, C
<1>5. e = [k \in 1 .. s |-> e[k]]
  BY DEF EncodeVarint, s
<1>. HIDE DEF e
<1>6. ASSUME NEW k \in 1 .. s
      PROVE  e[k] \in 0 .. 2 * C - 1 /\ e[k] % C = Digit(v, k - 1, D) /\ (e[k] < C <=> k = s)
  <2>1. PICK x \in 0 .. C - 1 : x = Digit(v, k - 1, D)
    BY <1>3
  <2>2. CASE k = s
    <3>1. e[k] = 0 * C + x
      BY <1>2, <1>4, <2>1, <2>2
    <3>2. e[k] % C = x
      BY <1>2, <3>1, DivisionUnique
    <3>. QED
      BY <1>2, <2>1, <2>2, <3>1, <3>2
  <2>3. CASE k # s
    <3>1. e[k] = 1 * C + x
      BY <1>2, <1>4, <2>1, <2>3
    <3>2. e[k] % C = x
      BY <1>2, <3>1, DivisionUnique
    <3>. QED
      BY <1>2, <2>1, <2>3, <3>1, <3>2
  <2>. QED
    BY <2>2, <2>3
<1>7. e \in Seq(0 .. 2 * C - 1) /\ Len(e) = s
  <2>1. /\ [k \in 1 .. s |-> e[k]] \in Seq(0 .. 2 * C - 1)
        /\ Len([k \in 1 .. s |-> e[k]]) = s
    BY <1>1, <1>6
  <2>. QED
    BY <1>5, <2>1, Zenon
<1>. QED
  BY <1>6, <1>7 DEF s, C, e, Byte

\* What is at an index of the bytes.
Has(b, i, e) == i + Len(e) <= Len(b) /\ \A k \in 1 .. Len(e) : b[i + k] = e[k]

\* Whatever the bytes are, a varint that is read is a word and ends within them,
\* after where it begins.
LEMMA VarintStays ==
  ASSUME NEW b \in Seq(Byte), NEW i \in Nat
  PROVE  \/ /\ Varint(b, i).err \in {"overflow", "eof"}
            /\ Varint(b, i) = Fail(Varint(b, i).err)
         \/ \E val \in 0 .. Word - 1 : \E next \in i + 1 .. Len(b) :
              Varint(b, i) = Good(val, next)
<1>. DEFINE ends == {k \in 1 .. MaxGroups : i + k <= Len(b) /\ b[i + k] < Cont}
            last == CHOOSE k \in ends : \A j \in ends : k <= j
            digits == [k \in 1 .. last |-> b[i + k] % Cont]
<1>1. CASE ends = {}
  BY <1>1 DEF Varint, Fail
<1>2. CASE ends # {}
  <2>1. \E k \in ends : \A j \in ends : k <= j
    <3>1. ends \in SUBSET Nat
      BY Widths
    <3>. HIDE DEF ends
    <3>. QED
      BY <1>2, <3>1, Least
  <2>2. last \in ends
    BY <2>1
  <2>. HIDE DEF last
  <2>3. last \in 1 .. MaxGroups /\ i + last <= Len(b)
    BY <2>2
  <2>4. digits \in Seq(0 .. 2 ^ DataBits - 1)
    <3>1. ASSUME NEW k \in 1 .. last PROVE b[i + k] % Cont \in 0 .. Cont - 1
      <4>1. i + k \in 1 .. Len(b)
        BY <2>3, Widths
      <4>2. b[i + k] \in Nat
        BY <4>1, Widths DEF Byte
      <4>3. Cont \in Nat \ {0}
        BY Widths
      <4>. QED
        BY <4>2, <4>3, Division
    <3>. QED
      BY <2>3, <3>1, Widths DEF Cont
  <2>5. FromDigits(digits, DataBits) \in Nat
    <3>1. FromDigits(digits, DataBits) \in 0 .. 2 ^ (DataBits * Len(digits)) - 1
      BY <2>4, FromDigitsBound, Widths
    <3>. HIDE DEF digits
    <3>. QED
      BY <3>1
  <2>6. Varint(b, i) = Good(FromDigits(digits, DataBits) % Word, i + last)
    BY <1>2 DEF Varint, last
  <2>. HIDE DEF digits
  <2>7. FromDigits(digits, DataBits) % Word \in 0 .. Word - 1
    BY <2>5, WordIsTwoHalves, Division
  <2>8. i + last \in i + 1 .. Len(b)
    BY <2>3, Widths
  <2>. QED
    BY <2>6, <2>7, <2>8
<1>. QED
  BY <1>1, <1>2

\* A word that is written is read back, whatever comes before and after it.
LEMMA VarintReadsBack ==
  ASSUME NEW v \in 0 .. Word - 1, NEW b \in Seq(Byte), NEW i \in Nat,
         Has(b, i, EncodeVarint(v))
  PROVE  Varint(b, i) = Good(v, i + Sov(v))
<1>. DEFINE ends == {k \in 1 .. MaxGroups : i + k <= Len(b) /\ b[i + k] < Cont}
            last == CHOOSE k \in ends : \A j \in ends : k <= j
            s == Sov(v)
<1>1. s \in 1 .. MaxGroups /\ v < 2 ^ (DataBits * s)
  BY SovFits
<1>2. i + s <= Len(b) /\ \A k \in 1 .. s : b[i + k] = EncodeVarint(v)[k]
  BY EncodedBytes DEF Has
<1>3. \A k \in 1 .. s : /\ b[i + k] % Cont = Digit(v, k - 1, DataBits)
                        /\ b[i + k] < Cont <=> k = s
  BY <1>2, EncodedBytes
<1>4. s \in ends /\ \A k \in ends : s <= k
  <2>1. s \in ends
    BY <1>1, <1>2, <1>3, Widths
  <2>2. ASSUME NEW k \in ends, ~ (s <= k) PROVE FALSE
    <3>1. k \in 1 .. s /\ k # s /\ b[i + k] < Cont
      BY <1>1, <2>2, Widths
    <3>. QED
      BY <1>3, <3>1
  <2>. QED
    BY <2>1, <2>2
<1>5. last = s
  <2>. HIDE DEF s
  <2>1. last \in ends /\ \A j \in ends : last <= j
    BY <1>4
  <2>. HIDE DEF last
  <2>2. last <= s /\ s <= last /\ last \in Nat /\ s \in Nat
    BY <1>4, <2>1, Widths
  <2>. QED
    BY <2>2
<1>6. [k \in 1 .. last |-> b[i + k] % Cont] = [k \in 1 .. s |-> Digit(v, k - 1, DataBits)]
  <2>. HIDE DEF last, s
  <2>. QED
    BY <1>3, <1>5
<1>7. Varint(b, i) = Good(FromDigits([k \in 1 .. last |-> b[i + k] % Cont], DataBits) % Word,
                          i + last)
  BY <1>4 DEF Varint
<1>. HIDE DEF last, s, ends
<1>8. FromDigits([k \in 1 .. s |-> Digit(v, k - 1, DataBits)], DataBits)
        = v % 2 ^ (DataBits * s)
  BY <1>1, Widths, WordIsTwoHalves, FromDigitsOfNumber
<1>9. \A a, n \in Nat : a < n => a % n = a
  <2>1. ASSUME NEW a \in Nat, NEW n \in Nat, a < n PROVE a % n = a
    <3>1. n \in Nat \ {0} /\ a \in 0 .. n - 1 /\ 0 * n + a = a
      BY <2>1
    <3>. QED
      BY <3>1, DivisionUnique
  <2>. QED
    BY <2>1
<1>10. v % 2 ^ (DataBits * s) = v
  <2>1. DataBits * s \in Nat
    BY <1>1, Widths
  <2>. QED
    BY <1>1, <1>9, <2>1, PowerPositive, WordIsTwoHalves
<1>11. v % Word = v
  BY <1>9, WordIsTwoHalves
<1>. QED
  BY <1>5, <1>6, <1>7, <1>8, <1>10, <1>11 DEF s

\* The bytes end before the last one of what is written at an index.
Cut(b, i, e) == Len(b) \in i .. i + Len(e) - 1 /\ \A k \in 1 .. Len(b) - i : b[i + k] = e[k]

\* A varint that is cut is not taken for another one.
LEMMA VarintCut ==
  ASSUME NEW v \in 0 .. Word - 1, NEW b \in Seq(Byte), NEW i \in Nat,
         Cut(b, i, EncodeVarint(v))
  PROVE  Varint(b, i) = Fail("eof")
<1>1. Sov(v) \in 1 .. MaxGroups /\ Len(b) < i + Sov(v)
  BY SovFits, EncodedBytes DEF Cut
<1>2. ASSUME NEW k \in 1 .. MaxGroups, i + k <= Len(b) PROVE ~ (b[i + k] < Cont)
  <2>1. k \in 1 .. Len(b) - i /\ k \in 1 .. Sov(v) /\ k # Sov(v)
    BY <1>1, <1>2, Widths
  <2>. QED
    BY <2>1, EncodedBytes DEF Cut
<1>3. {k \in 1 .. MaxGroups : i + k <= Len(b) /\ b[i + k] < Cont} = {}
  BY <1>2
<1>4. ~ (i + MaxGroups <= Len(b))
  BY <1>1, Widths
<1>. QED
  BY <1>3, <1>4 DEF Varint

-----------------------------------------------------------------------------
(* Indices *)

\* The slices of bytes that fit in memory: the index of a word beyond their end is
\* still an int.
Buffer == {b \in Seq(Byte) : Len(b) + FixedBytes < Half}

\* What the two's complement makes of a number that fits its bits.
LEMMA Signs ==
  ASSUME NEW n \in Nat \ {0}, NEW v \in Int
  PROVE  /\ 2 ^ (n - 1) \in Nat \ {0} /\ 2 ^ n = 2 * 2 ^ (n - 1)
         /\ v \in 0 .. 2 ^ (n - 1) - 1 => Signed(v, n) = v
         /\ v \in 2 ^ (n - 1) .. 2 ^ n - 1 => Signed(v, n) = v - 2 ^ n
         /\ v \in 0 .. 2 ^ n - 1 => Signed(v, n) \in - 2 ^ (n - 1) .. 2 ^ (n - 1) - 1
<1>. DEFINE h == 2 ^ (n - 1)
            w == 2 ^ n
<1>1. n - 1 \in Nat /\ (n - 1) + 1 = n
  OBVIOUS
<1>2. h \in Nat \ {0} /\ w = 2 * h
  BY <1>1, PowerStep, PowerPositive
<1>3. v \in 0 .. w - 1 => v % w = v
  <2>. HIDE DEF w, h
  <2>1. ASSUME v \in 0 .. w - 1 PROVE v % w = v
    <3>1. w \in Nat \ {0} /\ 0 * w + v = v
      BY <1>2, <2>1
    <3>. QED
      BY <2>1, <3>1, DivisionUnique
  <2>. QED
    BY <2>1
<1>4. Signed(v, n) = IF v % w >= h THEN (v % w) - w ELSE v % w
  BY DEF Signed
<1>. HIDE DEF w, h
<1>5. /\ v \in 0 .. h - 1 => Signed(v, n) = v
      /\ v \in h .. w - 1 => Signed(v, n) = v - w
  BY <1>2, <1>3, <1>4
<1>6. v \in 0 .. w - 1 => Signed(v, n) \in - h .. h - 1
  BY <1>2, <1>5
<1>. QED
  BY <1>2, <1>5, <1>6 DEF h, w

\* An index keeps its value, or it has wrapped around and is negative.
LEMMA Indices ==
  ASSUME NEW x \in 0 .. Word - 1
  PROVE  /\ x < Half => Index(x) = x
         /\ x >= Half => Index(x) < 0
         /\ Index(x) \in - Half .. Half - 1
<1>1. Half \in Nat \ {0} /\ Word = 2 * Half /\ x \in Int /\ WordBits \in Nat \ {0}
  BY WordIsTwoHalves, Widths
<1>2. /\ x \in 0 .. Half - 1 => Index(x) = x
      /\ x \in Half .. Word - 1 => Index(x) = x - Word
      /\ x \in 0 .. Word - 1 => Index(x) \in - Half .. Half - 1
  BY <1>1, Signs DEF Index, Half, Word
<1>. QED
  BY <1>1, <1>2

\* The sum of an index and a length, both not negative, is right unless it is
\* negative: so it is enough that LengthError looks at its sign.
LEMMA SumOrNegative ==
  ASSUME NEW x \in 0 .. Half - 1, NEW y \in 0 .. Half - 1
  PROVE  Index(x + y) < 0 \/ Index(x + y) = x + y
<1>1. Half \in Nat \ {0} /\ Word = 2 * Half
  BY WordIsTwoHalves
<1>2. x + y \in 0 .. Word - 1 /\ (x + y < Half \/ x + y >= Half)
  BY <1>1
<1>. QED
  BY <1>2, Indices

-----------------------------------------------------------------------------
(* Delimited bytes *)

\* Whatever the bytes are, a field of wire type 2 is never sliced out of range:
\* it is an error, or the bytes between its length and the next field.
LEMMA BodyStays ==
  ASSUME NEW b \in Buffer, NEW i \in Nat
  PROVE  \/ Body(b, i).err \in {"overflow", "eof", "length"}
         \/ \E from \in i + 1 .. Len(b) : \E to \in from .. Len(b) :
              Body(b, i) = Good(SubSeq(b, from + 1, to), to)
<1>. DEFINE v == Varint(b, i)
            length == Index(v.val)
            post == PostIndex(v.next, length, Len(b))
            err == LengthError(length, post, Len(b))
<1>0. b \in Seq(Byte) /\ Len(b) \in Nat /\ Len(b) < Half
  BY WordIsTwoHalves, Widths DEF Buffer
<1>1. CASE v.err \in {"overflow", "eof"}
  BY <1>1 DEF Body, Counted
<1>2. ASSUME NEW val \in 0 .. Word - 1, NEW next \in i + 1 .. Len(b), v = Good(val, next)
      PROVE  \/ Body(b, i).err \in {"eof", "length"}
             \/ \E to \in next .. Len(b) : Body(b, i) = Good(SubSeq(b, next + 1, to), to)
  <2>1. v.err = "none" /\ v.val = val /\ v.next = next
    BY <1>2 DEF Good
  <2>2. Body(b, i) = IF err # "none" THEN Fail(err) ELSE Slice(b, next, post)
    BY <2>1 DEF Body, Counted
  <2>3. length = Index(val) /\ post = Index(next + length)
    BY <2>1 DEF PostIndex
  <2>4. err \in {"none", "length", "eof"}
    BY DEF LengthError
  <2>. HIDE DEF v, length, post, err
  <2>5. CASE err # "none"
    BY <2>2, <2>4, <2>5 DEF Fail
  <2>6. CASE err = "none"
    <3>1. length \in - Half .. Half - 1
      BY <2>3, Indices
    <3>2. ~ (length < 0) /\ ~ (post < 0) /\ ~ (post > Len(b))
      BY <2>6 DEF err, LengthError
    <3>3. length \in 0 .. Half - 1 /\ next \in 0 .. Half - 1
      BY <1>0, <3>1, <3>2, WordIsTwoHalves
    <3>4. post = next + length
      BY <2>3, <3>2, <3>3, SumOrNegative
    <3>5. post \in next .. Len(b) /\ 0 <= next
      BY <1>0, <3>2, <3>3, <3>4
    <3>6. Slice(b, next, post) = Good(SubSeq(b, next + 1, post), post)
      BY <1>0, <3>5 DEF Slice
    <3>. QED
      BY <2>2, <2>6, <3>5, <3>6
  <2>. QED
    BY <2>5, <2>6
<1>3. v.err \in {"overflow", "eof"} \/
        \E val \in 0 .. Word - 1 : \E next \in i + 1 .. Len(b) : v = Good(val, next)
  BY <1>0, VarintStays
<1>. HIDE DEF v
<1>. QED
  BY <1>1, <1>2, <1>3

\* The bytes of a slice: its length is an int.
Slices == {s \in Seq(Byte) : Len(s) < Half}

\* Delimited bytes are a varint of the length and the bytes.
LEMMA DelimitedBytes ==
  ASSUME NEW s \in Slices
  PROVE  /\ Len(s) \in 0 .. Half - 1 /\ Len(s) \in 0 .. Word - 1
         /\ Len(EncodeVarint(Len(s))) = Sov(Len(s)) /\ Sov(Len(s)) \in Nat \ {0}
         /\ Delimited(s) \in Seq(Byte)
         /\ Len(Delimited(s)) = Sov(Len(s)) + Len(s)
         /\ \A k \in 1 .. Sov(Len(s)) : Delimited(s)[k] = EncodeVarint(Len(s))[k]
         /\ \A k \in 1 .. Len(s) : Delimited(s)[Sov(Len(s)) + k] = s[k]
<1>. DEFINE e == EncodeVarint(Len(s))
<1>1. s \in Seq(Byte) /\ Len(s) \in 0 .. Half - 1 /\ Len(s) \in 0 .. Word - 1
  BY WordIsTwoHalves DEF Slices
<1>2. e \in Seq(Byte) /\ Len(e) = Sov(Len(s)) /\ Sov(Len(s)) \in Nat \ {0}
  BY <1>1, EncodedBytes, SovFits, Widths
<1>3. Delimited(s) = e \o s
  BY DEF Delimited
<1>. HIDE DEF e
<1>4. /\ Delimited(s) \in Seq(Byte) /\ Len(Delimited(s)) = Len(e) + Len(s)
      /\ \A k \in 1 .. Len(e) : Delimited(s)[k] = e[k]
  <2>1. Delimited(s) \in Seq(Byte) /\ Len(Delimited(s)) = Len(e) + Len(s)
    <3>1. ASSUME NEW x \in Seq(Byte), NEW y \in Seq(Byte)
          PROVE  x \o y \in Seq(Byte) /\ Len(x \o y) = Len(x) + Len(y)
      OBVIOUS
    <3>. QED
      BY <1>1, <1>2, <1>3, <3>1, Zenon
  <2>2. ASSUME NEW k \in 1 .. Len(e) PROVE Delimited(s)[k] = e[k]
    BY <1>1, <1>2, <1>3
  <2>. QED
    BY <2>1, <2>2
<1>5. ASSUME NEW k \in 1 .. Len(s) PROVE Delimited(s)[Len(e) + k] = s[k]
  <2>1. Len(e) + k \in Len(e) + 1 .. Len(e) + Len(s) /\ (Len(e) + k) - Len(e) = k
    BY <1>2
  <2>. QED
    BY <1>1, <1>2, <1>3, <2>1
<1>. QED
  BY <1>1, <1>2, <1>4, <1>5 DEF e

\* Delimited bytes are read back.
LEMMA BodyReadsBack ==
  ASSUME NEW s \in Slices, NEW b \in Buffer, NEW i \in Nat, Has(b, i, Delimited(s))
  PROVE  Body(b, i) = Good(s, i + Len(Delimited(s)))
<1>. DEFINE n == Sov(Len(s))
            next == i + n
            to == next + Len(s)
<1>0. b \in Seq(Byte) /\ Len(b) \in Nat /\ Len(b) < Half /\ Half \in Nat /\ Word = 2 * Half
  BY WordIsTwoHalves, Widths DEF Buffer
<1>1. /\ Len(s) \in 0 .. Half - 1 /\ Len(s) \in 0 .. Word - 1 /\ n \in Nat \ {0}
      /\ Len(EncodeVarint(Len(s))) = n /\ s \in Seq(Byte)
  BY DelimitedBytes DEF Slices
<1>2. to <= Len(b) /\ i + Len(Delimited(s)) = to
  BY <1>1, DelimitedBytes DEF Has
<1>3. Has(b, i, EncodeVarint(Len(s)))
  <2>1. next <= Len(b)
    BY <1>0, <1>1, <1>2
  <2>2. ASSUME NEW k \in 1 .. n PROVE b[i + k] = EncodeVarint(Len(s))[k]
    <3>1. k \in 1 .. Len(Delimited(s))
      BY <1>1, DelimitedBytes
    <3>. QED
      BY <3>1, DelimitedBytes DEF Has
  <2>. QED
    BY <1>1, <2>1, <2>2 DEF Has
<1>4. Varint(b, i) = Good(Len(s), next)
  BY <1>0, <1>1, <1>3, VarintReadsBack
<1>5. SubSeq(b, next + 1, to) = s
  <2>1. \A k \in 1 .. Len(s) : b[next + k] = s[k]
    <3>1. ASSUME NEW k \in 1 .. Len(s) PROVE b[next + k] = s[k]
      <4>1. n + k \in 1 .. Len(Delimited(s)) /\ i + (n + k) = next + k
        BY <1>1, DelimitedBytes
      <4>2. b[i + (n + k)] = Delimited(s)[n + k]
        BY <4>1 DEF Has
      <4>. QED
        BY <4>1, <4>2, DelimitedBytes
    <3>. QED
      BY <3>1
  <2>. HIDE DEF n
  <2>2. next + 1 \in 1 .. Len(b) + 1 /\ to \in next .. Len(b) /\ next \in Nat /\ to \in Nat
    BY <1>0, <1>1, <1>2
  <2>. HIDE DEF next
  <2>3. to - next = Len(s)
    BY <1>1, <2>2
  <2>. HIDE DEF to
  <2>4. /\ SubSeq(b, next + 1, to) \in Seq(Byte) /\ Len(SubSeq(b, next + 1, to)) = Len(s)
        /\ \A k \in 1 .. Len(s) : SubSeq(b, next + 1, to)[k] = b[next + k]
    BY <1>0, <2>2, <2>3
  <2>5. \A t \in Seq(Byte) : Len(t) = Len(s) /\ (\A k \in 1 .. Len(s) : t[k] = s[k]) => t = s
    BY <1>1
  <2>. QED
    BY <2>1, <2>4, <2>5
<1>. HIDE DEF n
<1>6. Index(Len(s)) = Len(s)
  <2>1. Len(s) < Half
    BY <1>0, <1>1
  <2>. QED
    BY <1>1, <2>1, Indices, Zenon
<1>7. Index(next + Len(s)) = to
  BY <1>0, <1>1, <1>2, Indices
<1>8. LengthError(Len(s), to, Len(b)) = "none"
  BY <1>0, <1>1, <1>2 DEF LengthError
<1>9. Slice(b, next, to) = Good(s, to)
  <2>1. 0 <= next /\ next <= to /\ to <= Len(b)
    BY <1>0, <1>1, <1>2
  <2>. HIDE DEF next, to
  <2>. QED
    BY <1>5, <2>1 DEF Slice
<1>10. Body(b, i) = Slice(b, next, to)
  <2>. HIDE DEF next, to
  <2>. QED
    BY <1>4, <1>6, <1>7, <1>8 DEF Body, Counted, Good, PostIndex
<1>. QED
  BY <1>2, <1>9, <1>10

\* Delimited bytes that are cut are an error, wherever they are cut.
LEMMA BodyCut ==
  ASSUME NEW s \in Slices, NEW b \in Buffer, NEW i \in Nat, Cut(b, i, Delimited(s))
  PROVE  Body(b, i).err \in {"eof", "length"}
<1>. DEFINE n == Sov(Len(s))
            next == i + n
            post == Index(next + Len(s))
<1>0. b \in Seq(Byte) /\ Len(b) \in Nat /\ Len(b) < Half /\ Half \in Nat /\ Word = 2 * Half
  BY WordIsTwoHalves, Widths DEF Buffer
<1>1. /\ Len(s) \in 0 .. Half - 1 /\ Len(s) \in 0 .. Word - 1 /\ n \in Nat \ {0}
      /\ Len(EncodeVarint(Len(s))) = n /\ s \in Seq(Byte)
      /\ Len(Delimited(s)) = n + Len(s)
  BY DelimitedBytes DEF Slices
<1>2. Len(b) >= i /\ Len(b) < i + n + Len(s)
  BY <1>0, <1>1 DEF Cut
<1>3. CASE Len(b) < next
  <2>1. Cut(b, i, EncodeVarint(Len(s)))
    <3>1. \A k \in 1 .. Len(b) - i : k \in 1 .. n /\ b[i + k] = Delimited(s)[k]
      <4>1. \A k \in 1 .. Len(b) - i : b[i + k] = Delimited(s)[k]
        BY DEF Cut
      <4>2. Len(b) - i < n
        BY <1>0, <1>1, <1>3
      <4>3. \A k \in 1 .. Len(b) - i : k \in 1 .. n
        BY <1>0, <1>1, <4>2
      <4>. QED
        BY <4>1, <4>3
    <3>2. Len(b) \in i .. i + n - 1
      BY <1>0, <1>1, <1>2, <1>3
    <3>. QED
      BY <1>1, <3>1, <3>2, DelimitedBytes DEF Cut
  <2>2. Varint(b, i) = Fail("eof")
    BY <1>0, <1>1, <2>1, VarintCut
  <2>. QED
    BY <2>2 DEF Body, Counted, Fail
<1>4. CASE Len(b) >= next
  <2>1. Has(b, i, EncodeVarint(Len(s)))
    <3>1. \A k \in 1 .. n : k \in 1 .. Len(b) - i /\ b[i + k] = Delimited(s)[k]
      BY <1>0, <1>1, <1>2, <1>4 DEF Cut
    <3>. QED
      BY <1>1, <1>4, <3>1, DelimitedBytes DEF Has
  <2>2. Varint(b, i) = Good(Len(s), next)
    BY <1>0, <1>1, <2>1, VarintReadsBack
  <2>. HIDE DEF n
  <2>3. Index(Len(s)) = Len(s)
    <3>1. Len(s) < Half
      BY <1>0, <1>1
    <3>. QED
      BY <1>1, <3>1, Indices, Zenon
  <2>4. post < 0 \/ post = next + Len(s)
    <3>1. next \in 0 .. Half - 1
      BY <1>0, <1>1, <1>4
    <3>. HIDE DEF next
    <3>. QED
      BY <1>1, <3>1, SumOrNegative
  <2>5. LengthError(Len(s), post, Len(b)) \in {"length", "eof"}
    <3>1. post < 0 \/ post > Len(b)
      BY <1>0, <1>1, <1>2, <2>4
    <3>. QED
      BY <3>1 DEF LengthError
  <2>. HIDE DEF next, post
  <2>6. Body(b, i) = Fail(LengthError(Len(s), post, Len(b)))
    BY <2>2, <2>3, <2>5 DEF Body, Counted, Good, PostIndex, post
  <2>. QED
    BY <2>5, <2>6 DEF Fail
<1>. QED
  BY <1>0, <1>1, <1>3, <1>4

-----------------------------------------------------------------------------
(* Words of a fixed size *)

\* Whatever the bytes are, a word that is read ends within them.
LEMMA FixedStays ==
  ASSUME NEW b \in Buffer, NEW i \in 0 .. Len(b)
  PROVE  \/ Fixed(b, i).err = "eof"
         \/ \E val \in 0 .. Word - 1 :
              i + FixedBytes <= Len(b) /\ Fixed(b, i) = Good(val, i + FixedBytes)
<1>. DEFINE d == [k \in 1 .. FixedBytes |-> b[i + k]]
            D == DataBits + 1
<1>0. b \in Seq(Byte) /\ Len(b) \in Nat /\ Half \in Nat /\ Word = 2 * Half
      /\ i + FixedBytes \in 0 .. Half - 1 /\ FixedBytes \in Nat \ {0} /\ i \in Nat
  BY WordIsTwoHalves, Widths DEF Buffer
<1>1. Index(i + FixedBytes) = i + FixedBytes
  BY <1>0, Indices
<1>2. CASE i + FixedBytes > Len(b)
  BY <1>1, <1>2 DEF Fixed, Fail
<1>3. CASE i + FixedBytes <= Len(b)
  <2>1. D \in Nat /\ 2 ^ D = 2 * Cont
    BY Widths, PowerStep DEF Cont
  <2>2. d \in Seq(0 .. 2 ^ D - 1) /\ Len(d) = FixedBytes
    <3>1. \A k \in 1 .. FixedBytes : b[i + k] \in 0 .. 2 ^ D - 1
      BY <1>0, <1>3, <2>1 DEF Byte
    <3>. HIDE DEF D
    <3>. QED
      BY <1>0, <3>1
  <2>3. Fixed(b, i) = Good(FromDigits(d, D), i + FixedBytes)
    BY <1>0, <1>1, <1>3 DEF Fixed
  <2>. HIDE DEF d
  <2>4. FromDigits(d, D) \in 0 .. 2 ^ (D * Len(d)) - 1
    BY <2>1, <2>2, FromDigitsBound
  <2>5. 2 ^ (D * Len(d)) = Word
    BY <2>2, Widths DEF Word
  <2>. QED
    BY <1>3, <2>3, <2>4, <2>5
<1>. QED
  BY <1>0, <1>2, <1>3

\* A word is written as so many bytes.
LEMMA FixedBytesOf ==
  ASSUME NEW v \in 0 .. Word - 1
  PROVE  EncodeFixed(v) \in Seq(Byte) /\ Len(EncodeFixed(v)) = FixedBytes
<1>. DEFINE D == DataBits + 1
<1>1. D \in Nat /\ 2 ^ D = 2 * Cont /\ 2 * Cont \in Nat \ {0} /\ FixedBytes \in Nat
  BY Widths, PowerStep DEF Cont
<1>2. ASSUME NEW k \in 1 .. FixedBytes PROVE Digit(v, k - 1, D) \in Byte
  <2>1. D * (k - 1) \in Nat
    BY <1>1
  <2>2. 2 ^ (D * (k - 1)) \in Nat \ {0}
    BY <2>1, PowerPositive
  <2>3. v \in Nat
    BY WordIsTwoHalves
  <2>4. v \div 2 ^ (D * (k - 1)) \in Nat
    BY <2>2, <2>3, Division, Zenon
  <2>. QED
    BY <1>1, <2>4, Division DEF Digit, Byte
<1>. QED
  BY <1>1, <1>2 DEF EncodeFixed

\* A word that is written in fixed size is read back.
LEMMA FixedReadsBack ==
  ASSUME NEW v \in 0 .. Word - 1, NEW b \in Buffer, NEW i \in Nat,
         Has(b, i, EncodeFixed(v))
  PROVE  Fixed(b, i) = Good(v, i + FixedBytes)
<1>. DEFINE D == DataBits + 1
<1>0. b \in Seq(Byte) /\ Len(b) \in Nat /\ Half \in Nat /\ Word = 2 * Half
      /\ FixedBytes \in Nat \ {0} /\ Len(b) + FixedBytes < Half
  BY WordIsTwoHalves, Widths DEF Buffer
<1>1. Len(EncodeFixed(v)) = FixedBytes
  BY <1>0 DEF EncodeFixed
<1>2. i + FixedBytes <= Len(b) /\ \A k \in 1 .. FixedBytes : b[i + k] = EncodeFixed(v)[k]
  BY <1>1 DEF Has
<1>3. Index(i + FixedBytes) = i + FixedBytes
  BY <1>0, <1>2, Indices
<1>4. [k \in 1 .. FixedBytes |-> b[i + k]] = [k \in 1 .. FixedBytes |-> Digit(v, k - 1, D)]
  BY <1>2 DEF EncodeFixed
<1>5. Fixed(b, i) = Good(FromDigits([k \in 1 .. FixedBytes |-> b[i + k]], D), i + FixedBytes)
  BY <1>0, <1>2, <1>3 DEF Fixed
<1>6. FromDigits([k \in 1 .. FixedBytes |-> Digit(v, k - 1, D)], D) = v % 2 ^ (D * FixedBytes)
  BY <1>0, Widths, WordIsTwoHalves, FromDigitsOfNumber
<1>7. v % Word = v
  <2>1. Word \in Nat \ {0} /\ 0 * Word + v = v
    BY WordIsTwoHalves
  <2>. QED
    BY <2>1, DivisionUnique
<1>8. 2 ^ (D * FixedBytes) = Word
  BY Widths DEF Word
<1>. QED
  BY <1>4, <1>5, <1>6, <1>7, <1>8

\* A word that is cut is an error.
LEMMA FixedCut ==
  ASSUME NEW v \in 0 .. Word - 1, NEW b \in Buffer, NEW i \in Nat, Cut(b, i, EncodeFixed(v))
  PROVE  Fixed(b, i) = Fail("eof")
<1>0. /\ b \in Seq(Byte) /\ Len(b) \in Nat /\ Half \in Nat /\ Word = 2 * Half
      /\ FixedBytes \in Nat \ {0} /\ Len(b) + FixedBytes < Half
  BY WordIsTwoHalves, Widths DEF Buffer
<1>1. Len(EncodeFixed(v)) = FixedBytes
  BY <1>0 DEF EncodeFixed
<1>2. i <= Len(b) /\ Len(b) < i + FixedBytes
  BY <1>0, <1>1 DEF Cut
<1>3. Index(i + FixedBytes) = i + FixedBytes
  <2>1. i + FixedBytes \in 0 .. Word - 1 /\ i + FixedBytes < Half
    BY <1>0, <1>2
  <2>. QED
    BY <2>1, Indices
<1>. QED
  BY <1>0, <1>2, <1>3 DEF Fixed

-----------------------------------------------------------------------------
(* Unknown fields *)

\* Whatever the bytes are, one step over an unknown field is an error, or it goes
\* forward, or its index has wrapped around and is negative.
LEMMA SkipOneStays ==
  ASSUME NEW b \in Buffer, NEW j \in Nat
  PROVE  \/ /\ SkipOne(b, j).err \in {"overflow", "eof", "type", "length"}
            /\ SkipOne(b, j) = Fail(SkipOne(b, j).err)
         \/ \E wt \in 0 .. 5 : \E next \in - Half .. Half - 1 :
              (next < 0 \/ next > j) /\ SkipOne(b, j) = Good(wt, next)
<1>. DEFINE tag == Varint(b, j)
            wt == tag.val % 8
            v == Varint(b, tag.next)
<1>0. /\ b \in Seq(Byte) /\ Len(b) \in Nat /\ Half \in Nat /\ Word = 2 * Half
      /\ FixedBytes \in Nat \ {0} /\ Len(b) + FixedBytes < Half
  BY WordIsTwoHalves, Widths DEF Buffer
<1>1. CASE tag.err \in {"overflow", "eof"} /\ tag = Fail(tag.err)
  <2>1. SkipOne(b, j) = tag
    BY <1>1 DEF SkipOne, Following
  <2>. QED
    BY <1>1, <2>1
<1>2. CASE \E val \in 0 .. Word - 1 : \E next \in j + 1 .. Len(b) : tag = Good(val, next)
  <2>1. PICK val \in 0 .. Word - 1 : \E next \in j + 1 .. Len(b) : tag = Good(val, next)
    BY <1>2
  <2>2. PICK next \in j + 1 .. Len(b) : tag = Good(val, next)
    BY <2>1
  <2>3. tag.err = "none" /\ tag.val = val /\ tag.next = next
    BY <2>2 DEF Good
  <2>4. next \in Nat /\ val % 8 \in 0 .. 7 /\ wt = val % 8 /\ v = Varint(b, next)
    BY <1>0, <2>3, Division
  <2>5. CASE wt > 5
    BY <2>3, <2>5 DEF SkipOne, Following, Fail
  <2>6. CASE wt \in {3, 4}
    <3>1. SkipOne(b, j) = Good(wt, next)
      BY <2>3, <2>6 DEF SkipOne, Following
    <3>2. next \in - Half .. Half - 1 /\ next > j /\ wt \in 0 .. 5
      BY <1>0, <2>4, <2>6
    <3>. QED
      BY <3>1, <3>2
  <2>7. CASE wt \in {1, 5}
    <3>1. FixedBytes \div 2 \in 0 .. FixedBytes
      BY <1>0
    <3>2. PICK n \in 0 .. FixedBytes : SkipOne(b, j) = Good(wt, Index(next + n))
      <4>1. CASE wt = 1
        <5>1. SkipOne(b, j) = Good(wt, Index(next + FixedBytes))
          BY <2>3, <4>1 DEF SkipOne, Following
        <5>. QED
          BY <1>0, <5>1
      <4>2. CASE wt = 5
        <5>1. SkipOne(b, j) = Good(wt, Index(next + FixedBytes \div 2))
          BY <2>3, <4>2 DEF SkipOne, Following
        <5>. QED
          BY <3>1, <5>1
      <4>. QED
        BY <2>7, <4>1, <4>2
    <3>3. next + n \in 0 .. Word - 1 /\ next + n < Half
      BY <1>0, <2>4
    <3>4. Index(next + n) = next + n
      BY <3>3, Indices
    <3>5. next + n \in - Half .. Half - 1 /\ next + n > j /\ wt \in 0 .. 5
      BY <1>0, <2>4, <2>7, <3>3
    <3>. QED
      BY <3>2, <3>4, <3>5
  <2>8. CASE wt \in {0, 2}
    <3>1. CASE v.err \in {"overflow", "eof"} /\ v = Fail(v.err)
      <4>1. SkipOne(b, j) = v
        BY <2>3, <2>8, <3>1 DEF SkipOne, Following
      <4>. QED
        BY <3>1, <4>1
    <3>2. CASE \E val2 \in 0 .. Word - 1 : \E next2 \in next + 1 .. Len(b) :
                 v = Good(val2, next2)
      <4>1. PICK val2 \in 0 .. Word - 1 : \E next2 \in next + 1 .. Len(b) :
                   v = Good(val2, next2)
        BY <3>2
      <4>2. PICK next2 \in next + 1 .. Len(b) : v = Good(val2, next2)
        BY <4>1
      <4>3. v.err = "none" /\ v.val = val2 /\ v.next = next2
        BY <4>2 DEF Good
      <4>4. next2 \in 0 .. Half - 1 /\ next2 > j /\ next2 \in - Half .. Half - 1
        BY <1>0, <2>4
      <4>5. CASE wt = 0
        <5>1. SkipOne(b, j) = Good(wt, next2)
          BY <2>3, <4>3, <4>5 DEF SkipOne, Following
        <5>. QED
          BY <4>4, <4>5, <5>1
      <4>6. CASE wt = 2 /\ Index(val2) < 0
        <5>1. SkipOne(b, j) = Fail("length")
          BY <2>3, <4>3, <4>6 DEF SkipOne, Following
        <5>. QED
          BY <5>1 DEF Fail
      <4>7. CASE wt = 2 /\ ~ (Index(val2) < 0)
        <5>1. SkipOne(b, j) = Good(wt, Index(next2 + Index(val2)))
          BY <2>3, <4>3, <4>7 DEF SkipOne, Following
        <5>2. Index(val2) \in 0 .. Half - 1
          BY <1>0, <4>7, Indices
        <5>3. next2 + Index(val2) \in 0 .. Word - 1
          BY <1>0, <4>4, <5>2
        <5>4. Index(next2 + Index(val2)) \in - Half .. Half - 1
          BY <5>3, Indices
        <5>5. Index(next2 + Index(val2)) < 0 \/ Index(next2 + Index(val2)) > j
          BY <4>4, <5>2, SumOrNegative
        <5>. QED
          BY <4>7, <5>1, <5>4, <5>5
      <4>. QED
        BY <2>8, <4>5, <4>6, <4>7
    <3>3. (v.err \in {"overflow", "eof"} /\ v = Fail(v.err)) \/
            \E val2 \in 0 .. Word - 1 : \E next2 \in next + 1 .. Len(b) : v = Good(val2, next2)
      BY <1>0, <2>4, VarintStays
    <3>. HIDE DEF v
    <3>. QED
      BY <3>1, <3>2, <3>3
  <2>. HIDE DEF wt, v
  <2>9. wt \in 0 .. 7
    BY <2>4
  <2>. QED
    BY <2>5, <2>6, <2>7, <2>8, <2>9
<1>3. (tag.err \in {"overflow", "eof"} /\ tag = Fail(tag.err)) \/
        \E val \in 0 .. Word - 1 : \E next \in j + 1 .. Len(b) : tag = Good(val, next)
  BY <1>0, VarintStays
<1>. HIDE DEF tag
<1>. QED
  BY <1>1, <1>2, <1>3

\* Wherever a skipped field is said to end, it is skipped only if it ends within
\* the bytes, and not before it began.
LEMMA SkippedStays ==
  ASSUME NEW b \in Buffer, NEW i \in 0 .. Len(b), NEW n \in - Half .. Half - 1
  PROVE  \/ Skipped(b, i, Good(0, n)).err \in {"eof", "length"}
         \/ \E next \in i .. Len(b) :
              next = i + n /\ Skipped(b, i, Good(0, n)) = Good(0, next)
<1>0. /\ Len(b) \in Nat /\ Half \in Nat /\ Word = 2 * Half
      /\ FixedBytes \in Nat \ {0} /\ Len(b) + FixedBytes < Half
  BY WordIsTwoHalves, Widths DEF Buffer
<1>1. Good(0, n).err = "none" /\ Good(0, n).next = n
  BY DEF Good
<1>2. CASE n < 0 \/ Index(i + n) < 0
  BY <1>1, <1>2 DEF Skipped, Fail
<1>3. CASE ~ (n < 0 \/ Index(i + n) < 0)
  <2>1. i \in 0 .. Half - 1 /\ n \in 0 .. Half - 1
    BY <1>0, <1>3
  <2>2. Index(i + n) = i + n
    BY <1>3, <2>1, SumOrNegative
  <2>3. CASE i + n > Len(b)
    BY <1>1, <1>3, <2>2, <2>3 DEF Skipped, Fail
  <2>4. CASE ~ (i + n > Len(b))
    <3>1. Skipped(b, i, Good(0, n)) = Good(0, i + n)
      BY <1>1, <1>3, <2>2, <2>4 DEF Skipped
    <3>2. i + n \in i .. Len(b)
      BY <1>0, <2>1, <2>4
    <3>. QED
      BY <3>1, <3>2
  <2>. QED
    BY <2>3, <2>4
<1>. QED
  BY <1>2, <1>3

\* The loop of skip, as a function on the number of its rounds.
SkipStart == [err |-> "going", next |-> 0, depth |-> 0]

Rounds(s, n, f) ==
  f = [k \in 0 .. n |-> IF k = 0 THEN SkipStart ELSE SkipNext(s, f[k - 1])]

\* There is such a function, however many rounds there are.
LEMMA RoundsExist ==
  ASSUME NEW s
  PROVE  \A n \in Nat : \E f : Rounds(s, n, f)
<1>. DEFINE S == {n \in Nat : \E f : Rounds(s, n, f)}
<1>1. 0 \in S
  <2>. DEFINE f == [k \in 0 .. 0 |-> SkipStart]
  <2>1. f = [k \in 0 .. 0 |-> IF k = 0 THEN SkipStart ELSE SkipNext(s, f[k - 1])]
    OBVIOUS
  <2>. QED
    BY <2>1 DEF Rounds
<1>2. ASSUME NEW n \in Nat, n \in S PROVE n + 1 \in S
  <2>1. PICK f : Rounds(s, n, f)
    BY <1>2
  <2>. DEFINE At(h, k) == IF k = 0 THEN SkipStart ELSE SkipNext(s, h[k - 1])
              g == [k \in 0 .. n + 1 |-> At(f, k)]
  <2>2. \A k \in 0 .. n : f[k] = At(f, k)
    BY <2>1 DEF Rounds
  <2>3. \A k \in 0 .. n : g[k] = f[k]
    <3>1. \A k \in 0 .. n : k \in 0 .. n + 1
      OBVIOUS
    <3>. HIDE DEF At
    <3>. QED
      BY <2>2, <3>1
  <2>4. ASSUME NEW k \in 0 .. n + 1 PROVE At(g, k) = At(f, k)
    <3>1. CASE k = 0
      BY <3>1
    <3>2. CASE k # 0
      <4>1. k - 1 \in 0 .. n
        BY <3>2
      <4>2. g[k - 1] = f[k - 1]
        BY ONLY <2>3, <4>1
      <4>. HIDE DEF g
      <4>. QED
        BY <4>2
    <3>. QED
      BY <3>1, <3>2
  <2>5. g = [k \in 0 .. n + 1 |-> At(g, k)]
    <3>. HIDE DEF At
    <3>. QED
      BY <2>4
  <2>6. Rounds(s, n + 1, g)
    BY <2>5 DEF Rounds
  <2>. QED
    BY <2>6
<1>. HIDE DEF S
<1>3. Nat \subseteq S
  BY <1>1, <1>2, Induct
<1>. QED
  BY <1>3 DEF S

\* Skip is what its last round gives.
LEMMA SkipRounds ==
  ASSUME NEW s, Len(s) \in Nat
  PROVE  \E f : /\ Rounds(s, Len(s), f)
                /\ Skip(s) = IF f[Len(s)].err = "going" THEN Fail("eof") ELSE f[Len(s)]
<1>1. \E f : f = [k \in 0 .. Len(s) |->
                    IF k = 0 THEN [err |-> "going", next |-> 0, depth |-> 0]
                    ELSE SkipNext(s, f[k - 1])]
  BY RoundsExist DEF Rounds, SkipStart
<1>. QED
  BY <1>1 DEF Skip, Rounds, SkipStart

\* What a round of skip can give: it ends with an error or forward, or goes on at a
\* later index, within groups.
Skips == [err : {"overflow", "eof", "length", "type", "group"}]
Skippings(j) ==
  Skips \union {Good(0, n) : n \in 1 .. Half - 1}
        \union [err : {"going"}, next : j .. Half - 1, depth : Nat]

\* From such a result a round of skip gives such a result.
LEMMA SkipNextStays ==
  ASSUME NEW b \in Buffer, NEW k \in Nat, NEW at \in Skippings(k)
  PROVE  SkipNext(b, at) \in Skippings(k + 1)
<1>0. Half \in Nat
  BY WordIsTwoHalves
<1>1. CASE at.err # "going"
  <2>1. at \notin [err : {"going"}, next : k .. Half - 1, depth : Nat]
    BY <1>1
  <2>2. SkipNext(b, at) = at
    BY <1>1 DEF SkipNext, SkipOver
  <2>. QED
    BY <2>1, <2>2 DEF Skippings
<1>2. CASE at.err = "going"
  <2>1. at \in [err : {"going"}, next : k .. Half - 1, depth : Nat]
    BY <1>2 DEF Skippings, Skips, Good
  <2>2. at.next \in k .. Half - 1 /\ at.depth \in Nat /\ at.next \in Nat
    BY <2>1
  <2>. DEFINE one == SkipOne(b, at.next)
              depth == CASE one.val = 3 -> at.depth + 1 [] one.val = 4 -> at.depth - 1
                         [] OTHER -> at.depth
  <2>3. \/ one.err \in {"overflow", "eof", "type", "length"} /\ one = Fail(one.err)
        \/ \E wt \in 0 .. 5 : \E next \in - Half .. Half - 1 :
             (next < 0 \/ next > at.next) /\ one = Good(wt, next)
    BY <2>2, SkipOneStays
  <2>4. SkipNext(b, at) =
          IF one.err # "none" THEN one
          ELSE IF depth < 0 THEN Fail("group")
          ELSE IF one.next < 0 THEN Fail("length")
          ELSE IF depth = 0 THEN Good(0, one.next)
          ELSE [err |-> "going", next |-> one.next, depth |-> depth]
    BY <1>2 DEF SkipNext, SkipOver
  <2>5. depth \in Int
    BY <2>2
  <2>. HIDE DEF one, depth
  <2>6. CASE one.err \in {"overflow", "eof", "type", "length"} /\ one = Fail(one.err)
    <3>1. one \in Skips
      BY <2>6 DEF Fail, Skips
    <3>2. SkipNext(b, at) = one
      BY <2>4, <2>6
    <3>. QED
      BY <3>1, <3>2 DEF Skippings
  <2>7. CASE \E wt \in 0 .. 5 : \E next \in - Half .. Half - 1 :
               (next < 0 \/ next > at.next) /\ one = Good(wt, next)
    <3>1. PICK next \in - Half .. Half - 1 : 
            (next < 0 \/ next > at.next) /\ one.err = "none" /\ one.next = next
      BY <2>7 DEF Good
    <3>2. next < 0 \/ (next \in 1 .. Half - 1 /\ next \in k + 1 .. Half - 1)
      BY <1>0, <2>2, <3>1
    <3>3. Fail("group") \in Skips /\ Fail("length") \in Skips
      BY DEF Fail, Skips
    <3>4. CASE depth < 0 \/ next < 0
      BY <2>4, <3>1, <3>3, <3>4 DEF Skippings
    <3>5. CASE ~ (depth < 0 \/ next < 0)
      <4>1. CASE depth = 0
        BY <2>4, <3>1, <3>2, <3>5, <4>1 DEF Skippings
      <4>2. CASE depth # 0
        <5>1. SkipNext(b, at) = [err |-> "going", next |-> next, depth |-> depth]
          BY <2>4, <3>1, <3>5, <4>2
        <5>2. depth \in Nat /\ next \in k + 1 .. Half - 1
          BY <2>5, <3>2, <3>5
        <5>3. [err |-> "going", next |-> next, depth |-> depth] \in
                [err : {"going"}, next : k + 1 .. Half - 1, depth : Nat]
          BY <5>2
        <5>. QED
          BY <5>1, <5>3 DEF Skippings
      <4>. QED
        BY <4>1, <4>2
    <3>. QED
      BY <3>4, <3>5
  <2>. QED
    BY <2>3, <2>6, <2>7
<1>. QED
  BY <1>1, <1>2

\* skip ends with an error or at a later index, whatever the bytes are.
LEMMA SkipStays ==
  ASSUME NEW b \in Buffer
  PROVE  Skip(b) \in Skips \union {Good(0, n) : n \in 1 .. Half - 1}
<1>0. Len(b) \in Nat /\ Half \in Nat \ {0}
  BY WordIsTwoHalves DEF Buffer
<1>1. PICK f : /\ Rounds(b, Len(b), f)
               /\ Skip(b) = IF f[Len(b)].err = "going" THEN Fail("eof") ELSE f[Len(b)]
  BY <1>0, SkipRounds
<1>. DEFINE S == {k \in Nat : k <= Len(b) => f[k] \in Skippings(k)}
<1>2. 0 \in S
  <2>1. f[0] = SkipStart
    BY <1>0, <1>1 DEF Rounds
  <2>2. SkipStart \in [err : {"going"}, next : 0 .. Half - 1, depth : Nat]
    BY <1>0 DEF SkipStart
  <2>. QED
    BY <2>1, <2>2 DEF Skippings
<1>3. ASSUME NEW k \in Nat, k \in S PROVE k + 1 \in S
  <2>1. SUFFICES ASSUME k + 1 <= Len(b) PROVE f[k + 1] \in Skippings(k + 1)
    OBVIOUS
  <2>2. f[k] \in Skippings(k)
    BY <1>0, <1>3, <2>1
  <2>3. k + 1 \in 0 .. Len(b) /\ k + 1 # 0 /\ (k + 1) - 1 = k
    BY <1>0, <2>1
  <2>4. f[k + 1] = SkipNext(b, f[k])
    BY <1>1, <2>3 DEF Rounds
  <2>. QED
    BY <2>2, <2>4, SkipNextStays
<1>. HIDE DEF S
<1>4. Nat \subseteq S
  BY <1>2, <1>3, Induct
<1>5. f[Len(b)] \in Skippings(Len(b))
  BY <1>0, <1>4 DEF S
<1>6. CASE f[Len(b)].err = "going"
  <2>1. Skip(b) = Fail("eof")
    BY <1>1, <1>6
  <2>. QED
    BY <2>1 DEF Fail, Skips
<1>7. CASE f[Len(b)].err # "going"
  <2>1. Skip(b) = f[Len(b)]
    BY <1>1, <1>7
  <2>2. f[Len(b)] \notin [err : {"going"}, next : Len(b) .. Half - 1, depth : Nat]
    BY <1>7
  <2>. QED
    BY <1>5, <2>1, <2>2 DEF Skippings
<1>. QED
  BY <1>6, <1>7

\* Bytes after an index are bytes, and no more than there were.
LEMMA Rest ==
  ASSUME NEW b \in Buffer, NEW i \in 0 .. Len(b)
  PROVE  /\ SubSeq(b, i + 1, Len(b)) \in Buffer
         /\ Len(SubSeq(b, i + 1, Len(b))) = Len(b) - i
         /\ \A k \in 1 .. Len(b) - i : SubSeq(b, i + 1, Len(b))[k] = b[i + k]
<1>. DEFINE s == SubSeq(b, i + 1, Len(b))
<1>0. b \in Seq(Byte) /\ Len(b) \in Nat /\ Len(b) + FixedBytes < Half /\ Half \in Nat
      /\ FixedBytes \in Nat
  BY WordIsTwoHalves, Widths DEF Buffer
<1>1. s \in Seq(Byte) /\ Len(s) = Len(b) - i
  BY <1>0
<1>2. \A k \in 1 .. Len(b) - i : s[k] = b[i + k]
  BY <1>0
<1>. HIDE DEF s
<1>3. s \in Buffer
  BY <1>0, <1>1 DEF Buffer
<1>. QED
  BY <1>1, <1>2, <1>3 DEF s

\* An unknown field ends with an error, or after it began and within the bytes.
LEMMA UnknownStays ==
  ASSUME NEW b \in Buffer, NEW i \in 0 .. Len(b)
  PROVE  \/ Unknown(b, i).err \in {"overflow", "eof", "length", "type", "group"}
         \/ \E next \in i + 1 .. Len(b) : Unknown(b, i) = Good(0, next)
<1>. DEFINE s == Skip(SubSeq(b, i + 1, Len(b)))
<1>0. Half \in Nat /\ i \in Nat /\ Len(b) \in Nat
  BY WordIsTwoHalves DEF Buffer
<1>1. s \in Skips \union {Good(0, n) : n \in 1 .. Half - 1}
  BY Rest, SkipStays
<1>2. Unknown(b, i) = Skipped(b, i, s)
  BY DEF Unknown
<1>. HIDE DEF s
<1>3. CASE s \in Skips
  <2>1. s.err \in {"overflow", "eof", "length", "type", "group"}
    BY <1>3 DEF Skips
  <2>2. Skipped(b, i, s) = s
    BY <2>1 DEF Skipped
  <2>. QED
    BY <1>2, <2>1, <2>2
<1>4. CASE \E n \in 1 .. Half - 1 : s = Good(0, n)
  <2>1. PICK n \in 1 .. Half - 1 : s = Good(0, n)
    BY <1>4
  <2>2. n \in - Half .. Half - 1
    BY <1>0
  <2>3. CASE Skipped(b, i, Good(0, n)).err \in {"eof", "length"}
    BY <1>2, <2>1, <2>3
  <2>4. CASE \E next \in i .. Len(b) :
               next = i + n /\ Skipped(b, i, Good(0, n)) = Good(0, next)
    <3>1. PICK next \in i .. Len(b) :
                 next = i + n /\ Skipped(b, i, Good(0, n)) = Good(0, next)
      BY <2>4
    <3>2. next \in i + 1 .. Len(b)
      BY <1>0, <3>1
    <3>. QED
      BY <1>2, <2>1, <3>1, <3>2
  <2>. QED
    BY <2>2, <2>3, <2>4, SkippedStays
<1>. QED
  BY <1>1, <1>3, <1>4

-----------------------------------------------------------------------------
(* Values *)

\* The remainder of any integer, negative ones included.
LEMMA Remainder ==
  ASSUME NEW n \in Nat \ {0}, NEW q \in Int, NEW r \in 0 .. n - 1
  PROVE  (q * n + r) % n = r
<1>1. ASSUME NEW a \in Int, a = n * q + r
      PROVE  r = a % n
  BY <1>1
<1>2. q * n + r \in Int /\ q * n + r = n * q + r
  OBVIOUS
<1>. QED
  BY <1>1, <1>2

\* A signed number of n bits is read back from the word it is extended to.
LEMMA SignedReadsBack ==
  ASSUME NEW n \in Nat \ {0}, NEW C \in Nat \ {0}, Word = C * 2 ^ n,
         NEW v \in - 2 ^ (n - 1) .. 2 ^ (n - 1) - 1
  PROVE  v % Word \in 0 .. Word - 1 /\ Signed(v % Word, n) = v
<1>. DEFINE h == 2 ^ (n - 1)
            w == 2 ^ n
<1>1. h \in Nat \ {0} /\ w = 2 * h
  BY Signs
<1>2. Word \in Nat \ {0} /\ Word = C * w /\ v \in - h .. h - 1
  BY WordIsTwoHalves
<1>3. \A x \in Int : Signed(x, n) = IF x % w >= h THEN (x % w) - w ELSE x % w
  BY DEF Signed
<1>. HIDE DEF h, w
<1>4. Word >= w
  <2>1. \E c \in Nat : C = c + 1
    <3>. WITNESS C - 1 \in Nat
    <3>. QED
      OBVIOUS
  <2>2. PICK c \in Nat : C = c + 1
    BY <2>1
  <2>3. Word = c * w + w /\ c * w \in Nat
    BY <1>1, <1>2, <2>2
  <2>. QED
    BY <1>1, <2>3
<1>5. CASE v >= 0
  <2>1. v \in 0 .. Word - 1 /\ v \in 0 .. w - 1 /\ v < h /\ v \in Int
    BY <1>1, <1>2, <1>4, <1>5
  <2>2. v % Word = v /\ v % w = v
    <3>1. 0 * Word + v = v /\ 0 * w + v = v /\ w \in Nat \ {0} /\ 0 \in Int
      BY <1>1, <1>2, <2>1
    <3>2. (0 * Word + v) % Word = v
      BY <1>2, <2>1, <3>1, Remainder
    <3>3. (0 * w + v) % w = v
      BY <2>1, <3>1, Remainder
    <3>. QED
      BY <3>1, <3>2, <3>3
  <2>3. Signed(v, n) = v
    BY <1>1, <1>3, <2>1, <2>2
  <2>. QED
    BY <2>1, <2>2, <2>3
<1>6. CASE v < 0
  <2>1. v + Word \in 0 .. Word - 1 /\ v + w \in 0 .. w - 1 /\ v + w >= h /\ w \in Nat \ {0}
    BY <1>1, <1>2, <1>4, <1>6
  <2>2. v % Word = v + Word
    <3>1. (-1) * Word + (v + Word) = v /\ -1 \in Int
      BY <1>2
    <3>2. ((-1) * Word + (v + Word)) % Word = v + Word
      BY <1>2, <2>1, <3>1, Remainder
    <3>. QED
      BY <3>1, <3>2
  <2>3. (v + Word) % w = v + w
    <3>1. (C - 1) * w + (v + w) = v + Word /\ C - 1 \in Int
      <4>1. (C - 1) * w = C * w - w
        BY <1>1
      <4>. QED
        BY <1>1, <1>2, <4>1
    <3>2. ((C - 1) * w + (v + w)) % w = v + w
      BY <2>1, <3>1, Remainder
    <3>. QED
      BY <3>1, <3>2
  <2>4. Signed(v + Word, n) = v
    BY <1>1, <1>2, <1>3, <2>1, <2>3
  <2>. QED
    BY <2>1, <2>2, <2>4
<1>. QED
  BY <1>2, <1>5, <1>6

\* The fields that are a number or one byte slice, and their values in Go.
ValueTypes == {Bool, Int32, Uint32, Int64, Uint64, Fixed64, Bytes}

Values(t) ==
  CASE t = Bool -> BOOLEAN
    [] t = Int32 -> - 2 ^ (IntBits - 1) .. 2 ^ (IntBits - 1) - 1
    [] t = Uint32 -> 0 .. 2 ^ IntBits - 1
    [] t \in {Int64, Fixed64} -> - Half .. Half - 1
    [] t = Uint64 -> 0 .. Word - 1
    [] t = Bytes -> Slices

\* A word holds two int32s.
LEMMA WordOfInts ==
  /\ 2 ^ IntBits \in Nat \ {0}
  /\ Word = 2 ^ IntBits * 2 ^ IntBits
<1>1. IntBits \in Nat /\ WordBits = IntBits + IntBits
  BY WidthAssumption
<1>. QED
  BY <1>1, PowerPositive, PowerSum DEF Word

\* The number that is written for a value is a word, and stands for the value.
LEMMA NumberReadsBack ==
  ASSUME NEW t \in ValueTypes \ {Bytes}, NEW v \in Values(t)
  PROVE  /\ t.kind # "fixed64" =>
              Extended(t, v) \in 0 .. Word - 1 /\ Number(t, Extended(t, v)) = v
         /\ t.kind = "fixed64" => v % Word \in 0 .. Word - 1 /\ Number(t, v % Word) = v
<1>. DEFINE I == 2 ^ IntBits
<1>0. /\ Half \in Nat \ {0} /\ Word = 2 * Half /\ IntBits \in Nat \ {0}
      /\ WordBits \in Nat \ {0} /\ I \in Nat \ {0} /\ Word = I * I
  BY WordIsTwoHalves, Widths, WordOfInts
<1>. USE DEF Bool, Int32, Uint32, Int64, Uint64, Fixed64, Bytes, Scalar
<1>1. CASE t = Bool
  <2>1. v \in BOOLEAN /\ t.kind = "bool"
    BY <1>1 DEF Values
  <2>2. Extended(t, v) = (IF v THEN 1 ELSE 0)
    BY <2>1 DEF Extended
  <2>3. \A x \in Int : Number(t, x) = (x # 0)
    BY <2>1 DEF Number
  <2>. QED
    BY <1>0, <2>1, <2>2, <2>3
<1>2. CASE t = Int32
  <2>1. v \in - 2 ^ (IntBits - 1) .. 2 ^ (IntBits - 1) - 1 /\ t.kind = "int32"
    BY <1>2 DEF Values
  <2>2. Extended(t, v) = v % Word
    BY <2>1 DEF Extended
  <2>3. \A x \in Int : Number(t, x) = Signed(x, IntBits)
    BY <2>1 DEF Number
  <2>4. v % Word \in 0 .. Word - 1 /\ Signed(v % Word, IntBits) = v
    BY <1>0, <2>1, SignedReadsBack
  <2>. QED
    BY <1>0, <2>1, <2>2, <2>3, <2>4
<1>3. CASE t = Uint32
  <2>1. v \in 0 .. I - 1 /\ t.kind = "uint32"
    BY <1>3 DEF Values
  <2>2. Extended(t, v) = v % Word
    BY <2>1 DEF Extended
  <2>3. \A x \in Int : Number(t, x) = x % I
    BY <2>1 DEF Number
  <2>. HIDE DEF I
  <2>4. v % I = v
    <3>1. 0 * I + v = v /\ 0 \in Int
      BY <1>0, <2>1
    <3>2. (0 * I + v) % I = v
      BY <1>0, <2>1, <3>1, Remainder
    <3>. QED
      BY <3>1, <3>2
  <2>5. v \in 0 .. Word - 1
    <3>1. I * I = (I - 1) * I + I /\ (I - 1) * I \in Nat
      BY <1>0
    <3>. QED
      BY <1>0, <2>1, <3>1
  <2>6. v % Word = v
    <3>1. 0 * Word + v = v /\ 0 \in Int /\ Word \in Nat \ {0}
      BY <1>0, <2>1
    <3>2. (0 * Word + v) % Word = v
      BY <2>5, <3>1, Remainder
    <3>. QED
      BY <3>1, <3>2
  <2>. QED
    BY <2>1, <2>2, <2>3, <2>4, <2>5, <2>6
<1>4. CASE t \in {Int64, Fixed64}
  <2>1. v \in - Half .. Half - 1 /\ t.kind \in {"int64", "fixed64"}
    BY <1>4 DEF Values
  <2>2. Extended(t, v) = v % Word
    BY <2>1 DEF Extended
  <2>3. \A x \in Int : Number(t, x) = Signed(x, WordBits)
    BY <2>1 DEF Number
  <2>4. Word = 1 * 2 ^ WordBits
    BY <1>0 DEF Word
  <2>5. v % Word \in 0 .. Word - 1 /\ Signed(v % Word, WordBits) = v
    BY <1>0, <2>1, <2>4, SignedReadsBack DEF Half
  <2>. QED
    BY <1>0, <2>1, <2>2, <2>3, <2>5
<1>5. CASE t = Uint64
  <2>1. v \in 0 .. Word - 1 /\ t.kind = "uint64"
    BY <1>5 DEF Values
  <2>2. Extended(t, v) = v % Word
    BY <2>1 DEF Extended
  <2>3. \A x \in Int : Number(t, x) = x
    BY <2>1 DEF Number
  <2>4. v % Word = v
    <3>1. 0 * Word + v = v /\ 0 \in Int /\ Word \in Nat \ {0}
      BY <1>0, <2>1
    <3>2. (0 * Word + v) % Word = v
      BY <2>1, <3>1, Remainder
    <3>. QED
      BY <3>1, <3>2
  <2>. QED
    BY <2>1, <2>2, <2>3, <2>4
<1>. QED
  BY <1>1, <1>2, <1>3, <1>4, <1>5 DEF ValueTypes

-----------------------------------------------------------------------------
(* Fields *)

\* Bytes that are there are there part by part, and bytes that are cut are cut in
\* one part or the other.
LEMMA HasParts ==
  ASSUME NEW b \in Seq(Byte), NEW i \in Nat, NEW x \in Seq(Byte), NEW y \in Seq(Byte)
  PROVE  /\ Has(b, i, x \o y) => Has(b, i, x) /\ Has(b, i + Len(x), y)
         /\ Cut(b, i, x \o y) => \/ Cut(b, i, x)
                                 \/ Has(b, i, x) /\ Cut(b, i + Len(x), y)
<1>. DEFINE z == x \o y
            m == Len(x)
            n == Len(y)
            l == Len(b)
<1>0. m \in Nat /\ n \in Nat /\ l \in Nat
  OBVIOUS
<1>1. Len(z) = m + n
  OBVIOUS
<1>2. ASSUME NEW k \in 1 .. m PROVE z[k] = x[k] /\ k \in 1 .. m + n
  OBVIOUS
<1>3. ASSUME NEW k \in 1 .. n PROVE z[m + k] = y[k] /\ m + k \in 1 .. m + n
  <2>1. m + k \in m + 1 .. m + n /\ (m + k) - m = k
    BY <1>0
  <2>. QED
    BY <1>0, <2>1
<1>. HIDE DEF z, m, n, l
<1>4. ASSUME Has(b, i, z) PROVE Has(b, i, x) /\ Has(b, i + m, y)
  <2>1. i + (m + n) <= l /\ \A k \in 1 .. m + n : b[i + k] = z[k]
    BY <1>1, <1>4 DEF Has, l
  <2>2. i + m <= l /\ (i + m) + n <= l
    BY <1>0, <2>1
  <2>3. \A k \in 1 .. m : b[i + k] = x[k]
    BY <1>2, <2>1
  <2>4. \A k \in 1 .. n : b[(i + m) + k] = y[k]
    <3>1. ASSUME NEW k \in 1 .. n PROVE b[(i + m) + k] = y[k]
      <4>1. b[i + (m + k)] = y[k]
        BY <1>3, <2>1
      <4>2. i + (m + k) = (i + m) + k
        BY <1>0
      <4>. QED
        BY <4>1, <4>2
    <3>. QED
      BY <3>1
  <2>. QED
    BY <2>2, <2>3, <2>4 DEF Has, l, m, n
<1>5. ASSUME Cut(b, i, z), ~ Cut(b, i, x) PROVE Has(b, i, x) /\ Cut(b, i + m, y)
  <2>1. l \in i .. i + (m + n) - 1 /\ \A k \in 1 .. l - i : b[i + k] = z[k]
    BY <1>1, <1>5 DEF Cut, l
  <2>2. CASE l < i + m
    <3>1. l \in i .. i + m - 1
      BY <1>0, <2>1, <2>2
    <3>2. ASSUME NEW k \in 1 .. l - i PROVE b[i + k] = x[k]
      <4>1. k \in 1 .. m
        BY <1>0, <2>2
      <4>. QED
        BY <1>2, <2>1, <4>1
    <3>. QED
      BY <1>5, <3>1, <3>2 DEF Cut, l, m
  <2>3. CASE l >= i + m
    <3>1. ASSUME NEW k \in 1 .. m PROVE b[i + k] = x[k]
      <4>1. k \in 1 .. l - i
        BY <1>0, <2>3
      <4>. QED
        BY <1>2, <2>1, <4>1
    <3>2. i + m <= l /\ l \in i + m .. (i + m) + n - 1
      BY <1>0, <2>1, <2>3
    <3>3. ASSUME NEW k \in 1 .. l - (i + m) PROVE b[(i + m) + k] = y[k]
      <4>1. k \in 1 .. n /\ m + k \in 1 .. l - i
        BY <1>0, <2>1, <2>3
      <4>2. b[i + (m + k)] = y[k]
        BY <1>3, <2>1, <4>1
      <4>3. i + (m + k) = (i + m) + k
        BY <1>0
      <4>. QED
        BY <4>2, <4>3
    <3>4. Has(b, i, x)
      BY <3>1, <3>2 DEF Has, l, m
    <3>5. Cut(b, i + m, y)
      BY <3>2, <3>3 DEF Cut, l, n
    <3>. QED
      BY <3>4, <3>5
  <2>. QED
    BY <1>0, <2>1, <2>2, <2>3
<1>. QED
  BY <1>4, <1>5 DEF z, m

\* Numbers a field can have in Go, whose tag is a varint of a word.
FieldNumbers == {n \in 1 .. 2 ^ (IntBits - 1) - 1 : 8 * n + 7 < Word}

\* A tag is a varint of a word.
LEMMA TagBytes ==
  ASSUME NEW n \in FieldNumbers, NEW t
  PROVE  /\ WireType(t) \in {0, 1, 2}
         /\ 8 * n + WireType(t) \in 0 .. Word - 1
         /\ Tag(n, t) \in Seq(Byte) /\ Len(Tag(n, t)) = Sov(8 * n + WireType(t))
<1>1. WireType(t) \in {0, 1, 2}
  BY DEF WireType
<1>2. 2 ^ (IntBits - 1) \in Nat /\ Word \in Nat
  BY Widths, Signs, WordIsTwoHalves
<1>3. 8 * n + WireType(t) \in 0 .. Word - 1
  BY <1>1, <1>2 DEF FieldNumbers
<1>. QED
  BY <1>1, <1>3, EncodedBytes DEF Tag

\* Where a tag was written, its field number and wire type are read.
LEMMA TagReadsBack ==
  ASSUME NEW n \in FieldNumbers, NEW t, NEW b \in Seq(Byte), NEW i \in Nat,
         Has(b, i, Tag(n, t))
  PROVE  /\ Varint(b, i).err = "none"
         /\ Signed(Varint(b, i).val \div 8, IntBits) = n
         /\ Varint(b, i).val % 8 = WireType(t)
         /\ Varint(b, i).next = i + Len(Tag(n, t))
<1>1. /\ WireType(t) \in {0, 1, 2} /\ 8 * n + WireType(t) \in 0 .. Word - 1
      /\ Len(Tag(n, t)) = Sov(8 * n + WireType(t))
  BY TagBytes
<1>2. Varint(b, i) = Good(8 * n + WireType(t), i + Len(Tag(n, t)))
  BY <1>1, VarintReadsBack DEF Tag
<1>3. n \in Nat /\ n \in 0 .. 2 ^ (IntBits - 1) - 1 /\ IntBits \in Nat \ {0}
      /\ 2 ^ (IntBits - 1) \in Nat
  BY Widths, Signs DEF FieldNumbers
<1>4. (8 * n + WireType(t)) \div 8 = n /\ (8 * n + WireType(t)) % 8 = WireType(t)
  <2>1. 8 * n + WireType(t) = n * 8 + WireType(t) /\ WireType(t) \in 0 .. 8 - 1 /\ 8 \in Nat \ {0}
    BY <1>1, <1>3
  <2>2. (n * 8 + WireType(t)) \div 8 = n /\ (n * 8 + WireType(t)) % 8 = WireType(t)
    BY <1>3, <2>1, DivisionUnique, Zenon
  <2>. QED
    BY <2>1, <2>2
<1>5. Signed(n, IntBits) = n
  BY <1>3, Signs
<1>. QED
  BY <1>2, <1>4, <1>5 DEF Good

\* What follows the tag is bytes.
LEMMA PayloadBytes ==
  ASSUME NEW t \in ValueTypes, NEW v \in Values(t)
  PROVE  Payload(t, v) \in Seq(Byte)
<1>. USE DEF Bool, Int32, Uint32, Int64, Uint64, Fixed64, Bytes, Scalar
<1>1. CASE t = Bytes
  <2>1. WireType(t) = 2 /\ v \in Slices
    BY <1>1 DEF WireType, Values
  <2>. QED
    BY <2>1, DelimitedBytes DEF Payload
<1>2. CASE t = Fixed64
  <2>1. WireType(t) = 1 /\ t.kind = "fixed64" /\ t \in ValueTypes \ {Bytes}
    BY <1>2 DEF WireType, ValueTypes
  <2>2. v % Word \in 0 .. Word - 1
    BY <2>1, NumberReadsBack
  <2>. QED
    BY <2>1, <2>2, FixedBytesOf DEF Payload
<1>3. CASE t \notin {Bytes, Fixed64}
  <2>1. WireType(t) = 0 /\ t.kind # "fixed64" /\ t \in ValueTypes \ {Bytes}
    BY <1>3 DEF WireType, ValueTypes
  <2>2. Extended(t, v) \in 0 .. Word - 1
    BY <2>1, NumberReadsBack
  <2>. QED
    BY <2>1, <2>2, EncodedBytes DEF Payload
<1>. QED
  BY <1>1, <1>2, <1>3

\* What is read after a tag, by the wire type of its field.
Reading(t, b, i) ==
  CASE WireType(t) = 0 -> Varint(b, i)
    [] WireType(t) = 1 -> Fixed(b, i)
    [] WireType(t) = 2 -> Body(b, i)

\* A value is what was read, as a number of its type.
LEMMA ReadValueReading ==
  ASSUME NEW t, NEW b, NEW i
  PROVE  /\ Reading(t, b, i).err # "none" => ReadValue(t, b, i) = Reading(t, b, i)
         /\ Reading(t, b, i).err = "none" =>
              ReadValue(t, b, i) = Good(Number(t, Reading(t, b, i).val), Reading(t, b, i).next)
BY DEF ReadValue, Reading, Map

\* Where a value was written, it is read.
LEMMA PayloadReadsBack ==
  ASSUME NEW t \in ValueTypes, NEW v \in Values(t), NEW b \in Buffer, NEW i \in Nat,
         Has(b, i, Payload(t, v))
  PROVE  ReadValue(t, b, i) = Good(v, i + Len(Payload(t, v)))
<1>0. b \in Seq(Byte)
  BY DEF Buffer
<1>1. CASE t = Bytes
  <2>1. WireType(t) = 2 /\ v \in Slices /\ \A x : Number(t, x) = x
    BY <1>1 DEF WireType, Values, Number, ValueTypes, Bool, Int32, Uint32, Int64, Uint64,
                Fixed64, Bytes, Scalar
  <2>2. Payload(t, v) = Delimited(v) /\ Reading(t, b, i) = Body(b, i)
    BY <2>1 DEF Payload, Reading
  <2>3. Reading(t, b, i) = Good(v, i + Len(Payload(t, v)))
    BY <2>1, <2>2, BodyReadsBack
  <2>. QED
    BY <2>1, <2>3, ReadValueReading DEF Good
<1>2. CASE t = Fixed64
  <2>1. WireType(t) = 1 /\ t.kind = "fixed64" /\ t \in ValueTypes \ {Bytes}
    BY <1>2 DEF WireType, ValueTypes, Bool, Int32, Uint32, Int64, Uint64, Fixed64, Bytes, Scalar
  <2>2. v % Word \in 0 .. Word - 1 /\ Number(t, v % Word) = v
    BY <2>1, NumberReadsBack
  <2>3. Payload(t, v) = EncodeFixed(v % Word) /\ Reading(t, b, i) = Fixed(b, i)
    BY <2>1 DEF Payload, Reading
  <2>4. Reading(t, b, i) = Good(v % Word, i + Len(Payload(t, v)))
    BY <2>2, <2>3, FixedReadsBack, FixedBytesOf
  <2>. QED
    BY <2>2, <2>4, ReadValueReading DEF Good
<1>3. CASE t \notin {Bytes, Fixed64}
  <2>1. WireType(t) = 0 /\ t.kind # "fixed64" /\ t \in ValueTypes \ {Bytes}
    BY <1>3 DEF WireType, ValueTypes, Bool, Int32, Uint32, Int64, Uint64, Fixed64, Bytes, Scalar
  <2>2. Extended(t, v) \in 0 .. Word - 1 /\ Number(t, Extended(t, v)) = v
    BY <2>1, NumberReadsBack
  <2>3. Payload(t, v) = EncodeVarint(Extended(t, v)) /\ Reading(t, b, i) = Varint(b, i)
    BY <2>1 DEF Payload, Reading
  <2>4. Reading(t, b, i) = Good(Extended(t, v), i + Len(Payload(t, v)))
    BY <1>0, <2>2, <2>3, VarintReadsBack, EncodedBytes
  <2>. QED
    BY <2>2, <2>4, ReadValueReading DEF Good
<1>. QED
  BY <1>1, <1>2, <1>3

\* Where a value was written and is cut, there is an error.
LEMMA PayloadCut ==
  ASSUME NEW t \in ValueTypes, NEW v \in Values(t), NEW b \in Buffer, NEW i \in Nat,
         Cut(b, i, Payload(t, v))
  PROVE  ReadValue(t, b, i).err \in {"eof", "length"}
<1>0. b \in Seq(Byte)
  BY DEF Buffer
<1>1. CASE t = Bytes
  <2>1. WireType(t) = 2 /\ v \in Slices
    BY <1>1 DEF WireType, Values, ValueTypes, Bool, Int32, Uint32, Int64, Uint64,
                Fixed64, Bytes, Scalar
  <2>2. Payload(t, v) = Delimited(v) /\ Reading(t, b, i) = Body(b, i)
    BY <2>1 DEF Payload, Reading
  <2>3. Reading(t, b, i).err \in {"eof", "length"}
    BY <2>1, <2>2, BodyCut
  <2>. QED
    BY <2>3, ReadValueReading
<1>2. CASE t = Fixed64
  <2>1. WireType(t) = 1 /\ t.kind = "fixed64" /\ t \in ValueTypes \ {Bytes}
    BY <1>2 DEF WireType, ValueTypes, Bool, Int32, Uint32, Int64, Uint64, Fixed64, Bytes, Scalar
  <2>2. v % Word \in 0 .. Word - 1
    BY <2>1, NumberReadsBack
  <2>3. Payload(t, v) = EncodeFixed(v % Word) /\ Reading(t, b, i) = Fixed(b, i)
    BY <2>1 DEF Payload, Reading
  <2>4. Reading(t, b, i) = Fail("eof")
    BY <2>2, <2>3, FixedCut
  <2>. QED
    BY <2>4, ReadValueReading DEF Fail
<1>3. CASE t \notin {Bytes, Fixed64}
  <2>1. WireType(t) = 0 /\ t.kind # "fixed64" /\ t \in ValueTypes \ {Bytes}
    BY <1>3 DEF WireType, ValueTypes, Bool, Int32, Uint32, Int64, Uint64, Fixed64, Bytes, Scalar
  <2>2. Extended(t, v) \in 0 .. Word - 1
    BY <2>1, NumberReadsBack
  <2>3. Payload(t, v) = EncodeVarint(Extended(t, v)) /\ Reading(t, b, i) = Varint(b, i)
    BY <2>1 DEF Payload, Reading
  <2>4. Reading(t, b, i) = Fail("eof")
    BY <1>0, <2>2, <2>3, VarintCut
  <2>. QED
    BY <2>4, ReadValueReading DEF Fail
<1>. QED
  BY <1>1, <1>2, <1>3

\* What follows the tag, for a value of each wire type.
LEMMA PayloadOfType ==
  ASSUME NEW t \in ValueTypes, NEW v \in Values(t)
  PROVE  \/ /\ WireType(t) = 0
            /\ \E x \in 0 .. Word - 1 : Payload(t, v) = EncodeVarint(x)
         \/ /\ WireType(t) = 1
            /\ Len(Payload(t, v)) = FixedBytes
         \/ /\ WireType(t) = 2
            /\ v \in Slices /\ Payload(t, v) = Delimited(v)
<1>. USE DEF Bool, Int32, Uint32, Int64, Uint64, Fixed64, Bytes, Scalar
<1>1. CASE t = Bytes
  BY <1>1 DEF WireType, Values, Payload
<1>2. CASE t = Fixed64
  <2>1. WireType(t) = 1 /\ t.kind = "fixed64" /\ t \in ValueTypes \ {Bytes}
    BY <1>2 DEF WireType, ValueTypes
  <2>2. v % Word \in 0 .. Word - 1
    BY <2>1, NumberReadsBack
  <2>. QED
    BY <2>1, <2>2, FixedBytesOf DEF Payload
<1>3. CASE t \notin {Bytes, Fixed64}
  <2>1. WireType(t) = 0 /\ t.kind # "fixed64" /\ t \in ValueTypes \ {Bytes}
    BY <1>3 DEF WireType, ValueTypes
  <2>2. Extended(t, v) \in 0 .. Word - 1
    BY <2>1, NumberReadsBack
  <2>. QED
    BY <2>1, <2>2 DEF Payload
<1>. QED
  BY <1>1, <1>2, <1>3

\* One round of skip passes over such a field, to its end.
LEMMA SkipOneField ==
  ASSUME NEW n \in FieldNumbers, NEW t \in ValueTypes, NEW v \in Values(t),
         NEW b \in Buffer, NEW i \in Nat, Has(b, i, Tag(n, t) \o Payload(t, v))
  PROVE  SkipOne(b, i) = Good(WireType(t), i + Len(Tag(n, t) \o Payload(t, v)))
<1>. DEFINE at == i + Len(Tag(n, t))
            end == at + Len(Payload(t, v))
<1>0. /\ b \in Seq(Byte) /\ Len(b) \in Nat /\ Len(b) < Half /\ Half \in Nat
      /\ Word = 2 * Half /\ FixedBytes \in Nat
  BY WordIsTwoHalves, Widths DEF Buffer
<1>1. Tag(n, t) \in Seq(Byte) /\ Payload(t, v) \in Seq(Byte)
  BY TagBytes, PayloadBytes
<1>2. Has(b, i, Tag(n, t)) /\ Has(b, at, Payload(t, v))
  BY <1>0, <1>1, HasParts
<1>3. at \in Nat /\ end \in Nat /\ end = i + Len(Tag(n, t) \o Payload(t, v))
  BY <1>1
<1>4. Varint(b, i).err = "none" /\ Varint(b, i).val % 8 = WireType(t) /\ Varint(b, i).next = at
  BY <1>0, <1>2, TagReadsBack
<1>5. end <= Len(b)
  BY <1>2 DEF Has
<1>6. Index(end) = end
  <2>1. end \in 0 .. Word - 1 /\ end < Half
    BY <1>0, <1>3, <1>5
  <2>. HIDE DEF end
  <2>. QED
    BY <2>1, Indices
<1>7. CASE WireType(t) = 0 /\ \E x \in 0 .. Word - 1 : Payload(t, v) = EncodeVarint(x)
  <2>1. PICK x \in 0 .. Word - 1 : Payload(t, v) = EncodeVarint(x)
    BY <1>7
  <2>2. Varint(b, at) = Good(x, end)
    <3>. HIDE DEF at
    <3>. QED
      BY <1>0, <1>2, <1>3, <2>1, VarintReadsBack, EncodedBytes
  <2>. HIDE DEF at, end
  <2>3. Varint(b, at).err = "none" /\ Varint(b, at).next = end
    BY <2>2 DEF Good
  <2>4. SkipOne(b, i) = Good(0, end)
    BY <1>4, <1>7, <2>3 DEF SkipOne, Following
  <2>. QED
    BY <1>3, <1>7, <2>4
<1>8. CASE WireType(t) = 1 /\ Len(Payload(t, v)) = FixedBytes
  <2>1. end = at + FixedBytes
    BY <1>8
  <2>. HIDE DEF at, end
  <2>2. SkipOne(b, i) = Good(1, end)
    BY <1>4, <1>6, <1>8, <2>1 DEF SkipOne, Following
  <2>. QED
    BY <1>3, <1>8, <2>2
<1>9. CASE WireType(t) = 2 /\ v \in Slices /\ Payload(t, v) = Delimited(v)
  <2>. DEFINE len == EncodeVarint(Len(v))
  <2>1. /\ Len(v) \in 0 .. Half - 1 /\ Len(v) \in 0 .. Word - 1 /\ v \in Seq(Byte)
        /\ Len(len) = Sov(Len(v)) /\ Sov(Len(v)) \in Nat
        /\ Len(Delimited(v)) = Sov(Len(v)) + Len(v)
    BY <1>9, DelimitedBytes DEF Slices
  <2>2. len \in Seq(Byte)
    BY <2>1, EncodedBytes
  <2>3. Has(b, at, len \o v)
    BY <1>2, <1>9 DEF Delimited
  <2>. HIDE DEF at
  <2>4. Has(b, at, len)
    <3>. HIDE DEF len
    <3>. QED
      BY <1>0, <1>3, <2>1, <2>2, <2>3, HasParts
  <2>5. Varint(b, at) = Good(Len(v), at + Sov(Len(v)))
    BY <1>0, <1>3, <2>1, <2>4, VarintReadsBack
  <2>6. end = (at + Sov(Len(v))) + Len(v)
    BY <1>3, <1>9, <2>1
  <2>7. Index(Len(v)) = Len(v)
    <3>1. Len(v) < Half
      BY <1>0, <2>1
    <3>. QED
      BY <2>1, <3>1, Indices, Zenon
  <2>. HIDE DEF end, len
  <2>8. /\ Varint(b, at).err = "none" /\ Varint(b, at).val = Len(v)
        /\ Varint(b, at).next = at + Sov(Len(v))
    BY <2>5 DEF Good
  <2>9. ~ (Len(v) < 0)
    BY <2>1
  <2>10. SkipOne(b, i) = Good(2, end)
    <3>. DEFINE m == Len(v)
    <3>1. m = Len(v)
      OBVIOUS
    <3>. HIDE DEF m
    <3>. QED
      BY <1>4, <1>6, <1>9, <2>6, <2>7, <2>8, <2>9, <3>1 DEF SkipOne, Following
  <2>. QED
    BY <1>3, <1>9, <2>10
<1>. QED
  BY <1>7, <1>8, <1>9, PayloadOfType

\* What ends at its first round is where it ended.
LEMMA SkipEnds ==
  ASSUME NEW b \in Buffer, NEW n, Len(b) > 0, SkipNext(b, SkipStart) = Good(0, n)
  PROVE  Skip(b) = Good(0, n)
<1>0. Len(b) \in Nat
  BY DEF Buffer
<1>1. PICK f : /\ Rounds(b, Len(b), f)
               /\ Skip(b) = IF f[Len(b)].err = "going" THEN Fail("eof") ELSE f[Len(b)]
  BY <1>0, SkipRounds
<1>. DEFINE S == {k \in Nat : k + 1 <= Len(b) => f[k + 1] = Good(0, n)}
<1>2. 0 \in S
  <2>1. 0 \in 0 .. Len(b) /\ 1 \in 0 .. Len(b) /\ 1 # 0 /\ 1 - 1 = 0
    BY <1>0
  <2>2. f[0] = SkipStart
    BY <1>1, <2>1 DEF Rounds
  <2>3. f[1] = SkipNext(b, f[0])
    BY <1>1, <2>1 DEF Rounds
  <2>. QED
    BY <2>2, <2>3
<1>3. ASSUME NEW k \in Nat, k \in S PROVE k + 1 \in S
  <2>1. SUFFICES ASSUME (k + 1) + 1 <= Len(b) PROVE f[(k + 1) + 1] = Good(0, n)
    OBVIOUS
  <2>2. f[k + 1] = Good(0, n)
    BY <1>0, <1>3, <2>1
  <2>3. (k + 1) + 1 \in 0 .. Len(b) /\ (k + 1) + 1 # 0 /\ ((k + 1) + 1) - 1 = k + 1
    BY <1>0, <2>1
  <2>4. f[(k + 1) + 1] = SkipNext(b, f[k + 1])
    BY <1>1, <2>3 DEF Rounds
  <2>5. f[k + 1].err # "going"
    BY <2>2 DEF Good
  <2>. QED
    BY <2>2, <2>4, <2>5 DEF SkipNext, SkipOver
<1>. HIDE DEF S
<1>4. Nat \subseteq S
  BY <1>2, <1>3, Induct
<1>5. f[Len(b)] = Good(0, n)
  <2>1. Len(b) - 1 \in Nat /\ (Len(b) - 1) + 1 = Len(b)
    BY <1>0
  <2>. QED
    BY <1>4, <2>1 DEF S
<1>. QED
  BY <1>1, <1>5 DEF Good

-----------------------------------------------------------------------------
(* One field after another *)

\* A field that is a number or one byte slice, written with its tag as
\* MarshalToSizedBuffer does, is read back as Unmarshal does with the same field
\* number, wire type and value, and up to its last byte, at whatever index it is
\* and whatever is around it: for all values of its Go type, negative ones too.
LEMMA FieldReadsBack ==
  ASSUME NEW n \in FieldNumbers, NEW t \in ValueTypes, NEW v \in Values(t),
         NEW b \in Buffer, NEW i \in Nat, Has(b, i, Tag(n, t) \o Payload(t, v))
  PROVE  LET tag == Varint(b, i)
         IN /\ tag.err = "none"
            /\ Signed(tag.val \div 8, IntBits) = n
            /\ tag.val % 8 = WireType(t)
            /\ ReadValue(t, b, tag.next) = Good(v, i + Len(Tag(n, t) \o Payload(t, v)))
<1>1. b \in Seq(Byte) /\ Tag(n, t) \in Seq(Byte) /\ Payload(t, v) \in Seq(Byte)
  BY TagBytes, PayloadBytes DEF Buffer
<1>2. Has(b, i, Tag(n, t)) /\ Has(b, i + Len(Tag(n, t)), Payload(t, v))
  BY <1>1, HasParts
<1>3. /\ Len(Tag(n, t)) \in Nat /\ Len(Payload(t, v)) \in Nat
      /\ Len(Tag(n, t) \o Payload(t, v)) = Len(Tag(n, t)) + Len(Payload(t, v))
  BY <1>1
<1>4. /\ Varint(b, i).err = "none"
      /\ Signed(Varint(b, i).val \div 8, IntBits) = n
      /\ Varint(b, i).val % 8 = WireType(t)
      /\ Varint(b, i).next = i + Len(Tag(n, t))
  BY <1>1, <1>2, TagReadsBack
<1>5. ReadValue(t, b, i + Len(Tag(n, t))) =
        Good(v, (i + Len(Tag(n, t))) + Len(Payload(t, v)))
  BY <1>2, <1>3, PayloadReadsBack
<1>6. (i + Len(Tag(n, t))) + Len(Payload(t, v)) = i + Len(Tag(n, t) \o Payload(t, v))
  BY <1>3
<1>. QED
  BY <1>4, <1>5, <1>6

\* A field that Unmarshal does not know, be it a number or one byte slice that the
\* message of another version of the code has, is passed over to its last byte,
\* whatever is around it: skip takes its tag and its value for one part, and what
\* is read next is the next field.
LEMMA UnknownFieldIsSkipped ==
  ASSUME NEW n \in FieldNumbers, NEW t \in ValueTypes, NEW v \in Values(t),
         NEW b \in Buffer, NEW i \in Nat, Has(b, i, Tag(n, t) \o Payload(t, v))
  PROVE  Unknown(b, i) = Good(0, i + Len(Tag(n, t) \o Payload(t, v)))
<1>. DEFINE e == Tag(n, t) \o Payload(t, v)
            s == SubSeq(b, i + 1, Len(b))
<1>0. Tag(n, t) \in Seq(Byte) /\ Payload(t, v) \in Seq(Byte)
  BY TagBytes, PayloadBytes
<1>1. Len(Tag(n, t)) \in Nat \ {0}
  <2>1. Sov(8 * n + WireType(t)) \in 1 .. MaxGroups /\ MaxGroups \in Nat
    BY TagBytes, SovFits, Widths
  <2>. QED
    BY <2>1, TagBytes
<1>2. Len(e) \in Nat \ {0}
  BY <1>0, <1>1
<1>3. Has(b, i, e)
  OBVIOUS
<1>. HIDE DEF e
<1>4. i + Len(e) <= Len(b) /\ \A k \in 1 .. Len(e) : b[i + k] = e[k]
  BY <1>3 DEF Has
<1>5. /\ b \in Seq(Byte) /\ Len(b) \in Nat /\ Len(b) < Half /\ Half \in Nat
      /\ Word = 2 * Half
  BY WordIsTwoHalves, Widths DEF Buffer
<1>6. i \in 0 .. Len(b) /\ Len(e) \in 1 .. Len(b) - i
  BY <1>2, <1>4, <1>5
<1>7. /\ s \in Buffer /\ Len(s) = Len(b) - i
      /\ \A k \in 1 .. Len(b) - i : s[k] = b[i + k]
  BY <1>6, Rest
<1>. HIDE DEF s
<1>8. Has(s, 0, e)
  <2>1. 0 + Len(e) <= Len(s)
    BY <1>2, <1>6, <1>7
  <2>2. ASSUME NEW k \in 1 .. Len(e) PROVE s[0 + k] = e[k]
    <3>1. k \in 1 .. Len(b) - i /\ 0 + k = k
      BY <1>5, <1>6
    <3>. QED
      BY <1>4, <1>7, <3>1
  <2>. QED
    BY <2>1, <2>2 DEF Has
<1>9. SkipOne(s, 0) = Good(WireType(t), Len(e))
  <2>1. SkipOne(s, 0) = Good(WireType(t), 0 + Len(e))
    BY <1>7, <1>8, SkipOneField DEF e
  <2>. QED
    BY <1>2, <2>1
<1>10. SkipNext(s, SkipStart) = Good(0, Len(e))
  <2>1. WireType(t) # 3 /\ WireType(t) # 4
    BY TagBytes
  <2>2. ~ (Len(e) < 0)
    BY <1>2
  <2>. DEFINE m == Len(e)
  <2>3. SkipOne(s, 0) = Good(WireType(t), m) /\ ~ (m < 0)
    BY <1>9, <2>2
  <2>. HIDE DEF m
  <2>4. SkipNext(s, SkipStart) = Good(0, m)
    BY <2>1, <2>3 DEF SkipNext, SkipOver, SkipStart, Good
  <2>. QED
    BY <2>4 DEF m
<1>11. Len(s) > 0
  BY <1>5, <1>6, <1>7
<1>12. Skip(s) = Good(0, Len(e))
  BY <1>7, <1>10, <1>11, SkipEnds
<1>13. Index(i + Len(e)) = i + Len(e)
  <2>1. i + Len(e) \in 0 .. Word - 1 /\ i + Len(e) < Half
    BY <1>2, <1>4, <1>5
  <2>. QED
    BY <2>1, Indices
<1>14. Skipped(b, i, Good(0, Len(e))) = Good(0, i + Len(e))
  <2>1. ~ (Len(e) < 0) /\ ~ (i + Len(e) < 0) /\ ~ (i + Len(e) > Len(b))
    BY <1>2, <1>4, <1>5
  <2>2. Good(0, Len(e)).err = "none" /\ Good(0, Len(e)).next = Len(e)
    BY DEF Good
  <2>. QED
    BY <1>13, <2>1, <2>2 DEF Skipped
<1>. QED
  BY <1>12, <1>14 DEF Unknown, s, e

\* Whatever the bytes are, reading a tag, a value or an unknown field with the groups
\* it may hold, from any index on, never indexes outside them: it is an error that
\* Unmarshal returns, or it goes forward and ends within them.  So each round of its
\* loop comes nearer to the end, and the slice it takes is never out of range, also
\* where the length in the bytes makes an index wrap around.
LEMMA ReadingStays ==
  ASSUME NEW b \in Buffer, NEW i \in 0 .. Len(b)
  PROVE  LET Errors == {"overflow", "eof", "length", "type", "group"}
         IN /\ \/ Varint(b, i).err \in Errors
               \/ Varint(b, i).err = "none" /\ Varint(b, i).next \in i + 1 .. Len(b)
            /\ \A t :
                 \/ ReadValue(t, b, i).err \in Errors
                 \/ /\ ReadValue(t, b, i).err = "none"
                    /\ ReadValue(t, b, i).next \in i + 1 .. Len(b)
            /\ \/ Body(b, i).err \in Errors
               \/ Body(b, i).err = "none" /\ Body(b, i).next \in i + 1 .. Len(b)
            /\ \/ Unknown(b, i).err \in Errors
               \/ Unknown(b, i).err = "none" /\ Unknown(b, i).next \in i + 1 .. Len(b)
<1>. DEFINE Errors == {"overflow", "eof", "length", "type", "group"}
<1>0. b \in Seq(Byte) /\ Len(b) \in Nat /\ i \in Nat /\ FixedBytes \in Nat \ {0}
  BY Widths DEF Buffer
<1>1. \/ Varint(b, i).err \in Errors
      \/ Varint(b, i).err = "none" /\ Varint(b, i).next \in i + 1 .. Len(b)
  BY <1>0, VarintStays DEF Good
<1>2. \/ Fixed(b, i).err \in Errors
      \/ Fixed(b, i).err = "none" /\ Fixed(b, i).next \in i + 1 .. Len(b)
  <2>1. i + FixedBytes <= Len(b) => i + FixedBytes \in i + 1 .. Len(b)
    BY <1>0
  <2>. QED
    BY <2>1, FixedStays DEF Good
<1>3. \/ Body(b, i).err \in Errors
      \/ Body(b, i).err = "none" /\ Body(b, i).next \in i + 1 .. Len(b)
  <2>1. CASE Body(b, i).err \in {"overflow", "eof", "length"}
    BY <2>1
  <2>2. CASE \E from \in i + 1 .. Len(b) : \E to \in from .. Len(b) :
               Body(b, i) = Good(SubSeq(b, from + 1, to), to)
    <3>1. PICK from \in i + 1 .. Len(b) : \E to \in from .. Len(b) :
                 Body(b, i) = Good(SubSeq(b, from + 1, to), to)
      BY <2>2
    <3>2. PICK to \in from .. Len(b) : Body(b, i) = Good(SubSeq(b, from + 1, to), to)
      BY <3>1
    <3>3. to \in i + 1 .. Len(b)
      BY <1>0
    <3>. QED
      BY <3>2, <3>3 DEF Good
  <2>. QED
    BY <1>0, <2>1, <2>2, BodyStays
<1>4. ASSUME NEW t
      PROVE  \/ ReadValue(t, b, i).err \in Errors
             \/ /\ ReadValue(t, b, i).err = "none"
                /\ ReadValue(t, b, i).next \in i + 1 .. Len(b)
  <2>1. WireType(t) \in {0, 1, 2}
    BY DEF WireType
  <2>2. Reading(t, b, i) \in {Varint(b, i), Fixed(b, i), Body(b, i)}
    BY <2>1 DEF Reading
  <2>3. \/ Reading(t, b, i).err \in Errors
        \/ Reading(t, b, i).err = "none" /\ Reading(t, b, i).next \in i + 1 .. Len(b)
    BY <1>1, <1>2, <1>3, <2>2
  <2>. QED
    BY <2>3, ReadValueReading DEF Good
<1>5. \/ Unknown(b, i).err \in Errors
      \/ Unknown(b, i).err = "none" /\ Unknown(b, i).next \in i + 1 .. Len(b)
  BY UnknownStays DEF Good
<1>. QED
  BY <1>1, <1>3, <1>4, <1>5

\* The rounds of the loop over packed numbers.
PackedRounds(t, b, i, post, sofar, n, f) ==
  f = [k \in 0 .. n |-> IF k = 0 THEN Good(sofar, i) ELSE PackedNext(t, b, post, f[k - 1])]

\* There is such a function, however many rounds there are.
LEMMA PackedRoundsExist ==
  ASSUME NEW t, NEW b, NEW i, NEW post, NEW sofar
  PROVE  \A n \in Nat : \E f : PackedRounds(t, b, i, post, sofar, n, f)
<1>. DEFINE S == {n \in Nat : \E f : PackedRounds(t, b, i, post, sofar, n, f)}
            At(h, k) == IF k = 0 THEN Good(sofar, i) ELSE PackedNext(t, b, post, h[k - 1])
<1>1. 0 \in S
  <2>. DEFINE f == [k \in 0 .. 0 |-> Good(sofar, i)]
  <2>1. f = [k \in 0 .. 0 |-> At(f, k)]
    OBVIOUS
  <2>2. PackedRounds(t, b, i, post, sofar, 0, f)
    BY <2>1 DEF PackedRounds
  <2>. QED
    BY <2>2
<1>2. ASSUME NEW n \in Nat, n \in S PROVE n + 1 \in S
  <2>1. PICK f : PackedRounds(t, b, i, post, sofar, n, f)
    BY <1>2
  <2>. DEFINE g == [k \in 0 .. n + 1 |-> At(f, k)]
  <2>2. \A k \in 0 .. n : f[k] = At(f, k)
    BY <2>1 DEF PackedRounds
  <2>3. \A k \in 0 .. n : g[k] = f[k]
    <3>1. \A k \in 0 .. n : k \in 0 .. n + 1
      OBVIOUS
    <3>. HIDE DEF At
    <3>. QED
      BY <2>2, <3>1
  <2>4. ASSUME NEW k \in 0 .. n + 1 PROVE At(g, k) = At(f, k)
    <3>1. CASE k = 0
      BY <3>1
    <3>2. CASE k # 0
      <4>1. k - 1 \in 0 .. n
        BY <3>2
      <4>2. g[k - 1] = f[k - 1]
        BY ONLY <2>3, <4>1
      <4>. HIDE DEF g
      <4>. QED
        BY <4>2
    <3>. QED
      BY <3>1, <3>2
  <2>5. g = [k \in 0 .. n + 1 |-> At(g, k)]
    <3>. HIDE DEF At
    <3>. QED
      BY <2>4
  <2>6. PackedRounds(t, b, i, post, sofar, n + 1, g)
    BY <2>5 DEF PackedRounds
  <2>. QED
    BY <2>6
<1>. HIDE DEF S
<1>3. Nat \subseteq S
  BY <1>1, <1>2, Induct
<1>. QED
  BY <1>3 DEF S

\* Packed numbers end with an error, or at the end of their field or after it, and
\* within the bytes.
LEMMA PackedStays ==
  ASSUME NEW t, NEW b \in Buffer, NEW i \in Nat, NEW post \in i .. Len(b), NEW sofar
  PROVE  \/ Packed(t, b, i, post, sofar).err \in {"overflow", "eof"}
         \/ /\ Packed(t, b, i, post, sofar).err = "none"
            /\ Packed(t, b, i, post, sofar).next \in post .. Len(b)
<1>0. b \in Seq(Byte) /\ Len(b) \in Nat /\ post - i \in Nat /\ post \in Nat
  BY DEF Buffer
<1>1. \E f : /\ PackedRounds(t, b, i, post, sofar, post - i, f)
             /\ Packed(t, b, i, post, sofar) = f[post - i]
  <2>1. \E f : f = [k \in 0 .. post - i |->
                      IF k = 0 THEN Good(sofar, i) ELSE PackedNext(t, b, post, f[k - 1])]
    <3>. DEFINE n == post - i
    <3>1. n \in Nat
      BY <1>0
    <3>. HIDE DEF n
    <3>2. \E f : PackedRounds(t, b, i, post, sofar, n, f)
      BY <3>1, PackedRoundsExist, Zenon
    <3>. QED
      BY <3>2 DEF PackedRounds, n
  <2>. QED
    BY <2>1 DEF Packed, PackedRounds
<1>2. PICK f : /\ PackedRounds(t, b, i, post, sofar, post - i, f)
               /\ Packed(t, b, i, post, sofar) = f[post - i]
  BY <1>1
<1>. DEFINE Read(r, k) == /\ r.err = "none" /\ r.next \in i .. Len(b)
                          /\ r.next >= i + k \/ r.next >= post
            S == {k \in Nat : k <= post - i => \/ f[k].err \in {"overflow", "eof"}
                                              \/ Read(f[k], k)}
<1>3. 0 \in S
  <2>1. f[0] = Good(sofar, i)
    BY <1>0, <1>2 DEF PackedRounds
  <2>2. Read(f[0], 0)
    BY <1>0, <2>1 DEF Good
  <2>. QED
    BY <2>2
<1>4. ASSUME NEW k \in Nat, k \in S PROVE k + 1 \in S
  <2>1. SUFFICES ASSUME k + 1 <= post - i
                 PROVE  f[k + 1].err \in {"overflow", "eof"} \/ Read(f[k + 1], k + 1)
    OBVIOUS
  <2>2. f[k].err \in {"overflow", "eof"} \/ Read(f[k], k)
    BY <1>0, <1>4, <2>1
  <2>3. k + 1 \in 0 .. post - i /\ k + 1 # 0 /\ (k + 1) - 1 = k
    BY <1>0, <2>1
  <2>4. f[k + 1] = PackedNext(t, b, post, f[k])
    BY <1>2, <2>3 DEF PackedRounds
  <2>. DEFINE at == f[k]
              v == Varint(b, at.next)
  <2>5. f[k + 1] = IF at.err # "none" \/ at.next >= post THEN at
                   ELSE IF v.err # "none" THEN v
                   ELSE Good(Append(at.val, Number(t, v.val)), v.next)
    BY <2>4 DEF PackedNext
  <2>6. CASE at.err \in {"overflow", "eof"}
    BY <2>5, <2>6
  <2>7. CASE Read(at, k) /\ at.next >= post
    BY <2>5, <2>7
  <2>8. CASE Read(at, k) /\ ~ (at.next >= post)
    <3>1. at.next \in i .. Len(b) /\ at.next \in Nat /\ at.next >= i + k
      BY <1>0, <2>8
    <3>2. \/ v.err \in {"overflow", "eof"}
          \/ v.err = "none" /\ v.next \in at.next + 1 .. Len(b)
      BY <1>0, <3>1, VarintStays DEF Good
    <3>3. CASE v.err \in {"overflow", "eof"}
      <4>1. f[k + 1] = v
        BY <2>5, <2>8, <3>3
      <4>. QED
        BY <3>3, <4>1
    <3>4. CASE v.err = "none" /\ v.next \in at.next + 1 .. Len(b)
      <4>1. f[k + 1] = Good(Append(at.val, Number(t, v.val)), v.next)
        BY <2>5, <2>8, <3>4
      <4>2. f[k + 1].err = "none" /\ f[k + 1].next = v.next
        BY <4>1 DEF Good
      <4>3. v.next \in i .. Len(b) /\ v.next >= i + (k + 1)
        BY <1>0, <3>1, <3>4
      <4>. QED
        BY <4>2, <4>3
    <3>. QED
      BY <3>2, <3>3, <3>4
  <2>. QED
    BY <2>2, <2>6, <2>7, <2>8
<1>. HIDE DEF S
<1>5. Nat \subseteq S
  BY <1>3, <1>4, Induct
<1>6. f[post - i].err \in {"overflow", "eof"} \/ Read(f[post - i], post - i)
  BY <1>0, <1>5 DEF S
<1>7. ASSUME Read(f[post - i], post - i) PROVE f[post - i].next \in post .. Len(b)
  BY <1>0, <1>7
<1>. QED
  BY <1>2, <1>6, <1>7

\* The types of fields that the code distinguishes.
Kinds ==
  {"bool", "int32", "uint32", "int64", "uint64", "fixed64", "bytes",
   "strings", "ints", "ptr", "rep", "one"}

OfKinds(s) == \A n \in DOMAIN s : s[n].kind \in Kinds

\* Every field of every message has one of these types.
LEMMA SchemaKinds == \A K \in Messages : OfKinds(Schema[K])
<1>1. /\ Bool.kind \in Kinds /\ Int32.kind \in Kinds /\ Uint32.kind \in Kinds
      /\ Int64.kind \in Kinds /\ Uint64.kind \in Kinds /\ Fixed64.kind \in Kinds
      /\ Bytes.kind \in Kinds /\ Strings.kind \in Kinds /\ Ints.kind \in Kinds
      /\ \A K : Ptr(K).kind \in Kinds /\ Rep(K).kind \in Kinds /\ One(K).kind \in Kinds
  BY DEF Scalar, Bool, Int32, Uint32, Int64, Uint64, Fixed64, Bytes, Strings, Ints, Ptr,
         Rep, One, Kinds
<1>2. \A s \in {Fraction, Duration, Consensus, ClientState, MerkleRoot, MerkleProof,
             ConsensusState, CanonicalPartSetHeader, CanonicalBlockID,
             CanonicalVote} : OfKinds(s)
  BY <1>1 DEF OfKinds,
       Fraction, Duration, Consensus, ClientState, MerkleRoot, MerkleProof,
       ConsensusState, CanonicalPartSetHeader, CanonicalBlockID, CanonicalVote
<1>3. \A s \in {ValidatorSet, Validator, Commit, CommitSig, Timestamp, LightHeader,
             SignedHeader, TmHeader, Height} : OfKinds(s)
  BY <1>1 DEF OfKinds,
       ValidatorSet, Validator, Commit, CommitSig, Timestamp, LightHeader,
       SignedHeader, TmHeader, Height
<1>4. \A s \in {ExistenceProof, NonExistenceProof, CommitmentProof, LeafOp, InnerOp,
             ProofSpec, InnerSpec, BatchProof, BatchEntry} : OfKinds(s)
  BY <1>1 DEF OfKinds,
       ExistenceProof, NonExistenceProof, CommitmentProof, LeafOp, InnerOp,
       ProofSpec, InnerSpec, BatchProof, BatchEntry
<1>5. \A s \in {CompressedBatchProof, CompressedBatchEntry, CompressedExistenceProof,
             CompressedNonExistenceProof, HarmonyChainConfig,
             HarmonyProverConfig, TendermintChainConfig,
             TendermintProverConfig} : OfKinds(s)
  BY <1>1 DEF OfKinds,
       CompressedBatchProof, CompressedBatchEntry, CompressedExistenceProof,
       CompressedNonExistenceProof, HarmonyChainConfig, HarmonyProverConfig,
       TendermintChainConfig, TendermintProverConfig
<1>6. ASSUME NEW K \in Messages
      PROVE  Schema[K] \in {
        Fraction, Duration, Consensus, ClientState, MerkleRoot, MerkleProof,
        ConsensusState, CanonicalPartSetHeader, CanonicalBlockID,
        CanonicalVote, ValidatorSet, Validator, Commit, CommitSig, Timestamp,
        LightHeader, SignedHeader, TmHeader, Height, ExistenceProof,
        NonExistenceProof, CommitmentProof, LeafOp, InnerOp, ProofSpec,
        InnerSpec, BatchProof, BatchEntry, CompressedBatchProof,
        CompressedBatchEntry, CompressedExistenceProof,
        CompressedNonExistenceProof, HarmonyChainConfig, HarmonyProverConfig,
        TendermintChainConfig, TendermintProverConfig}
  BY DEF Messages, Schema
<1>. QED
  BY <1>2, <1>3, <1>4, <1>5, <1>6

\* What reading can end with, besides a value.
Errors == {"overflow", "eof", "length", "type", "group", "tag"}

\* A field of any type ends with an error, or after it began and within the bytes,
\* if a message in it is read without a panic.
LEMMA ReadFieldStays ==
  ASSUME NEW t, t.kind \in Kinds, NEW old, NEW wt, NEW b \in Buffer, NEW i \in 0 .. Len(b),
         NEW sub, sub.err \in Errors \union {"none"}
  PROVE  \/ ReadField(t, old, wt, b, i, sub).err \in Errors
         \/ /\ ReadField(t, old, wt, b, i, sub).err = "none"
            /\ ReadField(t, old, wt, b, i, sub).next \in i + 1 .. Len(b)
<1>. DEFINE Ends(r) == \/ r.err \in Errors
                       \/ r.err = "none" /\ r.next \in i + 1 .. Len(b)
<1>0. i \in Nat /\ Len(b) \in Nat
  BY DEF Buffer
<1>1. Ends(Varint(b, i)) /\ Ends(ReadValue(t, b, i))
  BY ReadingStays DEF Errors
<1>2. \A x, next : next \in i + 1 .. Len(b) => Ends(Good(x, next))
  BY DEF Good
<1>3. Ends(ReadDelimited(t, old, b, i, sub)) \/ IsValue(t)
  <2>. SUFFICES ASSUME ~ IsValue(t) PROVE Ends(ReadDelimited(t, old, b, i, sub))
    OBVIOUS
  <2>1. t.kind \in {"strings", "ints", "rep", "ptr", "one"}
    BY DEF IsValue, WireType, Kinds
  <2>. DEFINE body == Body(b, i)
              message == IF sub.err # "none" THEN sub ELSE Good(sub.val, body.next)
  <2>2. CASE body.err \in {"overflow", "eof", "length"}
    <3>1. ReadDelimited(t, old, b, i, sub) = body
      BY <2>2 DEF ReadDelimited, Within
    <3>. QED
      BY <2>2, <3>1 DEF Errors
  <2>3. CASE \E from \in i + 1 .. Len(b) : \E to \in from .. Len(b) :
               body = Good(SubSeq(b, from + 1, to), to)
    <3>1. PICK from \in i + 1 .. Len(b) : \E to \in from .. Len(b) :
                 body = Good(SubSeq(b, from + 1, to), to)
      BY <2>3
    <3>2. PICK to \in from .. Len(b) : body = Good(SubSeq(b, from + 1, to), to)
      BY <3>1
    <3>3. body.err = "none" /\ body.next = to /\ body.val = SubSeq(b, from + 1, to)
      BY <3>2 DEF Good
    <3>4. to - Len(SubSeq(b, from + 1, to)) = from
      BY <1>0 DEF Buffer
    <3>5. to \in i + 1 .. Len(b) /\ from \in Nat /\ to \in from .. Len(b)
      BY <1>0
    <3>. HIDE DEF body
    <3>6. CASE t.kind = "strings"
      <4>1. ReadDelimited(t, old, b, i, sub) = Good(Append(old, body.val), body.next)
        BY <3>3, <3>6 DEF ReadDelimited, Within, Map, body
      <4>. QED
        BY <1>2, <3>3, <3>5, <4>1
    <3>7. CASE t.kind = "ints"
      <4>1. ReadDelimited(t, old, b, i, sub) = Packed(t, b, from, to, old)
        BY <3>3, <3>4, <3>7 DEF ReadDelimited, Within, body
      <4>2. \/ Packed(t, b, from, to, old).err \in {"overflow", "eof"}
            \/ /\ Packed(t, b, from, to, old).err = "none"
               /\ Packed(t, b, from, to, old).next \in to .. Len(b)
        BY <3>5, PackedStays
      <4>3. to .. Len(b) \subseteq i + 1 .. Len(b)
        BY <1>0, <3>5
      <4>. QED
        BY <4>1, <4>2, <4>3 DEF Errors
    <3>8. CASE t.kind \in {"rep", "ptr", "one"}
      <4>1. CASE sub.err # "none"
        <5>1. ReadDelimited(t, old, b, i, sub) = sub
          BY <3>3, <3>8, <4>1 DEF ReadDelimited, Within, Map, body
        <5>. QED
          BY <4>1, <5>1
      <4>2. CASE sub.err = "none"
        <5>1. Good(sub.val, body.next).err = "none" /\ Good(sub.val, body.next).next = to
          BY <3>3 DEF Good
        <5>2. \E x : ReadDelimited(t, old, b, i, sub) = Good(x, to)
          BY <3>3, <3>8, <4>2, <5>1 DEF ReadDelimited, Within, Map, body
        <5>. QED
          BY <1>2, <3>5, <5>2
      <4>. QED
        BY <4>1, <4>2
    <3>. QED
      BY <2>1, <3>6, <3>7, <3>8
  <2>. QED
    BY <1>0, <2>2, <2>3, BodyStays
<1>4. CASE t.kind = "ints" /\ wt = 0
  <2>. DEFINE v == Varint(b, i)
  <2>1. ReadField(t, old, wt, b, i, sub) =
          IF v.err # "none" THEN v ELSE Good(Append(old, Number(t, v.val)), v.next)
    BY <1>4 DEF ReadField, Map
  <2>2. Ends(v)
    BY <1>1
  <2>3. CASE v.err # "none"
    BY <2>1, <2>2, <2>3
  <2>4. CASE v.err = "none"
    <3>1. v.next \in i + 1 .. Len(b)
      BY <2>2, <2>4 DEF Errors
    <3>. HIDE DEF v
    <3>2. Ends(Good(Append(old, Number(t, v.val)), v.next))
      BY <1>2, <3>1
    <3>. QED
      BY <2>1, <2>4, <3>2
  <2>. QED
    BY <2>3, <2>4
<1>5. CASE ~ (t.kind = "ints" /\ wt = 0) /\ wt # WireType(t)
  <2>1. ReadField(t, old, wt, b, i, sub) = Fail("type")
    BY <1>5 DEF ReadField
  <2>. QED
    BY <2>1 DEF Fail, Errors
<1>6. CASE ~ (t.kind = "ints" /\ wt = 0) /\ wt = WireType(t)
  <2>1. CASE IsValue(t)
    <3>1. ReadField(t, old, wt, b, i, sub) = ReadValue(t, b, i)
      BY <1>6, <2>1 DEF ReadField
    <3>. QED
      BY <1>1, <3>1
  <2>2. CASE ~ IsValue(t)
    <3>1. ReadField(t, old, wt, b, i, sub) = ReadDelimited(t, old, b, i, sub)
      BY <1>6, <2>2 DEF ReadField
    <3>. QED
      BY <1>3, <2>2, <3>1
  <2>. QED
    BY <2>1, <2>2
<1>. QED
  BY <1>4, <1>5, <1>6

-----------------------------------------------------------------------------
(* Theorems: a round of Unmarshal's loop *)

\* A field that is a number or one byte slice, written with its tag as
\* MarshalToSizedBuffer does, becomes the field of that number in the message, with
\* the value it was written with, and the loop goes on after its last byte, at
\* whatever index it is and whatever is around it: for all values of its Go type,
\* negative ones too.  Nothing else in the message changes.
THEOREM RoundReadsField ==
  ASSUME NEW K, NEW m, NEW n \in FieldNumbers, n \in DOMAIN Schema[K],
         Schema[K][n] \in ValueTypes, NEW v \in Values(Schema[K][n]),
         NEW b \in Buffer, NEW i \in Nat, NEW sub,
         Has(b, i, Tag(n, Schema[K][n]) \o Payload(Schema[K][n], v))
  PROVE  Round(K, m, b, i, sub) =
           Good([m EXCEPT ![n] = v],
                i + Len(Tag(n, Schema[K][n]) \o Payload(Schema[K][n], v)))
<1>. DEFINE t == Schema[K][n]
            end == i + Len(Tag(n, t) \o Payload(t, v))
            tag == Varint(b, i)
<1>1. /\ tag.err = "none" /\ Signed(tag.val \div 8, IntBits) = n
      /\ tag.val % 8 = WireType(t)
      /\ ReadValue(t, b, tag.next) = Good(v, end)
  BY FieldReadsBack
<1>2. n > 0 /\ ~ (n <= 0)
  BY Signs, Widths DEF FieldNumbers
<1>3. IsValue(t) /\ t.kind \notin {"ints", "one"} /\ WireType(t) # 4
  BY DEF IsValue, WireType, ValueTypes, Bool, Int32, Uint32, Int64, Uint64, Fixed64,
         Bytes, Scalar
<1>. HIDE DEF end, tag
<1>4. ReadField(t, m[n], WireType(t), b, tag.next, sub) = Good(v, end)
  BY <1>1, <1>3 DEF ReadField
<1>5. SetField(K, m, n, v) = [m EXCEPT ![n] = v]
  BY <1>3 DEF SetField
<1>6. FieldNumber(b, i) = n
  BY <1>1 DEF FieldNumber, tag
<1>7. Good(v, end).err = "none" /\ Good(v, end).val = v /\ Good(v, end).next = end
  BY DEF Good
<1>8. Round(K, m, b, i, sub) = Good(SetField(K, m, n, v), end)
  BY <1>1, <1>2, <1>3, <1>4, <1>6, <1>7 DEF Round, Taken, tag
<1>. QED
  BY <1>5, <1>8 DEF end

\* A field that is a message, or one of several messages or byte slices: what its own
\* Unmarshal is given is just the bytes that were written for it, and what comes of
\* them takes the place of what was there (which Begun has put into it, where
\* messages are merged) or follows it; the loop goes on after them.
THEOREM RoundReadsMessage ==
  ASSUME NEW K, NEW m, NEW n \in FieldNumbers, n \in DOMAIN Schema[K],
         Schema[K][n].kind \in {"strings", "rep", "ptr", "one"},
         NEW e \in Slices, NEW b \in Buffer, NEW i \in Nat,
         NEW sub, sub.err = "none",
         Has(b, i, Tag(n, Schema[K][n]) \o Delimited(e))
  PROVE  LET read == CASE Schema[K][n].kind = "strings" -> Append(m[n], e)
                       [] Schema[K][n].kind = "rep" -> Append(m[n], sub.val)
                       [] OTHER -> <<sub.val>>
         IN /\ Body(b, Varint(b, i).next).val = e
            /\ Round(K, m, b, i, sub) =
                 Good(SetField(K, m, n, read), i + Len(Tag(n, Schema[K][n]) \o Delimited(e)))
<1>. DEFINE t == Schema[K][n]
            at == i + Len(Tag(n, t))
            end == i + Len(Tag(n, t) \o Delimited(e))
            tag == Varint(b, i)
            body == Body(b, at)
            read == CASE t.kind = "strings" -> Append(m[n], e)
                      [] t.kind = "rep" -> Append(m[n], sub.val)
                      [] OTHER -> <<sub.val>>
<1>1. b \in Seq(Byte) /\ Tag(n, t) \in Seq(Byte) /\ Delimited(e) \in Seq(Byte)
  BY TagBytes, DelimitedBytes DEF Buffer
<1>2. Has(b, i, Tag(n, t)) /\ Has(b, at, Delimited(e))
  BY <1>1, HasParts
<1>3. at \in Nat /\ end = at + Len(Delimited(e))
  BY <1>1
<1>4. /\ tag.err = "none" /\ Signed(tag.val \div 8, IntBits) = n
      /\ tag.val % 8 = WireType(t) /\ tag.next = at
  BY <1>1, <1>2, TagReadsBack
<1>5. body = Good(e, end)
  BY <1>2, <1>3, BodyReadsBack
<1>6. body.err = "none" /\ body.val = e /\ body.next = end
  BY <1>5 DEF Good
<1>7. ~ (n <= 0)
  BY Signs, Widths DEF FieldNumbers
<1>8. ~ IsValue(t) /\ t.kind # "ints" /\ WireType(t) = 2
  BY DEF IsValue, WireType
<1>9. FieldNumber(b, i) = n
  BY <1>4 DEF FieldNumber
<1>. HIDE DEF at, end, tag, body
<1>10. Good(sub.val, body.next).err = "none" /\ Good(sub.val, body.next).val = sub.val
       /\ Good(sub.val, body.next).next = end
  BY <1>6 DEF Good
<1>11. ReadDelimited(t, m[n], b, at, sub) = Good(read, end)
  <2>1. CASE t.kind = "strings"
    BY <1>6, <2>1 DEF ReadDelimited, Within, Map, body
  <2>2. CASE t.kind = "rep"
    BY <1>6, <1>10, <2>2 DEF ReadDelimited, Within, Map, body
  <2>3. CASE t.kind \in {"ptr", "one"}
    BY <1>6, <1>10, <2>3 DEF ReadDelimited, Within, Map, body
  <2>. QED
    BY <2>1, <2>2, <2>3
<1>12. ReadField(t, m[n], WireType(t), b, at, sub) = Good(read, end)
  BY <1>8, <1>11 DEF ReadField
<1>. HIDE DEF read
<1>13. /\ Good(read, end).err = "none" /\ Good(read, end).val = read
       /\ Good(read, end).next = end
  BY DEF Good
<1>14. Round(K, m, b, i, sub) = Good(SetField(K, m, n, read), end)
  BY <1>4, <1>7, <1>8, <1>9, <1>12, <1>13 DEF Round, Taken, tag
<1>15. Body(b, Varint(b, i).next).val = e
  BY <1>4, <1>6 DEF tag, body
<1>. QED
  BY <1>14, <1>15 DEF read, end

\* The same field in a message that does not have its number, as the message of an
\* older version of the code, leaves the message as it was, and the loop goes on
\* after its last byte.
THEOREM RoundSkipsField ==
  ASSUME NEW K, NEW m, NEW n \in FieldNumbers, n \notin DOMAIN Schema[K],
         NEW t \in ValueTypes, NEW v \in Values(t), NEW b \in Buffer, NEW i \in Nat, NEW sub,
         Has(b, i, Tag(n, t) \o Payload(t, v))
  PROVE  Round(K, m, b, i, sub) = Good(m, i + Len(Tag(n, t) \o Payload(t, v)))
<1>. DEFINE end == i + Len(Tag(n, t) \o Payload(t, v))
            tag == Varint(b, i)
<1>1. /\ tag.err = "none" /\ Signed(tag.val \div 8, IntBits) = n
      /\ tag.val % 8 = WireType(t)
  BY FieldReadsBack
<1>2. ~ (n <= 0)
  BY Signs, Widths DEF FieldNumbers
<1>3. WireType(t) # 4
  BY DEF WireType
<1>4. Unknown(b, i) = Good(0, end)
  BY UnknownFieldIsSkipped
<1>. HIDE DEF end
<1>5. Good(0, end).err = "none" /\ Good(0, end).next = end
  BY DEF Good
<1>6. FieldNumber(b, i) = n
  BY <1>1 DEF FieldNumber
<1>. HIDE DEF tag
<1>7. Round(K, m, b, i, sub) = Good(m, end)
  BY <1>1, <1>2, <1>3, <1>4, <1>5, <1>6 DEF Round, Taken, tag
<1>. QED
  BY <1>7 DEF end

\* Bytes that end within a field of any type, wherever that is, are an error that
\* Unmarshal returns, and never another field or another value: the beginning of a
\* field is not taken for a field.
THEOREM RoundNoticesCut ==
  ASSUME NEW K, NEW m, NEW n \in FieldNumbers, n \in DOMAIN Schema[K], NEW p,
         LET t == Schema[K][n]
         IN \/ t \in ValueTypes /\ \E v \in Values(t) : p = Payload(t, v)
            \/ ~ IsValue(t) /\ \E e \in Slices : p = Delimited(e),
         NEW b \in Buffer, NEW i \in Nat, NEW sub, Cut(b, i, Tag(n, Schema[K][n]) \o p)
  PROVE  Round(K, m, b, i, sub).err \in {"eof", "length"}
<1>. DEFINE t == Schema[K][n]
            at == i + Len(Tag(n, t))
            tag == Varint(b, i)
<1>1. b \in Seq(Byte) /\ Tag(n, t) \in Seq(Byte) /\ p \in Seq(Byte)
  BY TagBytes, PayloadBytes, DelimitedBytes DEF Buffer
<1>2. CASE Cut(b, i, Tag(n, t))
  <2>1. tag = Fail("eof")
    <3>1. 8 * n + WireType(t) \in 0 .. Word - 1
      BY TagBytes
    <3>. QED
      BY <1>1, <1>2, <3>1, VarintCut DEF Tag
  <2>2. Round(K, m, b, i, sub) = Fail("eof")
    BY <2>1 DEF Round, Taken, Fail
  <2>. QED
    BY <2>2 DEF Fail
<1>3. CASE Has(b, i, Tag(n, t)) /\ Cut(b, at, p)
  <2>1. /\ tag.err = "none" /\ Signed(tag.val \div 8, IntBits) = n
        /\ tag.val % 8 = WireType(t) /\ tag.next = at
    BY <1>1, <1>3, TagReadsBack
  <2>2. at \in Nat
    BY <1>1
  <2>3. ~ (n <= 0) /\ WireType(t) # 4 /\ FieldNumber(b, i) = n
    BY <2>1, Signs, Widths DEF FieldNumbers, FieldNumber, WireType
  <2>. HIDE DEF at, tag
  <2>4. ReadField(t, m[n], WireType(t), b, at, sub).err \in {"eof", "length"}
    <3>1. CASE t \in ValueTypes /\ \E v \in Values(t) : p = Payload(t, v)
      <4>1. ReadValue(t, b, at).err \in {"eof", "length"}
        BY <1>3, <2>2, <3>1, PayloadCut
      <4>2. IsValue(t) /\ t.kind # "ints"
        BY <3>1 DEF IsValue, WireType, ValueTypes, Bool, Int32, Uint32, Int64, Uint64,
                    Fixed64, Bytes, Scalar
      <4>. QED
        BY <4>1, <4>2 DEF ReadField
    <3>2. CASE ~ IsValue(t) /\ \E e \in Slices : p = Delimited(e)
      <4>1. Body(b, at).err \in {"eof", "length"}
        BY <1>3, <2>2, <3>2, BodyCut
      <4>2. WireType(t) = 2
        BY <3>2 DEF IsValue
      <4>3. ReadDelimited(t, m[n], b, at, sub) = Body(b, at)
        BY <4>1 DEF ReadDelimited, Within
      <4>4. WireType(t) # 0
        BY <4>2
      <4>. DEFINE wt == WireType(t)
      <4>5. wt # 0 /\ wt = WireType(t)
        BY <4>4
      <4>. HIDE DEF wt
      <4>6. ReadField(t, m[n], wt, b, at, sub) = ReadDelimited(t, m[n], b, at, sub)
        BY <3>2, <4>5 DEF ReadField
      <4>. QED
        BY <4>1, <4>3, <4>6 DEF wt
    <3>. QED
      BY <3>1, <3>2
  <2>5. Round(K, m, b, i, sub) = ReadField(t, m[n], WireType(t), b, at, sub)
    BY <2>1, <2>3, <2>4 DEF Round, Taken, tag
  <2>. QED
    BY <2>4, <2>5
<1>4. Cut(b, i, Tag(n, t)) \/ (Has(b, i, Tag(n, t)) /\ Cut(b, at, p))
  BY <1>1, HasParts
<1>. QED
  BY <1>2, <1>3, <1>4

\* Whatever the bytes are, a round of the loop of any message is an error that
\* Unmarshal returns, or takes at least one byte and ends within them, if reading the
\* message within the field, where there is one, does not panic.  So no slice is ever
\* taken out of range, also where a length in the bytes makes an index wrap around,
\* Unmarshal never finds itself beyond the end, and it comes to an end.
THEOREM RoundGoesForward ==
  ASSUME NEW K \in Messages, NEW m, NEW b \in Buffer, NEW i \in 0 .. Len(b) - 1,
         NEW sub, sub.err \in Errors \union {"none"}
  PROVE  \/ Round(K, m, b, i, sub).err \in Errors
         \/ /\ Round(K, m, b, i, sub).err = "none"
            /\ Round(K, m, b, i, sub).next \in i + 1 .. Len(b)
<1>. DEFINE tag == Varint(b, i)
            n == FieldNumber(b, i)
            wt == tag.val % 8
            field == IF n \in DOMAIN Schema[K]
                     THEN ReadField(Schema[K][n], m[n], wt, b, tag.next, sub)
                     ELSE Unknown(b, i)
            read == IF n \in DOMAIN Schema[K] THEN SetField(K, m, n, field.val) ELSE m
            Ends(r) == \/ r.err \in Errors
                       \/ r.err = "none" /\ r.next \in i + 1 .. Len(b)
<1>0. i \in Nat /\ Len(b) \in Nat /\ i \in 0 .. Len(b)
  BY DEF Buffer
<1>1. Ends(tag) /\ Ends(Unknown(b, i))
  BY <1>0, ReadingStays DEF Errors
<1>2. ASSUME tag.err = "none" PROVE Ends(field)
  <2>1. tag.next \in 0 .. Len(b) /\ tag.next \in i + 1 .. Len(b)
    BY <1>0, <1>1, <1>2 DEF Errors
  <2>2. CASE n \in DOMAIN Schema[K]
    <3>1. Schema[K][n].kind \in Kinds
      BY <2>2, SchemaKinds DEF OfKinds
    <3>. DEFINE r == ReadField(Schema[K][n], m[n], wt, b, tag.next, sub)
    <3>2. \/ r.err \in Errors
          \/ r.err = "none" /\ r.next \in tag.next + 1 .. Len(b)
      <4>. DEFINE t == Schema[K][n]
                  next == tag.next
                  old == m[n]
      <4>1. t.kind \in Kinds /\ next \in 0 .. Len(b)
        BY <2>1, <3>1
      <4>. HIDE DEF tag, n, wt, t, next, old
      <4>2. \/ ReadField(t, old, wt, b, next, sub).err \in Errors
            \/ /\ ReadField(t, old, wt, b, next, sub).err = "none"
               /\ ReadField(t, old, wt, b, next, sub).next \in next + 1 .. Len(b)
        BY <4>1, ReadFieldStays, Zenon
      <4>. QED
        BY <4>2 DEF t, next, old
    <3>3. tag.next + 1 .. Len(b) \subseteq i + 1 .. Len(b)
      BY <1>0, <2>1
    <3>4. field = r
      BY <2>2
    <3>. HIDE DEF r, field
    <3>. QED
      BY <3>2, <3>3, <3>4
  <2>3. CASE n \notin DOMAIN Schema[K]
    BY <1>1, <2>3
  <2>. QED
    BY <2>2, <2>3
<1>3. Round(K, m, b, i, sub) = IF tag.err # "none" THEN tag
                               ELSE IF wt = 4 \/ n <= 0 THEN Fail("tag")
                               ELSE IF field.err # "none" THEN field
                               ELSE Good(read, field.next)
  BY DEF Round, Taken
<1>. HIDE DEF tag, n, wt, field, read
<1>4. Fail("tag").err \in Errors
  BY DEF Fail, Errors
<1>5. Good(read, field.next).err = "none" /\ Good(read, field.next).next = field.next
  BY DEF Good
<1>6. CASE tag.err # "none"
  BY <1>1, <1>3, <1>6
<1>7. CASE tag.err = "none" /\ (wt = 4 \/ n <= 0)
  BY <1>3, <1>4, <1>7
<1>8. CASE tag.err = "none" /\ ~ (wt = 4 \/ n <= 0)
  <2>1. CASE field.err # "none"
    BY <1>2, <1>3, <1>8, <2>1
  <2>2. CASE field.err = "none"
    <3>1. field.next \in i + 1 .. Len(b)
      BY <1>2, <1>8, <2>2 DEF Errors
    <3>2. Round(K, m, b, i, sub) = Good(read, field.next)
      BY <1>3, <1>8, <2>2
    <3>. QED
      BY <1>5, <3>1, <3>2
  <2>. QED
    BY <2>1, <2>2
<1>. QED
  BY <1>6, <1>7, <1>8
=============================================================================

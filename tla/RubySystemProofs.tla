-------------------------- MODULE RubySystemProofs --------------------------
(***************************************************************************)
(* The controllers of a Ruby system are numbered without gaps, and every   *)
(* cache line has one home: for any number of controllers of any protocol, *)
(* any memories and whichever bits are interleaved or hashed, either gem5  *)
(* refuses the ranges or they divide all addresses.  Of memories of whole  *)
(* multiples of what is interleaved all controllers have equal parts, and  *)
(* caches that are banked with them use all of their sets.                 *)
(***************************************************************************)
EXTENDS RubySystem, FiniteSetTheorems, SequenceTheorems, WellFoundedInduction, TLAPS

(* A number that is the least of its kind. *)
LEMMA LeastNumber ==
  ASSUME NEW T, T \subseteq Nat, T # {}
  PROVE  \E n \in T : \A m \in T : n <= m
<1>1. PICK n \in T : \A m \in T : ~(<<m, n>> \in OpToRel(<, Nat))
  BY NatLessThanWellFounded, WFMin
<1>2. ASSUME NEW m \in T PROVE n <= m
  <2>1. m \in Nat /\ n \in Nat
    BY <1>2
  <2>2. ASSUME m < n PROVE FALSE
    <3>1. <<m, n>> \in OpToRel(<, Nat)
      BY <2>1, <2>2 DEF OpToRel
    <3> QED BY <1>1, <1>2, <3>1
  <2> QED BY <2>1, <2>2
<1> QED BY <1>1, <1>2

LEMMA Quotient ==
  ASSUME NEW a \in Nat, NEW d \in Nat \ {0}
  PROVE  /\ a \div d \in Nat /\ a % d \in 0 .. d - 1
         /\ a = d * (a \div d) + (a % d)
  OBVIOUS

(* A quotient is known from a multiple and a remainder. *)
LEMMA QuotientIs ==
  ASSUME NEW q \in Nat, NEW d \in Nat \ {0}, NEW r \in 0 .. d - 1
  PROVE  (d * q + r) \div d = q
  OBVIOUS
-----------------------------------------------------------------------------
(* Powers of two. *)

(* f doubles up to n. *)
Doubles(f, n) == /\ f \in [0 .. n -> Nat \ {0}] /\ f[0] = 1
                 /\ \A i \in 1 .. n : f[i] = 2 * f[i - 1]

LEMMA DoublesAgree ==
  ASSUME NEW n \in Nat, NEW m \in Nat, NEW f, NEW g, Doubles(f, n), Doubles(g, m),
         NEW i \in Nat, i <= n, i <= m
  PROVE  f[i] = g[i]
<1> DEFINE Bad == {k \in Nat : k <= n /\ k <= m /\ f[k] # g[k]}
<1>1. Bad = {}
  <2> SUFFICES ASSUME Bad # {} PROVE FALSE
    OBVIOUS
  <2>1. PICK k \in Bad : \A j \in Bad : k <= j
    <3>1. Bad \subseteq Nat
      OBVIOUS
    <3> HIDE DEF Bad
    <3> QED BY <3>1, LeastNumber
  <2>2. k \in Nat /\ k <= n /\ k <= m /\ f[k] # g[k]
    OBVIOUS
  <2>3. k # 0
    BY <2>2 DEF Doubles
  <2>4. k - 1 \in Nat /\ k \in 1 .. n /\ k \in 1 .. m /\ k - 1 \notin Bad
    BY <2>1, <2>2, <2>3
  <2>5. f[k] = 2 * f[k - 1] /\ g[k] = 2 * g[k - 1] /\ f[k - 1] = g[k - 1]
    BY <2>2, <2>4 DEF Doubles
  <2> QED BY <2>2, <2>5
<1> QED BY <1>1

LEMMA DoublesExist == \A n \in Nat : \E f : Doubles(f, n)
<1> DEFINE Bad == {n \in Nat : ~\E f : Doubles(f, n)}
<1>1. Bad = {}
  <2> SUFFICES ASSUME Bad # {} PROVE FALSE
    OBVIOUS
  <2>1. PICK n \in Bad : \A m \in Bad : n <= m
    <3>1. Bad \subseteq Nat
      OBVIOUS
    <3> HIDE DEF Bad
    <3> QED BY <3>1, LeastNumber
  <2>2. n \in Nat /\ ~\E f : Doubles(f, n)
    OBVIOUS
  <2>3. CASE n = 0
    <3> DEFINE f == [i \in 0 .. 0 |-> 1]
    <3>1. Doubles(f, 0)
      BY DEF Doubles
    <3> QED BY <2>2, <2>3, <3>1
  <2>4. CASE n # 0
    <3>1. n - 1 \in Nat /\ n - 1 \notin Bad
      BY <2>1, <2>2, <2>4
    <3>2. PICK f : Doubles(f, n - 1)
      BY <3>1
    <3> DEFINE g == [i \in 0 .. n |-> IF i = n THEN 2 * f[n - 1] ELSE f[i]]
    <3>3. f \in [0 .. n - 1 -> Nat \ {0}] /\ f[0] = 1 /\ \A i \in 1 .. n - 1 : f[i] = 2 * f[i - 1]
      BY <3>2 DEF Doubles
    <3>4. g \in [0 .. n -> Nat \ {0}]
      BY <2>2, <3>1, <3>3
    <3>5. g[0] = 1 /\ \A i \in 1 .. n : g[i] = 2 * g[i - 1]
      BY <2>2, <2>4, <3>1, <3>3
    <3>6. Doubles(g, n)
      BY <3>4, <3>5 DEF Doubles
    <3> QED BY <2>2, <3>6
  <2> QED BY <2>3, <2>4
<1> QED BY <1>1

LEMMA Powers ==
  /\ pow2[0] = 1
  /\ \A n \in Nat : pow2[n] \in Nat \ {0} /\ pow2[n + 1] = 2 * pow2[n]
<1> DEFINE Upto(n) == CHOOSE f : Doubles(f, n)
           p == [n \in Nat |-> Upto(n)[n]]
           Is(g) == g = [n \in Nat |-> IF n = 0 THEN 1 ELSE 2 * g[n - 1]]
<1>1. \A n \in Nat : Doubles(Upto(n), n)
  BY DoublesExist
<1> HIDE DEF Upto
<1>2. \A n \in Nat : p[n] = IF n = 0 THEN 1 ELSE 2 * p[n - 1]
  <2> SUFFICES ASSUME NEW n \in Nat PROVE p[n] = IF n = 0 THEN 1 ELSE 2 * p[n - 1]
    OBVIOUS
  <2>1. CASE n = 0
    BY <1>1, <2>1 DEF Doubles
  <2>2. CASE n # 0
    <3>1. n - 1 \in Nat /\ n \in 1 .. n
      BY <2>2
    <3>2. Upto(n)[n] = 2 * Upto(n)[n - 1]
      BY <1>1, <3>1 DEF Doubles
    <3>3. Upto(n)[n - 1] = Upto(n - 1)[n - 1]
      BY <1>1, <3>1, DoublesAgree
    <3> QED BY <2>2, <3>1, <3>2, <3>3
  <2> QED BY <2>1, <2>2
<1>3. Is(p)
  <2> HIDE DEF p
  <2>1. p = [n \in Nat |-> p[n]]
    BY DEF p
  <2> QED BY <1>2, <2>1
<1>4. pow2 = CHOOSE g : Is(g)
  BY DEF pow2
<1>5. Is(pow2)
  <2> HIDE DEF Is
  <2> QED BY <1>3, <1>4
<1>6. \A n \in Nat : pow2[n] = IF n = 0 THEN 1 ELSE 2 * pow2[n - 1]
  BY <1>5
<1>7. \A n \in Nat : pow2[n] \in Nat \ {0}
  <2> DEFINE Bad == {n \in Nat : pow2[n] \notin Nat \ {0}}
  <2> SUFFICES ASSUME Bad # {} PROVE FALSE
    OBVIOUS
  <2>1. PICK n \in Bad : \A m \in Bad : n <= m
    <3>1. Bad \subseteq Nat
      OBVIOUS
    <3> HIDE DEF Bad
    <3> QED BY <3>1, LeastNumber
  <2>2. n \in Nat /\ pow2[n] \notin Nat \ {0}
    OBVIOUS
  <2>3. n # 0
    BY <1>6, <2>2
  <2>4. n - 1 \in Nat /\ n - 1 \notin Bad
    BY <2>1, <2>2, <2>3
  <2>5. pow2[n - 1] \in Nat \ {0} /\ pow2[n] = 2 * pow2[n - 1]
    BY <1>6, <2>2, <2>3, <2>4
  <2> QED BY <2>2, <2>5
<1>8. \A n \in Nat : pow2[n + 1] = 2 * pow2[n]
  <2> SUFFICES ASSUME NEW n \in Nat PROVE pow2[n + 1] = 2 * pow2[n]
    OBVIOUS
  <2>1. n + 1 \in Nat /\ n + 1 # 0 /\ (n + 1) - 1 = n
    OBVIOUS
  <2> QED BY <1>6, <2>1
<1> QED BY <1>6, <1>7, <1>8

(* int(math.log(n, 2)) *)
LEMMA Log2Is ==
  ASSUME NEW n \in Nat \ {0}
  PROVE  Log2(n) \in Nat /\ pow2[Log2(n)] <= n /\ n < pow2[Log2(n) + 1]
<1>1. \A k \in Nat : k < pow2[k]
  <2> DEFINE Bad == {k \in Nat : ~(k < pow2[k])}
  <2> SUFFICES ASSUME Bad # {} PROVE FALSE
    OBVIOUS
  <2>1. PICK k \in Bad : \A m \in Bad : k <= m
    <3>1. Bad \subseteq Nat
      OBVIOUS
    <3> HIDE DEF Bad
    <3> QED BY <3>1, LeastNumber
  <2>2. k \in Nat /\ ~(k < pow2[k])
    OBVIOUS
  <2>3. k # 0
    BY <2>2, Powers
  <2>4. k - 1 \in Nat /\ k - 1 \notin Bad /\ (k - 1) + 1 = k
    BY <2>1, <2>2, <2>3
  <2>5. k - 1 < pow2[k - 1] /\ pow2[k] = 2 * pow2[k - 1] /\ pow2[k - 1] \in Nat
    BY <2>4, Powers
  <2> DEFINE q == pow2[k - 1]
  <2>6. q \in Nat /\ k - 1 < q /\ pow2[k] = 2 * q
    BY <2>5
  <2> HIDE DEF q
  <2>7. k \in Nat /\ k # 0 /\ ~(k < 2 * q)
    BY <2>2, <2>3, <2>6
  <2> QED BY <2>6, <2>7
<1> DEFINE Over == {k \in Nat : n < pow2[k + 1]}
<1>2. n \in Over
  <2>1. n + 1 \in Nat /\ n + 1 < pow2[n + 1]
    BY <1>1
  <2> QED BY <2>1, Powers
<1>3. PICK k \in Over : \A m \in Over : k <= m
  <2>1. Over \subseteq Nat
    OBVIOUS
  <2> HIDE DEF Over
  <2> QED BY <1>2, <2>1, LeastNumber
<1>4. k \in Nat /\ n < pow2[k + 1]
  OBVIOUS
<1>5. pow2[k] <= n
  <2>1. CASE k = 0
    BY <2>1, Powers
  <2>2. CASE k # 0
    <3>1. k - 1 \in Nat /\ k - 1 \notin Over /\ (k - 1) + 1 = k
      BY <1>3, <1>4, <2>2
    <3>2. ~(n < pow2[k]) /\ pow2[k] \in Nat
      BY <1>4, <3>1, Powers
    <3> QED BY <3>2
  <2> QED BY <2>1, <2>2
<1>6. k \in 0 .. n
  <2>1. k < pow2[k] /\ pow2[k] \in Nat
    BY <1>1, <1>4, Powers
  <2> QED BY <1>4, <1>5, <2>1
<1> DEFINE l == CHOOSE j \in 0 .. n : pow2[j] <= n /\ n < pow2[j + 1]
<1>7. l \in 0 .. n /\ pow2[l] <= n /\ n < pow2[l + 1]
  BY <1>4, <1>5, <1>6
<1> HIDE DEF l
<1> QED BY <1>7 DEF l, Log2
-----------------------------------------------------------------------------
(* A number is known from its bits.                                        *)

LEMMA LowestBit == \A m \in Nat : Bit(m, 0) = m % 2
  BY Powers DEF Bit

LEMMA OtherBits ==
  ASSUME NEW m \in Nat, NEW i \in Nat
  PROVE  Bit(m, i + 1) = Bit(m \div 2, i)
<1> DEFINE q == pow2[i]
           h == m \div 2
           k == h \div q
           r == h % q
           e == m % 2
<1>1. q \in Nat \ {0} /\ pow2[i + 1] = 2 * q
  BY Powers
<1>2. h \in Nat /\ e \in 0 .. 1 /\ m = 2 * h + e
  OBVIOUS
<1> HIDE DEF q, h, e
<1>3. k \in Nat /\ r \in 0 .. q - 1 /\ h = q * k + r
  BY <1>1, <1>2, Quotient
<1> HIDE DEF k, r
<1>4. m = (2 * q) * k + (2 * r + e)
  <2>1. 2 * (q * k) = (2 * q) * k
    BY <1>1, <1>3
  <2> QED BY <1>1, <1>2, <1>3, <2>1
<1>5. 2 * q \in Nat \ {0} /\ 2 * r + e \in 0 .. (2 * q) - 1
  BY <1>1, <1>2, <1>3
<1>6. m \div (2 * q) = k
  <2> DEFINE d == 2 * q
             s == 2 * r + e
  <2>1. d \in Nat \ {0} /\ s \in 0 .. d - 1 /\ m = d * k + s
    BY <1>4, <1>5
  <2> HIDE DEF d, s
  <2>2. m \div d = k
    BY <1>3, <2>1, QuotientIs
  <2> QED BY <2>2 DEF d
<1>7. m \div pow2[i + 1] = (m \div 2) \div pow2[i]
  BY <1>1, <1>6 DEF k, h, q
<1> QED BY <1>7 DEF Bit

(* The n lowest bits of m are b. *)
HasBits(m, b, n) == \A i \in 1 .. n : Bit(m, i - 1) = b[i]

OneNumber(b, n) ==
  \E m \in 0 .. pow2[n] - 1 :
    HasBits(m, b, n) /\ \A k \in 0 .. pow2[n] - 1 : HasBits(k, b, n) => k = m

LEMMA BitsShift ==
  ASSUME NEW n \in Nat, NEW b \in [1 .. n + 1 -> 0 .. 1], NEW m \in Nat
  PROVE  HasBits(m, b, n + 1) <=> m % 2 = b[1] /\ HasBits(m \div 2, [i \in 1 .. n |-> b[i + 1]], n)
<1> DEFINE c == [i \in 1 .. n |-> b[i + 1]]
<1>1. \A i \in 1 .. n : c[i] = b[i + 1] /\ Bit(m, i) = Bit(m \div 2, i - 1)
  <2> SUFFICES ASSUME NEW i \in 1 .. n PROVE c[i] = b[i + 1] /\ Bit(m, i) = Bit(m \div 2, i - 1)
    OBVIOUS
  <2>1. i - 1 \in Nat /\ (i - 1) + 1 = i
    OBVIOUS
  <2> QED BY <2>1, OtherBits
<1> HIDE DEF c
<1>2. ASSUME HasBits(m, b, n + 1) PROVE m % 2 = b[1] /\ HasBits(m \div 2, c, n)
  <2>1. m % 2 = b[1]
    BY <1>2, LowestBit DEF HasBits
  <2>2. ASSUME NEW i \in 1 .. n PROVE Bit(m \div 2, i - 1) = c[i]
    <3>1. i + 1 \in 1 .. n + 1 /\ (i + 1) - 1 = i
      OBVIOUS
    <3> QED BY <1>1, <1>2, <3>1 DEF HasBits
  <2> QED BY <2>1, <2>2 DEF HasBits
<1>3. ASSUME m % 2 = b[1], HasBits(m \div 2, c, n) PROVE HasBits(m, b, n + 1)
  <2> SUFFICES ASSUME NEW i \in 1 .. n + 1 PROVE Bit(m, i - 1) = b[i]
    BY DEF HasBits
  <2>1. CASE i = 1
    BY <1>3, <2>1, LowestBit
  <2>2. CASE i # 1
    <3>1. i - 1 \in 1 .. n /\ (i - 1) + 1 = i
      BY <2>2
    <3> QED BY <1>1, <1>3, <3>1 DEF HasBits
  <2> QED BY <2>1, <2>2
<1> QED BY <1>2, <1>3 DEF c

LEMMA BitsOfOneNumber == \A n \in Nat : \A b \in [1 .. n -> 0 .. 1] : OneNumber(b, n)
<1> DEFINE Good(n) == \A b \in [1 .. n -> 0 .. 1] : OneNumber(b, n)
           Bad == {n \in Nat : ~Good(n)}
<1>1. Good(0)
  BY Powers DEF OneNumber, HasBits
<1>2. ASSUME NEW n \in Nat, Good(n) PROVE Good(n + 1)
  <2> SUFFICES ASSUME NEW b \in [1 .. n + 1 -> 0 .. 1] PROVE OneNumber(b, n + 1)
    OBVIOUS
  <2> DEFINE c == [i \in 1 .. n |-> b[i + 1]]
             N == pow2[n]
  <2>1. N \in Nat \ {0} /\ pow2[n + 1] = 2 * N /\ b[1] \in 0 .. 1 /\ c \in [1 .. n -> 0 .. 1]
    <3>1. N \in Nat \ {0} /\ pow2[n + 1] = 2 * N
      BY Powers
    <3>2. \A i \in 1 .. n : i + 1 \in 1 .. n + 1
      OBVIOUS
    <3>3. b[1] \in 0 .. 1 /\ \A i \in 1 .. n : b[i + 1] \in 0 .. 1
      BY <3>2
    <3> HIDE DEF N
    <3> QED BY <3>1, <3>3
  <2>2. OneNumber(c, n)
    BY <1>2, <2>1
  <2> HIDE DEF c
  <2>3. PICK m \in 0 .. N - 1 : HasBits(m, c, n) /\ \A k \in 0 .. N - 1 : HasBits(k, c, n) => k = m
    BY <2>2 DEF OneNumber
  <2>4. \A k \in Nat : HasBits(k, b, n + 1) <=> k % 2 = b[1] /\ HasBits(k \div 2, c, n)
    BY BitsShift DEF c
  <2> HIDE DEF N
  <2> DEFINE x == 2 * m + b[1]
  <2>5. x \in 0 .. 2 * N - 1 /\ x \in Nat /\ x % 2 = b[1] /\ x \div 2 = m
    <3> DEFINE e == b[1]
    <3>1. e \in 0 .. 1
      BY <2>1
    <3> HIDE DEF e
    <3>2. (2 * m + e) % 2 = e /\ (2 * m + e) \div 2 = m /\ 2 * m + e \in 0 .. 2 * N - 1
      BY <2>1, <3>1
    <3> QED BY <3>2, <2>1 DEF e
  <2>6. HasBits(x, b, n + 1)
    BY <2>3, <2>4, <2>5
  <2>7. ASSUME NEW k \in 0 .. 2 * N - 1, HasBits(k, b, n + 1) PROVE k = x
    <3>1. k \in Nat /\ k \div 2 \in 0 .. N - 1 /\ k = 2 * (k \div 2) + (k % 2)
      BY <2>1
    <3>2. k % 2 = b[1] /\ HasBits(k \div 2, c, n)
      BY <2>4, <2>7, <3>1
    <3>3. k \div 2 = m
      BY <2>3, <3>1, <3>2
    <3> QED BY <3>1, <3>2, <3>3
  <2> HIDE DEF x
  <2> QED BY <2>1, <2>5, <2>6, <2>7 DEF OneNumber
<1>3. Bad = {}
  <2> SUFFICES ASSUME Bad # {} PROVE FALSE
    OBVIOUS
  <2> HIDE DEF Good
  <2>1. PICK n \in Bad : \A m \in Bad : n <= m
    <3>1. Bad \subseteq Nat
      OBVIOUS
    <3> HIDE DEF Bad
    <3> QED BY <3>1, LeastNumber
  <2>2. n \in Nat /\ ~Good(n) /\ n # 0
    BY <1>1
  <2>3. n - 1 \in Nat /\ n - 1 \notin Bad /\ (n - 1) + 1 = n
    BY <2>1, <2>2
  <2>4. Good(n - 1)
    BY <2>3
  <2> QED BY <1>2, <2>2, <2>3, <2>4
<1> HIDE DEF Good
<1>4. \A n \in Nat : Good(n)
  BY <1>3
<1> QED BY <1>4 DEF Good
-----------------------------------------------------------------------------
(* Interleaving.                                                           *)

Parity(a, mask) == Cardinality({b \in mask : Bit(a, b) = 1}) % 2

LEMMA ParityOfMask ==
  ASSUME NEW high, NEW xorHigh, NEW bits \in Nat, NEW a, NEW i \in 1 .. bits
  PROVE  Parity(a, Masks(high, xorHigh, bits)[i]) \in 0 .. 1
<1> DEFINE mask == {high - bits + i} \cup (IF xorHigh = 0 THEN {} ELSE {xorHigh - bits + i})
<1>1. Masks(high, xorHigh, bits)[i] = mask
  BY DEF Masks
<1>2. IsFiniteSet(mask)
  BY FS_Singleton, FS_EmptySet, FS_Union
<1> HIDE DEF mask
<1> DEFINE ones == {b \in mask : Bit(a, b) = 1}
<1>3. Cardinality(ones) \in Nat
  BY <1>2, FS_Subset, FS_CardinalityType
<1> HIDE DEF ones
<1>4. Cardinality(ones) % 2 \in 0 .. 1
  BY <1>3
<1> QED BY <1>1, <1>4 DEF Parity, ones

InRange(r, a) == r.start <= a /\ a < r.start + r.size

LEMMA CoversIs ==
  ASSUME NEW r, NEW high, NEW xorHigh, NEW bits \in Nat, NEW match, NEW a
  PROVE  Covers(AddrRange(r, high, xorHigh, bits, match), a)
           <=> /\ InRange(r, a)
               /\ HasBits(match, [i \in 1 .. bits |-> Parity(a, Masks(high, xorHigh, bits)[i])], bits)
<1> DEFINE R == AddrRange(r, high, xorHigh, bits, match)
           M == Masks(high, xorHigh, bits)
<1>1. R.start = r.start /\ R.size = r.size /\ R.masks = M /\ R.match = match /\ DOMAIN M = 1 .. bits
  BY DEF AddrRange, Masks
<1> HIDE DEF R, M
<1>2. Covers(R, a) <=> InRange(r, a) /\ \A i \in 1 .. bits : Parity(a, M[i]) = Bit(match, i - 1)
  BY <1>1 DEF Covers, InRange, Parity
<1>3. HasBits(match, [i \in 1 .. bits |-> Parity(a, M[i])], bits)
        <=> \A i \in 1 .. bits : Parity(a, M[i]) = Bit(match, i - 1)
  BY DEF HasBits
<1> QED BY <1>2, <1>3 DEF R, M

(* n ways, whose last one gem5 accepts, have one for every address.        *)
Owns(R, high, xorHigh, bits, i, a) ==
  \E r \in R : Covers(AddrRange(r, high, xorHigh, bits, i - 1), a)

OneOwner(R, high, xorHigh, n, a) ==
  \E i \in 1 .. n : \A j \in 1 .. n : Owns(R, high, xorHigh, Log2(n), j, a) <=> j = i

Divisible(n, R, a) == n \in Nat \ {0} /\ n - 1 < pow2[Log2(n)] /\ \E r \in R : InRange(r, a)

LEMMA WaysDivide ==
  ASSUME NEW n, NEW R, NEW a, Divisible(n, R, a), NEW high, NEW xorHigh
  PROVE  OneOwner(R, high, xorHigh, n, a)
<1>0. n \in Nat \ {0} /\ n - 1 < pow2[Log2(n)]
  BY DEF Divisible
<1>r. PICK r \in R : InRange(r, a)
  BY DEF Divisible
<1> DEFINE bits == Log2(n)
           b == [i \in 1 .. bits |-> Parity(a, Masks(high, xorHigh, bits)[i])]
<1>1. bits \in Nat /\ pow2[bits] = n
  <2>1. bits \in Nat /\ pow2[bits] <= n
    BY <1>0, Log2Is
  <2>2. pow2[bits] \in Nat
    BY <2>1, Powers
  <2> QED BY <1>0, <2>1, <2>2
<1> HIDE DEF bits
<1>2. b \in [1 .. bits -> 0 .. 1]
  BY <1>1, ParityOfMask
<1>3. \A q \in R : \A k : Covers(AddrRange(q, high, xorHigh, bits, k), a) <=> InRange(q, a) /\ HasBits(k, b, bits)
  BY <1>1, CoversIs
<1> HIDE DEF b
<1>4. PICK m \in 0 .. n - 1 : HasBits(m, b, bits) /\ \A k \in 0 .. n - 1 : HasBits(k, b, bits) => k = m
  BY <1>1, <1>2, BitsOfOneNumber DEF OneNumber
<1>5. m + 1 \in 1 .. n
  BY <1>0
<1>6. \A j \in 1 .. n : Owns(R, high, xorHigh, bits, j, a) <=> j = m + 1
  <2> SUFFICES ASSUME NEW j \in 1 .. n PROVE Owns(R, high, xorHigh, bits, j, a) <=> j = m + 1
    OBVIOUS
  <2>1. j - 1 \in 0 .. n - 1 /\ (j = m + 1 <=> j - 1 = m)
    BY <1>0
  <2>2. Owns(R, high, xorHigh, bits, j, a) <=> HasBits(j - 1, b, bits)
    BY <1>r, <1>3 DEF Owns
  <2> QED BY <1>4, <2>1, <2>2
<1> QED BY <1>5, <1>6 DEF bits, OneOwner

AllAccepted(family) == \A i \in DOMAIN family : \A r \in family[i] : Accepted(r)

LEMMA AcceptedIs ==
  ASSUME NEW r, NEW high, NEW xorHigh, NEW bits \in Nat, NEW match,
         Accepted(AddrRange(r, high, xorHigh, bits, match))
  PROVE  match < pow2[bits]
<1>1. Len(Masks(high, xorHigh, bits)) = bits
  BY DEF Masks
<1> QED BY <1>1 DEF Accepted, AddrRange

LEMMA OneIsEnough ==
  ASSUME NEW family, NEW a, NEW i, HomesOf(family, a) = {i}
  PROVE  Cardinality(HomesOf(family, a)) = 1
  BY FS_Singleton

LEMMA LinesAreInRanges ==
  ASSUME NEW c \in Configs, NEW a \in Lines(c)
  PROVE  a \in Nat /\ \E r \in WithBoot(c) : InRange(r, a)
<1>1. PICK r \in WithBoot(c) : a \in LinesOf(c, r)
  BY DEF Lines
<1>2. r.start \in Nat /\ r.size \in Nat
  BY ConfigAssumption DEF WithBoot
<1>3. a \in r.start .. r.start + r.size - 1
  BY <1>1 DEF LinesOf
<1> QED BY <1>2, <1>3 DEF InRange

(* Banks of the L2 caches and home nodes. *)
LEMMA BanksDivide ==
  ASSUME NEW c \in Configs, NEW n \in Nat \ {0}, AllAccepted(BankRanges(c, n)), NEW a \in Lines(c)
  PROVE  Cardinality(HomesOf(BankRanges(c, n), a)) = 1
<1> DEFINE high == c.block + Log2(n) - 1
           B == BankRanges(c, n)
<1>1. PICK r \in WithBoot(c) : InRange(r, a)
  BY LinesAreInRanges
<1>2. DOMAIN B = 1 .. n /\ \A i \in 1 .. n : B[i] = {AddrRange(q, high, 0, Log2(n), i - 1) : q \in WithBoot(c)}
  BY DEF BankRanges
<1> HIDE DEF high, B
<1>3. n - 1 < pow2[Log2(n)]
  <2>1. n \in 1 .. n /\ AddrRange(r, high, 0, Log2(n), n - 1) \in B[n]
    BY <1>2
  <2>2. Accepted(AddrRange(r, high, 0, Log2(n), n - 1))
    BY <1>2, <2>1 DEF AllAccepted, B
  <2> QED BY <2>2, AcceptedIs, Log2Is
<1>4. PICK i \in 1 .. n : \A j \in 1 .. n : Owns(WithBoot(c), high, 0, Log2(n), j, a) <=> j = i
  <2>1. Divisible(n, WithBoot(c), a)
    BY <1>1, <1>3 DEF Divisible
  <2>2. OneOwner(WithBoot(c), high, 0, n, a)
    BY <2>1, WaysDivide, Zenon
  <2> QED BY <2>2 DEF OneOwner
<1>5. HomesOf(B, a) = {i}
  <2>1. \A j \in 1 .. n : (\E q \in B[j] : Covers(q, a)) <=> Owns(WithBoot(c), high, 0, Log2(n), j, a)
    BY <1>2 DEF Owns
  <2> QED BY <1>2, <1>4, <2>1 DEF HomesOf
<1> QED BY <1>5, OneIsEnough DEF B

(* Directories, and the one of the boot memory. *)
DirHigh(c) ==
  LET bits == Log2(c.dirs)
  IN (IF c.buffer.DRAM # 0 THEN c.buffer.DRAM
      ELSE IF c.numa_high_bit # 0 THEN c.numa_high_bit - bits + 1 ELSE c.block) + bits - 1
DirXor(c) == IF c.xor_low_bit # 0 THEN c.xor_low_bit + Log2(c.dirs) - 1 ELSE 0

LEMMA DirectoriesAre ==
  ASSUME NEW c, c.dirs \in Nat
  PROVE  LET D == DirectoryRanges(c)
         IN /\ DOMAIN D = IF c.boot THEN 1 .. c.dirs + 1 ELSE 1 .. c.dirs
            /\ \A i \in 1 .. c.dirs :
                 D[i] = {AddrRange(q, DirHigh(c), DirXor(c), Log2(c.dirs), i - 1) : q \in RangesOf(c)}
            /\ c.boot => D[c.dirs + 1] = {Whole(c.bootRange)}
<1> DEFINE n == c.dirs
           Part(i) == {AddrRange(q, DirHigh(c), DirXor(c), Log2(n), i - 1) : q \in RangesOf(c)}
           S == [i \in 1 .. n |-> Part(i)]
           T == IF c.boot THEN <<{Whole(c.bootRange)}>> ELSE <<>>
           X == {Part(i) : i \in 1 .. n} \cup {{Whole(c.bootRange)}}
<1>1. DirectoryRanges(c) = S \o T
  BY DEF DirectoryRanges, CreateMemIntf, DirHigh, DirXor
<1> HIDE DEF Part
<1>2. S \in Seq(X) /\ T \in Seq(X) /\ Len(S) = n
  <2>1. n \in Nat /\ \A i \in 1 .. n : Part(i) \in X
    OBVIOUS
  <2>2. {Whole(c.bootRange)} \in X
    OBVIOUS
  <2> HIDE DEF X, n
  <2>3. S \in Seq(X) /\ Len(S) = n
    BY <2>1
  <2>4. T \in Seq(X)
    BY <2>2
  <2> QED BY <2>3, <2>4
<1>3. Len(T) = (IF c.boot THEN 1 ELSE 0) /\ (c.boot => T[1] = {Whole(c.bootRange)})
  OBVIOUS
<1>4. \A i \in 1 .. n : S[i] = Part(i)
  OBVIOUS
<1> HIDE DEF S, T, X, n
<1>5. DOMAIN (S \o T) = 1 .. n + Len(T) /\ \A i \in 1 .. n + Len(T) : (S \o T)[i] = IF i <= n THEN S[i] ELSE T[i - n]
  BY <1>2
<1>6. n \in Nat
  BY DEF n
<1>7. \A i \in 1 .. n : (S \o T)[i] = Part(i)
  BY <1>3, <1>4, <1>5, <1>6
<1>8. c.boot => (S \o T)[n + 1] = {Whole(c.bootRange)}
  BY <1>3, <1>5, <1>6
<1>9. DOMAIN (S \o T) = IF c.boot THEN 1 .. n + 1 ELSE 1 .. n
  BY <1>3, <1>5, <1>6
<1> QED BY <1>1, <1>7, <1>8, <1>9 DEF n, Part

LEMMA DirectoriesDivide ==
  ASSUME NEW c \in Configs, c.dirs # 0, AllAccepted(DirectoryRanges(c)), NEW a \in Lines(c)
  PROVE  Cardinality(HomesOf(DirectoryRanges(c), a)) = 1
<1> DEFINE n == c.dirs
           D == DirectoryRanges(c)
           high == DirHigh(c)
           xorHigh == DirXor(c)
<1>1. n \in Nat \ {0}
  BY ConfigAssumption
<1>2. /\ DOMAIN D = IF c.boot THEN 1 .. n + 1 ELSE 1 .. n
      /\ \A i \in 1 .. n : D[i] = {AddrRange(q, high, xorHigh, Log2(n), i - 1) : q \in RangesOf(c)}
      /\ c.boot => D[n + 1] = {Whole(c.bootRange)}
  BY <1>1, DirectoriesAre
<1>3. PICK r \in WithBoot(c) : a \in Nat /\ InRange(r, a)
  BY LinesAreInRanges
<1> HIDE DEF n, D, high, xorHigh
<1>4. \A j \in 1 .. n : (\E q \in D[j] : Covers(q, a)) <=> Owns(RangesOf(c), high, xorHigh, Log2(n), j, a)
  BY <1>2 DEF Owns
<1>5. Covers(Whole(c.bootRange), a) <=> InRange(c.bootRange, a)
  <2>1. Covers(Whole(c.bootRange), a) <=>
          InRange(c.bootRange, a) /\ HasBits(0, [i \in 1 .. 0 |-> Parity(a, Masks(0, 0, 0)[i])], 0)
    BY CoversIs DEF Whole
  <2> QED BY <2>1 DEF HasBits
<1>6. c.boot => \A q \in RangesOf(c) : InRange(q, a) => ~InRange(c.bootRange, a)
  <2> SUFFICES ASSUME c.boot, NEW q \in RangesOf(c), InRange(q, a), InRange(c.bootRange, a) PROVE FALSE
    OBVIOUS
  <2>1. /\ q.start \in Nat /\ q.size \in Nat /\ c.bootRange.start \in Nat /\ c.bootRange.size \in Nat
        /\ q.start + q.size <= c.bootRange.start \/ c.bootRange.start + c.bootRange.size <= q.start
    BY ConfigAssumption
  <2> QED BY <1>3, <2>1 DEF InRange
<1>7. CASE r \in RangesOf(c)
  <2>1. n - 1 < pow2[Log2(n)]
    <3>1. n \in DOMAIN D /\ AddrRange(r, high, xorHigh, Log2(n), n - 1) \in D[n]
      BY <1>1, <1>2, <1>7
    <3>2. Accepted(AddrRange(r, high, xorHigh, Log2(n), n - 1))
      BY <3>1 DEF AllAccepted, D
    <3> QED BY <1>1, <3>2, AcceptedIs, Log2Is
  <2>2. PICK i \in 1 .. n : \A j \in 1 .. n : Owns(RangesOf(c), high, xorHigh, Log2(n), j, a) <=> j = i
    <3>1. Divisible(n, RangesOf(c), a)
      BY <1>1, <1>3, <1>7, <2>1 DEF Divisible
    <3> QED BY <3>1, WaysDivide DEF OneOwner
  <2>3. c.boot => ~\E q \in D[n + 1] : Covers(q, a)
    BY <1>2, <1>3, <1>5, <1>6, <1>7
  <2>4. HomesOf(D, a) = {i}
    <3>1. \A j \in DOMAIN D : (\E q \in D[j] : Covers(q, a)) <=> j = i
      <4> SUFFICES ASSUME NEW j \in DOMAIN D PROVE (\E q \in D[j] : Covers(q, a)) <=> j = i
        OBVIOUS
      <4>1. CASE j \in 1 .. n
        BY <1>4, <2>2, <4>1
      <4>2. CASE j \notin 1 .. n
        BY <1>1, <1>2, <2>2, <2>3, <4>2
      <4> QED BY <4>1, <4>2
    <3>2. i \in DOMAIN D
      BY <1>1, <1>2
    <3> QED BY <3>1, <3>2 DEF HomesOf
  <2> QED BY <2>4, OneIsEnough DEF D
<1>8. CASE r \notin RangesOf(c)
  <2>1. c.boot /\ InRange(c.bootRange, a)
    BY <1>3, <1>8 DEF WithBoot
  <2>2. \A j \in 1 .. n : ~\E q \in D[j] : Covers(q, a)
    <3> SUFFICES ASSUME NEW j \in 1 .. n, NEW q \in RangesOf(c), Covers(AddrRange(q, high, xorHigh, Log2(n), j - 1), a)
                 PROVE  FALSE
      BY <1>2
    <3>1. InRange(q, a)
      BY <1>1, Log2Is, CoversIs
    <3> QED BY <1>6, <2>1, <3>1
  <2>3. HomesOf(D, a) = {n + 1}
    <3>1. DOMAIN D = 1 .. n + 1 /\ D[n + 1] = {Whole(c.bootRange)}
      BY <1>2, <2>1
    <3>2. \A j \in 1 .. n + 1 : (\E q \in D[j] : Covers(q, a)) <=> j = n + 1
      BY <1>1, <1>5, <2>1, <2>2, <3>1
    <3> QED BY <1>1, <3>1, <3>2 DEF HomesOf
  <2> QED BY <2>3, OneIsEnough DEF D
<1> QED BY <1>7, <1>8
-----------------------------------------------------------------------------
(* Lists of controllers: s has every element of S once. *)
Lists(s, S) ==
  /\ s \in Seq(S)
  /\ \A x \in S : \E i \in 1 .. Len(s) : s[i] = x
  /\ \A i, j \in 1 .. Len(s) : s[i] = s[j] => i = j

LEMMA ListsNothing == Lists(<<>>, {})
<1>1. <<>> \in Seq({}) /\ Len(<<>>) = 0
  BY EmptySeq
<1> QED BY <1>1 DEF Lists

LEMMA ListsConcat ==
  ASSUME NEW s, NEW S, NEW t, NEW T, Lists(s, S), Lists(t, T), S \cap T = {}
  PROVE  Lists(s \o t, S \cup T)
<1> DEFINE U == S \cup T
<1>1. s \in Seq(S) /\ t \in Seq(T)
  BY DEF Lists
<1>2. s \in Seq(U) /\ t \in Seq(U)
  BY <1>1, SeqMonotonic
<1>3. Len(s) \in Nat /\ Len(t) \in Nat
  BY <1>2, LenProperties
<1>4. /\ s \o t \in Seq(U) /\ Len(s \o t) = Len(s) + Len(t)
      /\ \A i \in 1 .. Len(s) + Len(t) : (s \o t)[i] = IF i <= Len(s) THEN s[i] ELSE t[i - Len(s)]
  BY <1>2, ConcatProperties
<1>5. /\ \A i \in 1 .. Len(s) : s[i] \in S
      /\ \A i \in 1 .. Len(t) : t[i] \in T
  BY <1>1, ElementOfSeq
<1>6. ASSUME NEW x \in U PROVE \E i \in 1 .. Len(s \o t) : (s \o t)[i] = x
  <2>1. CASE x \in S
    <3>1. PICK i \in 1 .. Len(s) : s[i] = x
      BY <2>1 DEF Lists
    <3> QED BY <1>3, <1>4, <3>1
  <2>2. CASE x \in T
    <3>1. PICK i \in 1 .. Len(t) : t[i] = x
      BY <2>2 DEF Lists
    <3>2. i + Len(s) \in 1 .. Len(s) + Len(t) /\ ~(i + Len(s) <= Len(s)) /\ i + Len(s) - Len(s) = i
      BY <1>3
    <3> QED BY <1>4, <3>1, <3>2
  <2> QED BY <1>6, <2>1, <2>2
<1>7. ASSUME NEW i \in 1 .. Len(s \o t), NEW j \in 1 .. Len(s \o t), (s \o t)[i] = (s \o t)[j]
      PROVE  i = j
  <2>1. /\ \A k, l \in 1 .. Len(s) : s[k] = s[l] => k = l
        /\ \A k, l \in 1 .. Len(t) : t[k] = t[l] => k = l
    BY DEF Lists
  <2>2. CASE i <= Len(s) /\ j <= Len(s)
    BY <1>3, <1>4, <1>7, <2>1, <2>2
  <2>3. CASE ~(i <= Len(s)) /\ ~(j <= Len(s))
    <3>1. i - Len(s) \in 1 .. Len(t) /\ j - Len(s) \in 1 .. Len(t)
      BY <1>3, <1>4, <2>3
    <3>2. t[i - Len(s)] = t[j - Len(s)]
      BY <1>4, <1>7, <2>3
    <3>3. i - Len(s) = j - Len(s)
      BY <2>1, <3>1, <3>2
    <3> QED BY <1>3, <1>4, <3>3
  <2>4. CASE i <= Len(s) /\ ~(j <= Len(s))
    <3>1. j - Len(s) \in 1 .. Len(t) /\ i \in 1 .. Len(s)
      BY <1>3, <1>4, <2>4
    <3>2. s[i] = t[j - Len(s)]
      BY <1>4, <1>7, <2>4
    <3> QED BY <1>5, <3>1, <3>2
  <2>5. CASE ~(i <= Len(s)) /\ j <= Len(s)
    <3>1. i - Len(s) \in 1 .. Len(t) /\ j \in 1 .. Len(s)
      BY <1>3, <1>4, <2>5
    <3>2. t[i - Len(s)] = s[j]
      BY <1>4, <1>7, <2>5
    <3> QED BY <1>5, <3>1, <3>2
  <2> QED BY <2>2, <2>3, <2>4, <2>5
<1> QED BY <1>4, <1>6, <1>7 DEF Lists

(* A list of lists that together have every element of S once. *)
ListsOf(q, S) ==
  /\ q \in Seq(Seq(S))
  /\ \A x \in S : \E i \in 1 .. Len(q) : \E k \in 1 .. Len(q[i]) : q[i][k] = x
  /\ \A i, j \in 1 .. Len(q) : \A k \in 1 .. Len(q[i]) : \A l \in 1 .. Len(q[j]) :
       q[i][k] = q[j][l] => i = j /\ k = l

Flattens(g, q, n) ==
  g = [i \in 1 .. n |-> IF i = 1 THEN q[i] ELSE g[i - 1] \o q[i]]

LEMMA FlattensExist ==
  ASSUME NEW q PROVE \A n \in Nat : \E g : Flattens(g, q, n)
<1> DEFINE Bad == {n \in Nat : ~\E g : Flattens(g, q, n)}
<1> SUFFICES ASSUME Bad # {} PROVE FALSE
  OBVIOUS
<1>1. PICK n \in Bad : \A m \in Bad : n <= m
  <2>1. Bad \subseteq Nat
    OBVIOUS
  <2> HIDE DEF Bad
  <2> QED BY <2>1, LeastNumber
<1>2. n \in Nat /\ ~\E g : Flattens(g, q, n)
  OBVIOUS
<1>3. CASE n = 0
  <2> DEFINE g == [i \in 1 .. 0 |-> q[i]]
  <2>1. Flattens(g, q, 0)
    BY DEF Flattens
  <2> QED BY <1>2, <1>3, <2>1
<1>4. CASE n # 0
  <2>1. n - 1 \in Nat /\ n - 1 \notin Bad
    BY <1>1, <1>2, <1>4
  <2>2. PICK f : Flattens(f, q, n - 1)
    BY <2>1
  <2> DEFINE At(i) == IF i = 1 THEN q[i] ELSE f[i - 1] \o q[i]
             g == [i \in 1 .. n |-> At(i)]
  <2>3. f = [i \in 1 .. n - 1 |-> At(i)]
    BY <2>2 DEF Flattens
  <2> HIDE DEF At
  <2>4. \A i \in 1 .. n - 1 : g[i] = f[i]
    BY <1>2, <2>3
  <2> USE DEF At
  <2>5. \A i \in 1 .. n : At(i) = IF i = 1 THEN q[i] ELSE g[i - 1] \o q[i]
    <3> SUFFICES ASSUME NEW i \in 1 .. n, i # 1 PROVE g[i - 1] = f[i - 1]
      OBVIOUS
    <3>1. i - 1 \in 1 .. n - 1
      BY <1>2
    <3> QED BY <2>4, <3>1
  <2> HIDE DEF At
  <2>6. g = [i \in 1 .. n |-> IF i = 1 THEN q[i] ELSE g[i - 1] \o q[i]]
    BY <2>5
  <2>7. Flattens(g, q, n)
    BY <2>6 DEF Flattens
  <2> QED BY <1>2, <2>7
<1> QED BY <1>2, <1>3, <1>4

LEMMA FlattenIs ==
  ASSUME NEW q, NEW S, q \in Seq(Seq(S)), q # <<>>
  PROVE  \E g : /\ Flattens(g, q, Len(q)) /\ FlattenSeq(q) = g[Len(q)]
<1>1. Len(q) \in Nat \ {0}
  BY EmptySeq
<1> DEFINE G == CHOOSE g : g = [i \in 1 .. Len(q) |-> IF i = 1 THEN q[i] ELSE g[i - 1] \o q[i]]
<1>2. FlattenSeq(q) = G[Len(q)]
  BY <1>1 DEF FlattenSeq
<1>3. \E g : g = [i \in 1 .. Len(q) |-> IF i = 1 THEN q[i] ELSE g[i - 1] \o q[i]]
  BY <1>1, FlattensExist DEF Flattens
<1>4. Flattens(G, q, Len(q))
  BY <1>3 DEF Flattens
<1> QED BY <1>2, <1>4

LEMMA ListsFlatten ==
  ASSUME NEW q, NEW S, ListsOf(q, S)
  PROVE  Lists(FlattenSeq(q), S)
<1>1. CASE q = <<>>
  <2>1. Len(q) = 0
    BY <1>1, EmptySeq
  <2>2. FlattenSeq(q) = q
    BY <2>1 DEF FlattenSeq
  <2>3. S = {}
    BY <2>1 DEF ListsOf
  <2> QED BY <1>1, <2>2, <2>3, ListsNothing
<1>2. CASE q # <<>>
  <2>1. q \in Seq(Seq(S))
    BY DEF ListsOf
  <2>2. Len(q) \in Nat \ {0}
    BY <1>2, <2>1, EmptySeq
  <2>3. PICK g : Flattens(g, q, Len(q)) /\ FlattenSeq(q) = g[Len(q)]
    BY <1>2, <2>1, FlattenIs
  <2>4. /\ \A i \in 1 .. Len(q) : g[i] = IF i = 1 THEN q[i] ELSE g[i - 1] \o q[i]
    BY <2>3 DEF Flattens
  <2> DEFINE Of(i)   == {x \in S : \E k \in 1 .. Len(q[i]) : q[i][k] = x}
             Upto(i) == {x \in S : \E j \in 1 .. i : x \in Of(j)}
             Bad     == {i \in 1 .. Len(q) : ~Lists(g[i], Upto(i))}
  <2>5. ASSUME NEW i \in 1 .. Len(q) PROVE Lists(q[i], Of(i))
    <3>1. q[i] \in Seq(S)
      BY <2>1, ElementOfSeq
    <3>2. Len(q[i]) \in Nat /\ q[i] \in [1 .. Len(q[i]) -> S] /\ \A k \in 1 .. Len(q[i]) : q[i][k] \in Of(i)
      BY <3>1, LenProperties
    <3>3. q[i] \in Seq(Of(i))
      <4>1. q[i] = [k \in 1 .. Len(q[i]) |-> q[i][k]]
        BY <3>2
      <4> HIDE DEF Of
      <4>2. [k \in 1 .. Len(q[i]) |-> q[i][k]] \in Seq(Of(i))
        BY <3>2, IsASeq
      <4> QED BY <4>1, <4>2
    <3>4. \A k, l \in 1 .. Len(q[i]) : q[i][k] = q[i][l] => k = l
      BY DEF ListsOf
    <3>5. \A x \in Of(i) : \E k \in 1 .. Len(q[i]) : q[i][k] = x
      OBVIOUS
    <3> HIDE DEF Of
    <3> QED BY <3>3, <3>4, <3>5 DEF Lists
  <2>6. Bad = {}
    <3> SUFFICES ASSUME Bad # {} PROVE FALSE
      OBVIOUS
    <3>1. PICK i \in Bad : \A j \in Bad : i <= j
      <4>1. Bad \subseteq Nat
        BY <2>2
      <4> HIDE DEF Bad
      <4> QED BY <4>1, LeastNumber
    <3>2. i \in 1 .. Len(q) /\ ~Lists(g[i], Upto(i))
      OBVIOUS
    <3>3. CASE i = 1
      <4>1. g[i] = q[i]
        BY <2>4, <3>2, <3>3
      <4>2. Upto(i) = Of(i)
        <5>1. \A j : j \in 1 .. i <=> j = i
          BY <3>3
        <5> HIDE DEF Of
        <5>2. \A x : x \in Of(i) => x \in S
          BY DEF Of
        <5> QED BY <5>1, <5>2
      <4> QED BY <2>5, <3>2, <4>1, <4>2
    <3>4. CASE i # 1
      <4>0. i - 1 \in 1 .. Len(q) /\ ~(i <= i - 1)
        BY <2>2, <3>2, <3>4
      <4>1. i - 1 \in 1 .. Len(q) /\ i - 1 \notin Bad
        <5> HIDE DEF Bad
        <5> QED BY <3>1, <4>0
      <4>2. Lists(g[i - 1], Upto(i - 1)) /\ Lists(q[i], Of(i))
        BY <2>5, <3>2, <4>1
      <4>3. g[i] = g[i - 1] \o q[i]
        BY <2>4, <3>2, <3>4
      <4>4. Upto(i) = Upto(i - 1) \cup Of(i)
        <5>1. \A j : j \in 1 .. i <=> j \in 1 .. i - 1 \/ j = i
          BY <2>2, <3>2
        <5>2. \A x : x \in Of(i) => x \in S
          OBVIOUS
        <5> HIDE DEF Of
        <5> QED BY <5>1, <5>2
      <4>5. Upto(i - 1) \cap Of(i) = {}
        <5> SUFFICES ASSUME NEW x \in Upto(i - 1), x \in Of(i) PROVE FALSE
          OBVIOUS
        <5>1. PICK j \in 1 .. i - 1 : x \in Of(j)
          OBVIOUS
        <5>2. PICK k \in 1 .. Len(q[j]) : q[j][k] = x
          BY <5>1
        <5>3. PICK l \in 1 .. Len(q[i]) : q[i][l] = x
          OBVIOUS
        <5>4. j \in 1 .. Len(q) /\ j # i
          BY <2>2, <3>2, <5>1
        <5>5. \A a, b \in 1 .. Len(q) : \A c \in 1 .. Len(q[a]) : \A d \in 1 .. Len(q[b]) :
                q[a][c] = q[b][d] => a = b /\ c = d
          BY DEF ListsOf
        <5> HIDE DEF Upto, Of
        <5> QED BY <3>2, <5>2, <5>3, <5>4, <5>5
      <4> HIDE DEF Upto, Of
      <4>6. Lists(g[i], Upto(i))
        BY <4>2, <4>3, <4>4, <4>5, ListsConcat
      <4> QED BY <3>2, <4>6
    <3> QED BY <3>3, <3>4
  <2>7. Len(q) \in 1 .. Len(q)
    BY <2>2
  <2>8. Upto(Len(q)) = S
    <3>1. \A x \in S : \E j \in 1 .. Len(q) : \E k \in 1 .. Len(q[j]) : q[j][k] = x
      BY DEF ListsOf
    <3> QED BY <3>1
  <2>9. Lists(g[Len(q)], Upto(Len(q)))
    BY <2>6, <2>7
  <2> HIDE DEF Upto
  <2> QED BY <2>3, <2>8, <2>9
<1> QED BY <1>1, <1>2
-----------------------------------------------------------------------------
(* The controllers of a type with the versions from a to b - 1. *)
V(type, a, b) == {Controller(type, v) : v \in a .. b - 1}

LEMMA VersionsOf ==
  ASSUME NEW type, NEW a, NEW b, NEW x \in V(type, a, b)
  PROVE  x.type = type /\ x.version \in a .. b - 1 /\ x = Controller(type, x.version)
  BY DEF V, Controller

LEMMA InVersions ==
  ASSUME NEW type, NEW a, NEW b, NEW v \in a .. b - 1
  PROVE  Controller(type, v) \in V(type, a, b)
  BY DEF V

LEMMA VersionsApart ==
  ASSUME NEW type, NEW v, NEW w, Controller(type, v) = Controller(type, w)
  PROVE  v = w
  BY DEF Controller

(* Loops that create the next n controllers of a type. *)
LEMMA ListsLoop ==
  ASSUME NEW type, NEW a \in Nat, NEW n \in Nat
  PROVE  Lists([k \in 1 .. n |-> Controller(type, a + k - 1)], V(type, a, a + n))
<1> DEFINE e(k) == Controller(type, a + k - 1)
           s == [k \in 1 .. n |-> e(k)]
<1>1. \A k \in 1 .. n : e(k) \in V(type, a, a + n)
  <2> SUFFICES ASSUME NEW k \in 1 .. n PROVE e(k) \in V(type, a, a + n)
    OBVIOUS
  <2>1. a + k - 1 \in a .. a + n - 1
    OBVIOUS
  <2> QED BY <2>1 DEF V
<1>2. s \in Seq(V(type, a, a + n))
  <2> HIDE DEF e
  <2> QED BY <1>1, IsASeq
<1>3. Len(s) = n
  OBVIOUS
<1>4. ASSUME NEW x \in V(type, a, a + n) PROVE \E k \in 1 .. n : s[k] = x
  <2>1. PICK v \in a .. a + n - 1 : x = Controller(type, v)
    BY <1>4 DEF V
  <2>2. v - a + 1 \in 1 .. n /\ a + (v - a + 1) - 1 = v
    OBVIOUS
  <2> QED BY <2>1, <2>2
<1>5. ASSUME NEW i \in 1 .. n, NEW j \in 1 .. n, s[i] = s[j] PROVE i = j
  <2>1. a + i - 1 = a + j - 1
    BY <1>5, VersionsApart
  <2> QED BY <2>1
<1> HIDE DEF s
<1>6. Lists(s, V(type, a, a + n))
  BY <1>2, <1>3, <1>4, <1>5 DEF Lists
<1> QED BY <1>6 DEF s

LEMMA ListsNumbered ==
  ASSUME NEW type, NEW n \in Nat
  PROVE  Lists(Numbered(type, n), V(type, 0, n))
<1>1. [k \in 1 .. n |-> Controller(type, 0 + k - 1)] = Numbered(type, n)
  BY DEF Numbered
<1>2. 0 + n = n
  OBVIOUS
<1> QED BY <1>1, <1>2, ListsLoop

LEMMA VersionsJoin ==
  ASSUME NEW type, NEW a \in Nat, NEW b \in Nat, NEW c \in Nat, a <= b, b <= c
  PROVE  V(type, a, b) \cup V(type, b, c) = V(type, a, c) /\ V(type, a, b) \cap V(type, b, c) = {}
<1>1. \A v : v \in a .. c - 1 <=> v \in a .. b - 1 \/ v \in b .. c - 1
  OBVIOUS
<1>2. V(type, a, b) \cup V(type, b, c) = V(type, a, c)
  BY <1>1 DEF V
<1>3. ASSUME NEW x \in V(type, a, b), x \in V(type, b, c) PROVE FALSE
  <2>1. x.version \in a .. b - 1 /\ x.version \in b .. c - 1
    BY <1>3, VersionsOf
  <2> QED BY <2>1
<1> QED BY <1>2, <1>3

LEMMA ListsOne ==
  ASSUME NEW type, NEW a \in Nat
  PROVE  Lists(<<Controller(type, a)>>, V(type, a, a + 1))
<1>1. \A v : v \in a .. (a + 1) - 1 <=> v = a
  OBVIOUS
<1>2. V(type, a, a + 1) = {Controller(type, a)}
  BY <1>1 DEF V
<1> HIDE DEF V
<1> QED BY <1>2 DEF Lists

LEMMA ListsMore ==
  ASSUME NEW s, NEW t, NEW type, NEW a \in Nat, NEW b \in Nat, NEW c \in Nat, a <= b, b <= c,
         Lists(s, V(type, a, b)), Lists(t, V(type, b, c))
  PROVE  Lists(s \o t, V(type, a, c))
  BY VersionsJoin, ListsConcat
-----------------------------------------------------------------------------
(* Every type has the versions from 0 on. *)
Contiguous(S) ==
  \A x \in S : \E n \in Nat : {y \in S : y.type = x.type} = V(x.type, 0, n)

LEMMA ContiguousOne ==
  ASSUME NEW type, NEW n \in Nat
  PROVE  Contiguous(V(type, 0, n))
<1>1. \A x \in V(type, 0, n) : x.type = type
  BY VersionsOf
<1> QED BY <1>1 DEF Contiguous

LEMMA ContiguousMore ==
  ASSUME NEW S, NEW type, NEW n \in Nat, Contiguous(S), \A x \in S : x.type # type
  PROVE  Contiguous(S \cup V(type, 0, n)) /\ S \cap V(type, 0, n) = {}
<1>1. \A x \in V(type, 0, n) : x.type = type
  BY VersionsOf
<1>2. S \cap V(type, 0, n) = {}
  BY <1>1
<1> DEFINE U == S \cup V(type, 0, n)
<1>3. ASSUME NEW x \in U PROVE \E k \in Nat : {y \in U : y.type = x.type} = V(x.type, 0, k)
  <2>1. CASE x \in S
    <3>1. PICK k \in Nat : {y \in S : y.type = x.type} = V(x.type, 0, k)
      BY <2>1 DEF Contiguous
    <3>2. {y \in U : y.type = x.type} = {y \in S : y.type = x.type}
      BY <1>1, <2>1
    <3> QED BY <3>1, <3>2
  <2>2. CASE x \in V(type, 0, n)
    <3>1. {y \in U : y.type = x.type} = V(type, 0, n)
      BY <1>1, <2>2
    <3> QED BY <1>1, <2>2, <3>1
  <2> QED BY <1>3, <2>1, <2>2
<1> QED BY <1>2, <1>3 DEF Contiguous

(* A list of controllers whose versions are contiguous. *)
Line(s, S) == Lists(s, S) /\ Contiguous(S)

LEMMA LineMore ==
  ASSUME NEW s, NEW S, NEW t, NEW type, NEW n \in Nat,
         Line(s, S), Lists(t, V(type, 0, n)), \A x \in S : x.type # type
  PROVE  Line(s \o t, S \cup V(type, 0, n))
  BY ContiguousMore, ListsConcat DEF Line

LEMMA HowMany ==
  ASSUME NEW s, NEW S, Lists(s, S)
  PROVE  Cardinality(S) = Len(s) /\ ToSet(s) = S
<1>1. Len(s) \in Nat /\ s \in [1 .. Len(s) -> S] /\ DOMAIN s = 1 .. Len(s)
  BY LenProperties DEF Lists
<1>2. \A x \in S : \E i \in 1 .. Len(s) : s[i] = x
  BY DEF Lists
<1>3. \A i, j \in 1 .. Len(s) : s[i] = s[j] => i = j
  BY DEF Lists
<1>4. s \in Bijection(1 .. Len(s), S)
  BY <1>1, <1>2, <1>3 DEF Bijection, Injection, Surjection, IsInjective
<1>5. Cardinality(S) = Len(s)
  BY <1>1, <1>4, FS_CountingElements DEF ExistsBijection
<1>6. ToSet(s) = S
  BY <1>1, <1>2 DEF ToSet
<1> QED BY <1>5, <1>6

LEMMA VersionsOfType ==
  ASSUME NEW type, NEW n \in Nat
  PROVE  {b.version : b \in V(type, 0, n)} = 0 .. Cardinality(V(type, 0, n)) - 1
<1>1. Len(Numbered(type, n)) = n
  BY DEF Numbered
<1>2. Cardinality(V(type, 0, n)) = n
  BY <1>1, ListsNumbered, HowMany
<1>3. \A v : Controller(type, v).version = v
  BY DEF Controller
<1>4. {b.version : b \in V(type, 0, n)} = 0 .. n - 1
  BY <1>3 DEF V
<1> QED BY <1>2, <1>4

LEMMA LineIsContiguous ==
  ASSUME NEW S, Line(nodes, S)
  PROVE  VersionsAreContiguous
<1>1. Cardinality(S) = Len(nodes) /\ ToSet(nodes) = S
  BY HowMany DEF Line
<1>2. ASSUME NEW a \in S
      PROVE  {b.version : b \in {b \in S : b.type = a.type}} = 0 .. Cardinality({b \in S : b.type = a.type}) - 1
  <2>1. PICK n \in Nat : {b \in S : b.type = a.type} = V(a.type, 0, n)
    BY DEF Line, Contiguous
  <2> QED BY <2>1, VersionsOfType
<1> QED BY <1>1, <1>2 DEF VersionsAreContiguous
-----------------------------------------------------------------------------
(* The lists of the protocols.                                             *)
Counted(c) ==
  /\ {c.cpus, c.dirs, c.dmas, c.l2s, c.l3s, c.cus, c.sqcs, c.scalars, c.cps, c.tccs} \subseteq Nat
  /\ c.clusters \in Nat \ {0}

InLine(s) == \E S : Line(s, S)

(* Directories and DMA controllers, with those of boot memory and io. *)
Dirs(c)  == IF c.boot THEN c.dirs + 1 ELSE c.dirs
Ports(c) == IF c.full THEN c.dmas + 1 ELSE c.dmas

LEMMA NumberedAndOne ==
  ASSUME NEW type, NEW n \in Nat
  PROVE  /\ Lists(Numbered(type, n) \o <<>>, V(type, 0, n))
         /\ Lists(Numbered(type, n) \o <<Controller(type, n)>>, V(type, 0, n + 1))
<1>1. Lists(Numbered(type, n), V(type, 0, n))
  BY ListsNumbered
<1>2. Numbered(type, n) \o <<>> = Numbered(type, n)
  BY <1>1, ConcatEmptySeq DEF Lists
<1>3. Lists(<<Controller(type, n)>>, V(type, n, n + 1))
  BY ListsOne
<1>4. 0 \in Nat /\ n + 1 \in Nat /\ 0 <= n /\ n <= n + 1
  OBVIOUS
<1>5. Lists(Numbered(type, n) \o <<Controller(type, n)>>, V(type, 0, n + 1))
  BY <1>1, <1>3, <1>4, ListsMore
<1> QED BY <1>1, <1>2, <1>5

LEMMA DirectoriesAndDmas ==
  ASSUME NEW c, Counted(c)
  PROVE  /\ Dirs(c) \in Nat /\ Lists(Directories(c), V("Directory", 0, Dirs(c)))
         /\ Ports(c) \in Nat /\ Lists(Dmas(c), V("DMA", 0, Ports(c)))
<1>1. c.dirs \in Nat /\ c.dmas \in Nat
  BY DEF Counted
<1>2. Dirs(c) \in Nat /\ Lists(Directories(c), V("Directory", 0, Dirs(c)))
  <2>1. CASE c.boot
    BY <1>1, <2>1, NumberedAndOne DEF Directories, Dirs
  <2>2. CASE ~c.boot
    BY <1>1, <2>2, NumberedAndOne DEF Directories, Dirs
  <2> QED BY <2>1, <2>2
<1>3. Ports(c) \in Nat /\ Lists(Dmas(c), V("DMA", 0, Ports(c)))
  <2>1. CASE c.full
    BY <1>1, <2>1, NumberedAndOne DEF Dmas, Ports
  <2>2. CASE ~c.full
    BY <1>1, <2>2, NumberedAndOne DEF Dmas, Ports
  <2> QED BY <2>1, <2>2
<1> QED BY <1>2, <1>3

LEMMA LineStart ==
  ASSUME NEW s, NEW type, NEW n \in Nat, Lists(s, V(type, 0, n))
  PROVE  Line(s, V(type, 0, n))
  BY ContiguousOne DEF Line

(* Directories and DMA controllers behind controllers of other types. *)
LEMMA LineWithMemory ==
  ASSUME NEW c, Counted(c), NEW s, NEW S, Line(s, S),
         \A x \in S : x.type \notin {"Directory", "DMA"}
  PROVE  InLine(s \o Directories(c) \o Dmas(c))
<1> DEFINE D == V("Directory", 0, Dirs(c))
<1>1. Line(s \o Directories(c), S \cup D)
  BY DirectoriesAndDmas, LineMore
<1>2. \A x \in S \cup D : x.type # "DMA"
  BY VersionsOf
<1>3. Line(s \o Directories(c) \o Dmas(c), (S \cup D) \cup V("DMA", 0, Ports(c)))
  <2> HIDE DEF D
  <2> QED BY <1>1, <1>2, DirectoriesAndDmas, LineMore
<1> QED BY <1>3 DEF InLine

LEMMA OneLevel ==
  ASSUME NEW c, Counted(c)
  PROVE  InLine(MI_example(c)) /\ InLine(MOESI_hammer(c)) /\ InLine(Garnet_standalone(c))
<1> DEFINE L1 == V("L1Cache", 0, c.cpus)
<1>1. c.cpus \in Nat
  BY DEF Counted
<1>2. Line(Numbered("L1Cache", c.cpus), L1)
  BY <1>1, ListsNumbered, LineStart
<1>3. \A x \in L1 : x.type = "L1Cache"
  BY VersionsOf
<1> HIDE DEF L1
<1>4. InLine(Numbered("L1Cache", c.cpus) \o Directories(c) \o Dmas(c))
  BY <1>2, <1>3, LineWithMemory
<1>5. Line(Numbered("L1Cache", c.cpus) \o Directories(c), L1 \cup V("Directory", 0, Dirs(c)))
  BY <1>2, <1>3, DirectoriesAndDmas, LineMore
<1> QED BY <1>4, <1>5 DEF MI_example, MOESI_hammer, Garnet_standalone, InLine

LEMMA TwoLevels ==
  ASSUME NEW c, Counted(c)
  PROVE  InLine(MESI_Two_Level(c)) /\ InLine(MOESI_CMP_directory(c)) /\ InLine(MOESI_CMP_token(c))
<1> DEFINE L1 == V("L1Cache", 0, c.cpus)
           L2 == V("L2Cache", 0, c.l2s)
<1>1. c.cpus \in Nat /\ c.l2s \in Nat
  BY DEF Counted
<1>2. Line(Numbered("L1Cache", c.cpus), L1)
  BY <1>1, ListsNumbered, LineStart
<1>3. /\ \A x \in L1 : x.type = "L1Cache"
      /\ \A x \in L2 : x.type = "L2Cache"
  BY VersionsOf
<1>4. Lists(Numbered("L2Cache", c.l2s), L2)
  BY <1>1, ListsNumbered
<1>5. Line(Numbered("L1Cache", c.cpus) \o Numbered("L2Cache", c.l2s), L1 \cup L2)
  <2> HIDE DEF L1
  <2> QED BY <1>1, <1>2, <1>3, <1>4, LineMore
<1>6. \A x \in L1 \cup L2 : x.type \notin {"Directory", "DMA"}
  BY <1>3
<1>7. InLine(Numbered("L1Cache", c.cpus) \o Numbered("L2Cache", c.l2s) \o Directories(c) \o Dmas(c))
  <2> HIDE DEF L1, L2
  <2> QED BY <1>5, <1>6, LineWithMemory
<1> QED BY <1>7 DEF MESI_Two_Level, MOESI_CMP_directory, MOESI_CMP_token

(* What is numbered across k clusters of per controllers. *)
Spread(k, per) ==
  /\ \A i \in 1 .. k : \A j \in 1 .. per : (i - 1) * per + j - 1 \in 0 .. k * per - 1
  /\ \A i, a \in 1 .. k : \A j, b \in 1 .. per :
       (i - 1) * per + j - 1 = (a - 1) * per + b - 1 => i = a /\ j = b
  /\ \A v \in 0 .. k * per - 1 : \E i \in 1 .. k : \E j \in 1 .. per : v = (i - 1) * per + j - 1

LEMMA PlacesInClusters ==
  ASSUME NEW k \in Nat \ {0}, NEW per \in Nat
  PROVE  Spread(k, per)
<1>1. ASSUME NEW i \in 1 .. k, NEW j \in 1 .. per PROVE (i - 1) * per + j - 1 \in 0 .. k * per - 1
  <2>1. i - 1 \in Nat /\ k - i \in Nat /\ j - 1 \in Nat /\ per - j \in Nat
    OBVIOUS
  <2>2. (i - 1) * per \in Nat /\ (k - i) * per \in Nat
    BY <2>1
  <2>3. k * per = (i - 1) * per + (k - i) * per + per
    BY <2>1
  <2> QED BY <2>1, <2>2, <2>3
<1>2. ASSUME NEW i \in 1 .. k, NEW a \in 1 .. k, NEW j \in 1 .. per, NEW b \in 1 .. per,
             (i - 1) * per + j - 1 = (a - 1) * per + b - 1
      PROVE  i = a /\ j = b
  <2>1. i - 1 \in Nat /\ a - 1 \in Nat /\ j - 1 \in 0 .. per - 1 /\ b - 1 \in 0 .. per - 1 /\ per \in Nat \ {0}
    OBVIOUS
  <2>2. (i - 1) * per + j - 1 = per * (i - 1) + (j - 1) /\ (a - 1) * per + b - 1 = per * (a - 1) + (b - 1)
    BY <2>1
  <2>3. (per * (i - 1) + (j - 1)) \div per = i - 1 /\ (per * (a - 1) + (b - 1)) \div per = a - 1
    BY <2>1, QuotientIs
  <2>4. i - 1 = a - 1
    BY <1>2, <2>2, <2>3
  <2>5. i = a
    BY <2>4
  <2> QED BY <1>2, <2>2, <2>5
<1>3. ASSUME NEW v \in 0 .. k * per - 1
      PROVE  \E i \in 1 .. k : \E j \in 1 .. per : v = (i - 1) * per + j - 1
  <2>1. per # 0
    OBVIOUS
  <2> DEFINE q == v \div per
             r == v % per
  <2>2. v \in Nat /\ k * per \in Nat /\ v < k * per
    OBVIOUS
  <2>3. q \in Nat /\ r \in 0 .. per - 1 /\ v = per * q + r
    BY <2>1, <2>2, Quotient
  <2> HIDE DEF q, r
  <2>4. q < k
    <3> SUFFICES ASSUME k <= q PROVE FALSE
      BY <2>3
    <3>1. q - k \in Nat
      BY <2>3
    <3>2. per * q = k * per + (q - k) * per /\ (q - k) * per \in Nat
      BY <2>3, <3>1
    <3> QED BY <2>2, <2>3, <3>2
  <2>5. q + 1 \in 1 .. k /\ r + 1 \in 1 .. per
    BY <2>3, <2>4
  <2>6. v = ((q + 1) - 1) * per + (r + 1) - 1
    BY <2>3
  <2> QED BY <2>5, <2>6
<1> QED BY <1>1, <1>2, <1>3 DEF Spread

OfClusters(c, type, n) ==
  LET per == n \div c.clusters
  IN FlattenSeq([i \in 1 .. c.clusters |-> [j \in 1 .. per |-> Controller(type, (i - 1) * per + j - 1)]])

LEMMA ClustersList ==
  ASSUME NEW c, NEW type, NEW n \in Nat, c.clusters \in Nat \ {0}, n % c.clusters = 0
  PROVE  Lists(OfClusters(c, type, n), V(type, 0, n))
<1> DEFINE k == c.clusters
           per == n \div k
           S == V(type, 0, n)
           row(i) == [j \in 1 .. per |-> Controller(type, (i - 1) * per + j - 1)]
           q == [i \in 1 .. k |-> row(i)]
<1>1. per \in Nat /\ n = k * per
  <2> HIDE DEF k
  <2>1. k \in Nat \ {0} /\ n % k = 0
    BY DEF k
  <2>2. per \in Nat /\ n = k * per + (n % k)
    BY <2>1, Quotient
  <2> HIDE DEF per
  <2>3. k * per \in Nat
    BY <2>1, <2>2
  <2> QED BY <2>1, <2>2, <2>3
<1> HIDE DEF per
<1>10. k \in Nat \ {0}
  OBVIOUS
<1>11. Spread(k, per)
  <2> HIDE DEF k
  <2> QED BY <1>1, <1>10, PlacesInClusters
<1>2. \A i \in 1 .. k : row(i) \in Seq(S) /\ Len(row(i)) = per
  <2> SUFFICES ASSUME NEW i \in 1 .. k PROVE row(i) \in Seq(S) /\ Len(row(i)) = per
    OBVIOUS
  <2> DEFINE e(j) == Controller(type, (i - 1) * per + j - 1)
  <2>1. \A j \in 1 .. per : e(j) \in S
    BY <1>1, <1>11 DEF V, Spread
  <2>2. [j \in 1 .. per |-> e(j)] \in Seq(S)
    <3> HIDE DEF e, S
    <3> QED BY <1>1, <2>1, IsASeq
  <2> QED BY <1>1, <2>2
<1>3. \A i \in 1 .. k : \A j \in 1 .. per : row(i)[j] = Controller(type, (i - 1) * per + j - 1)
  OBVIOUS
<1> HIDE DEF row
<1>4. q \in Seq(Seq(S)) /\ Len(q) = k
  <2>1. q \in Seq(Seq(S))
    <3> HIDE DEF S
    <3> QED BY <1>2, IsASeq
  <2> QED BY <2>1
<1>5. \A i \in 1 .. k : q[i] = row(i)
  OBVIOUS
<1> HIDE DEF q
<1>6. \A x \in S : \E i \in 1 .. Len(q) : \E j \in 1 .. Len(q[i]) : q[i][j] = x
  <2> SUFFICES ASSUME NEW x \in S PROVE \E i \in 1 .. Len(q) : \E j \in 1 .. Len(q[i]) : q[i][j] = x
    OBVIOUS
  <2>1. PICK v \in 0 .. k * per - 1 : x = Controller(type, v)
    BY <1>1 DEF V
  <2>2. \E i \in 1 .. k : \E j \in 1 .. per : v = (i - 1) * per + j - 1
    BY <1>11 DEF Spread
  <2>3. PICK i \in 1 .. k : \E j \in 1 .. per : v = (i - 1) * per + j - 1
    BY <2>2
  <2>4. PICK j \in 1 .. per : v = (i - 1) * per + j - 1
    BY <2>3
  <2>5. q[i][j] = x
    BY <1>3, <1>5, <2>1, <2>4
  <2>6. i \in 1 .. Len(q) /\ j \in 1 .. Len(q[i])
    BY <1>2, <1>4, <1>5
  <2> QED BY <2>5, <2>6
<1>7. ASSUME NEW i \in 1 .. k, NEW a \in 1 .. k, NEW j \in 1 .. per, NEW b \in 1 .. per, q[i][j] = q[a][b]
      PROVE  i = a /\ j = b
  <2>1. (i - 1) * per + j - 1 = (a - 1) * per + b - 1
    BY <1>3, <1>5, <1>7, VersionsApart
  <2> HIDE DEF k
  <2> QED BY <1>11, <1>7, <2>1 DEF Spread
<1>8. ListsOf(q, S)
  <2>1. \A i, a \in 1 .. Len(q) : \A j \in 1 .. Len(q[i]) : \A b \in 1 .. Len(q[a]) :
          q[i][j] = q[a][b] => i = a /\ j = b
    BY <1>2, <1>4, <1>5, <1>7
  <2> HIDE DEF S
  <2> QED BY <1>4, <1>6, <2>1 DEF ListsOf
<1>9. Lists(FlattenSeq(q), S)
  <2> HIDE DEF S
  <2> QED BY <1>8, ListsFlatten
<1> QED BY <1>9 DEF OfClusters, q, row, per

LEMMA ThreeLevels ==
  ASSUME NEW c, Counted(c), c.cpus % c.clusters = 0, c.l2s % c.clusters = 0
  PROVE  InLine(MESI_Three_Level(c))
<1> DEFINE L0 == V("L0Cache", 0, c.cpus)
           L1 == V("L1Cache", 0, c.cpus)
           L2 == V("L2Cache", 0, c.l2s)
           s0 == OfClusters(c, "L0Cache", c.cpus)
           s1 == OfClusters(c, "L1Cache", c.cpus)
           s2 == OfClusters(c, "L2Cache", c.l2s)
<1>1. c.cpus \in Nat /\ c.l2s \in Nat /\ c.clusters \in Nat \ {0}
  BY DEF Counted
<1>2. Lists(s0, L0) /\ Lists(s1, L1) /\ Lists(s2, L2)
  BY <1>1, ClustersList
<1>3. /\ \A x \in L0 : x.type = "L0Cache"
      /\ \A x \in L1 : x.type = "L1Cache"
      /\ \A x \in L2 : x.type = "L2Cache"
  BY VersionsOf
<1> HIDE DEF s0, s1, s2
<1>4. Line(s0, L0)
  BY <1>1, <1>2, LineStart
<1>5. Line(s0 \o s1, L0 \cup L1)
  <2> HIDE DEF L0
  <2> QED BY <1>1, <1>2, <1>3, <1>4, LineMore
<1>6. \A x \in L0 \cup L1 : x.type # "L2Cache"
  BY <1>3
<1>7. Line(s0 \o s1 \o s2, (L0 \cup L1) \cup L2)
  <2> HIDE DEF L0, L1
  <2> QED BY <1>1, <1>2, <1>5, <1>6, LineMore
<1>8. \A x \in (L0 \cup L1) \cup L2 : x.type \notin {"Directory", "DMA"}
  BY <1>3
<1>9. InLine(s0 \o s1 \o s2 \o Directories(c) \o Dmas(c))
  <2> HIDE DEF L0, L1, L2
  <2> QED BY <1>7, <1>8, LineWithMemory
<1>10. MESI_Three_Level(c) = s0 \o s1 \o s2 \o Directories(c) \o Dmas(c)
  BY DEF MESI_Three_Level, OfClusters, s0, s1, s2
<1> QED BY <1>9, <1>10

(* The nodes of CHI. *)
LEMMA ListsOfConcat ==
  ASSUME NEW q, NEW S, NEW r, NEW T, ListsOf(q, S), ListsOf(r, T), S \cap T = {}
  PROVE  ListsOf(q \o r, S \cup T)
<1> DEFINE U == S \cup T
           both == q \o r
<1>1. q \in Seq(Seq(S)) /\ r \in Seq(Seq(T))
  BY DEF ListsOf
<1>2. Seq(S) \subseteq Seq(U) /\ Seq(T) \subseteq Seq(U)
  BY SeqMonotonic
<1>3. q \in Seq(Seq(U)) /\ r \in Seq(Seq(U))
  BY <1>1, <1>2, SeqMonotonic
<1>4. Len(q) \in Nat /\ Len(r) \in Nat
  BY <1>3, LenProperties
<1>5. /\ both \in Seq(Seq(U)) /\ Len(both) = Len(q) + Len(r)
      /\ \A i \in 1 .. Len(q) + Len(r) : both[i] = IF i <= Len(q) THEN q[i] ELSE r[i - Len(q)]
  BY <1>3, ConcatProperties
<1>6. /\ \A i \in 1 .. Len(q) : q[i] \in Seq(S)
      /\ \A i \in 1 .. Len(r) : r[i] \in Seq(T)
  BY <1>1, ElementOfSeq
<1>7. /\ \A i \in 1 .. Len(q) : \A k \in 1 .. Len(q[i]) : q[i][k] \in S
      /\ \A i \in 1 .. Len(r) : \A k \in 1 .. Len(r[i]) : r[i][k] \in T
  BY <1>6, ElementOfSeq
<1> HIDE DEF both
<1>8. /\ \A i \in 1 .. Len(q) : i \in 1 .. Len(both) /\ both[i] = q[i]
      /\ \A i \in 1 .. Len(r) : i + Len(q) \in 1 .. Len(both) /\ both[i + Len(q)] = r[i]
  <2>1. ASSUME NEW i \in 1 .. Len(q) PROVE i \in 1 .. Len(both) /\ both[i] = q[i]
    BY <1>4, <1>5
  <2>2. ASSUME NEW i \in 1 .. Len(r) PROVE i + Len(q) \in 1 .. Len(both) /\ both[i + Len(q)] = r[i]
    <3>1. i + Len(q) \in 1 .. Len(q) + Len(r) /\ ~(i + Len(q) <= Len(q)) /\ i + Len(q) - Len(q) = i
      BY <1>4
    <3> QED BY <1>5, <3>1
  <2> QED BY <2>1, <2>2
<1>9. ASSUME NEW x \in U PROVE \E i \in 1 .. Len(both) : \E k \in 1 .. Len(both[i]) : both[i][k] = x
  <2>1. CASE x \in S
    <3>1. PICK i \in 1 .. Len(q) : \E k \in 1 .. Len(q[i]) : q[i][k] = x
      BY <2>1 DEF ListsOf
    <3> QED BY <1>8, <3>1
  <2>2. CASE x \in T
    <3>1. PICK i \in 1 .. Len(r) : \E k \in 1 .. Len(r[i]) : r[i][k] = x
      BY <2>2 DEF ListsOf
    <3> QED BY <1>8, <3>1
  <2> QED BY <1>9, <2>1, <2>2
<1>10. ASSUME NEW i \in 1 .. Len(both), NEW j \in 1 .. Len(both),
              NEW k \in 1 .. Len(both[i]), NEW l \in 1 .. Len(both[j]), both[i][k] = both[j][l]
       PROVE  i = j /\ k = l
  <2>1. /\ \A a, b \in 1 .. Len(q) : \A m \in 1 .. Len(q[a]) : \A n \in 1 .. Len(q[b]) :
             q[a][m] = q[b][n] => a = b /\ m = n
        /\ \A a, b \in 1 .. Len(r) : \A m \in 1 .. Len(r[a]) : \A n \in 1 .. Len(r[b]) :
             r[a][m] = r[b][n] => a = b /\ m = n
    BY DEF ListsOf
  <2> DEFINE i2 == i - Len(q)
             j2 == j - Len(q)
  <2>2. /\ i <= Len(q) => i \in 1 .. Len(q) /\ both[i] = q[i]
        /\ ~(i <= Len(q)) => i2 \in 1 .. Len(r) /\ both[i] = r[i2]
        /\ j <= Len(q) => j \in 1 .. Len(q) /\ both[j] = q[j]
        /\ ~(j <= Len(q)) => j2 \in 1 .. Len(r) /\ both[j] = r[j2]
    BY <1>4, <1>5
  <2>3. i2 = j2 => i = j
    BY <1>4, <1>5
  <2> HIDE DEF i2, j2
  <2>4. CASE i <= Len(q) /\ j <= Len(q)
    BY <1>10, <2>1, <2>2, <2>4
  <2>5. CASE ~(i <= Len(q)) /\ ~(j <= Len(q))
    <3>1. i2 \in 1 .. Len(r) /\ j2 \in 1 .. Len(r) /\ k \in 1 .. Len(r[i2]) /\ l \in 1 .. Len(r[j2])
          /\ r[i2][k] = r[j2][l]
      BY <1>10, <2>2, <2>5
    <3>2. i2 = j2 /\ k = l
      BY <2>1, <3>1
    <3> QED BY <2>3, <3>2
  <2>6. CASE i <= Len(q) /\ ~(j <= Len(q))
    BY <1>7, <1>10, <2>2, <2>6
  <2>7. CASE ~(i <= Len(q)) /\ j <= Len(q)
    BY <1>7, <1>10, <2>2, <2>7
  <2> QED BY <2>4, <2>5, <2>6, <2>7
<1>11. ListsOf(both, U)
  <2> HIDE DEF U
  <2> QED BY <1>5, <1>9, <1>10 DEF ListsOf
<1> QED BY <1>11 DEF both

ControllersOf(ns) == [k \in 1 .. Len(ns) |-> ns[k].controllers]
NodesOf(ns, S) == (\E N : ns \in Seq(N)) /\ ListsOf(ControllersOf(ns), S)

LEMMA NodesConcat ==
  ASSUME NEW a, NEW S, NEW b, NEW T, NodesOf(a, S), NodesOf(b, T), S \cap T = {}
  PROVE  NodesOf(a \o b, S \cup T)
<1>1. PICK N, M : a \in Seq(N) /\ b \in Seq(M)
  BY DEF NodesOf
<1>2. a \in Seq(N \cup M) /\ b \in Seq(N \cup M)
  BY <1>1, SeqMonotonic
<1>3. /\ a \o b \in Seq(N \cup M) /\ Len(a \o b) = Len(a) + Len(b)
      /\ \A i \in 1 .. Len(a) + Len(b) : (a \o b)[i] = IF i <= Len(a) THEN a[i] ELSE b[i - Len(a)]
  BY <1>2, ConcatProperties
<1>4. Len(a) \in Nat /\ Len(b) \in Nat
  BY <1>2, LenProperties
<1>5. ListsOf(ControllersOf(a), S) /\ ListsOf(ControllersOf(b), T)
  BY DEF NodesOf
<1> DEFINE q == ControllersOf(a)
           r == ControllersOf(b)
           w == ControllersOf(a \o b)
<1>6. /\ q \in Seq(Seq(S)) /\ Len(q) = Len(a) /\ \A i \in 1 .. Len(a) : q[i] = a[i].controllers
      /\ r \in Seq(Seq(T)) /\ Len(r) = Len(b) /\ \A i \in 1 .. Len(b) : r[i] = b[i].controllers
  BY <1>4, <1>5 DEF ListsOf, ControllersOf
<1> DEFINE W == Seq(S) \cup Seq(T)
<1>7. q \in Seq(W) /\ r \in Seq(W)
  BY <1>6, SeqMonotonic
<1>8. /\ q \o r \in Seq(W) /\ Len(q \o r) = Len(q) + Len(r)
      /\ \A i \in 1 .. Len(q) + Len(r) : (q \o r)[i] = IF i <= Len(q) THEN q[i] ELSE r[i - Len(q)]
  BY <1>7, ConcatProperties
<1>9. w = [i \in 1 .. Len(a) + Len(b) |-> (a \o b)[i].controllers]
  BY <1>3 DEF ControllersOf
<1>10. q \o r = [i \in 1 .. Len(a) + Len(b) |-> (q \o r)[i]]
  <2> HIDE DEF W
  <2>1. DOMAIN (q \o r) = 1 .. Len(a) + Len(b) /\ q \o r \in [1 .. Len(a) + Len(b) -> W]
    BY <1>6, <1>8, LenProperties
  <2> HIDE DEF q, r
  <2> QED BY <2>1
<1> HIDE DEF q, r
<1>11. \A i \in 1 .. Len(a) + Len(b) : (a \o b)[i].controllers = (q \o r)[i]
  <2> SUFFICES ASSUME NEW i \in 1 .. Len(a) + Len(b) PROVE (a \o b)[i].controllers = (q \o r)[i]
    OBVIOUS
  <2>1. CASE i <= Len(a)
    <3>1. i \in 1 .. Len(a)
      BY <1>4, <2>1
    <3>2. (a \o b)[i] = a[i] /\ (q \o r)[i] = q[i]
      BY <1>3, <1>6, <1>8, <2>1
    <3> QED BY <1>6, <3>1, <3>2
  <2>2. CASE ~(i <= Len(a))
    <3>1. i - Len(a) \in 1 .. Len(b)
      BY <1>4, <2>2
    <3>2. (a \o b)[i] = b[i - Len(a)] /\ (q \o r)[i] = r[i - Len(a)]
      BY <1>3, <1>6, <1>8, <2>2
    <3> QED BY <1>6, <3>1, <3>2
  <2> QED BY <2>1, <2>2
<1>12. w = q \o r
  BY <1>9, <1>10, <1>11
<1>13. ListsOf(q \o r, S \cup T)
  BY <1>5, ListsOfConcat DEF q, r
<1>14. ListsOf(ControllersOf(a \o b), S \cup T)
  BY <1>12, <1>13
<1> QED BY <1>3, <1>14 DEF NodesOf

(* Nodes of one controller each. *)
LEMMA SingleNodes ==
  ASSUME NEW class, NEW type, NEW a \in Nat, NEW n \in Nat
  PROVE  NodesOf([k \in 1 .. n |-> ChiNode(class, type, <<a + k - 1>>)], V(type, a, a + n))
<1> DEFINE S == V(type, a, a + n)
           e(k) == ChiNode(class, type, <<a + k - 1>>)
           ns == [k \in 1 .. n |-> e(k)]
           one(k) == <<Controller(type, a + k - 1)>>
           q == [k \in 1 .. n |-> one(k)]
<1>1. ns \in Seq({e(k) : k \in 1 .. n}) /\ Len(ns) = n
  <2> HIDE DEF e
  <2> DEFINE N == {e(k) : k \in 1 .. n}
  <2>1. \A k \in 1 .. n : e(k) \in N
    OBVIOUS
  <2>2. ns \in Seq(N)
    <3> HIDE DEF N
    <3> QED BY <2>1, IsASeq
  <2> QED BY <2>2
<1>2. \A k \in 1 .. n : e(k).controllers = one(k)
  <2> SUFFICES ASSUME NEW k \in 1 .. n PROVE e(k).controllers = one(k)
    OBVIOUS
  <2>1. DOMAIN <<a + k - 1>> = 1 .. 1
    OBVIOUS
  <2>2. e(k).controllers = [j \in 1 .. 1 |-> Controller(type, <<a + k - 1>>[j])]
    BY <2>1 DEF ChiNode
  <2>3. [j \in 1 .. 1 |-> Controller(type, <<a + k - 1>>[j])] = <<Controller(type, a + k - 1)>>
    OBVIOUS
  <2> QED BY <2>2, <2>3
<1>3. ControllersOf(ns) = q
  <2> HIDE DEF e, one
  <2> QED BY <1>1, <1>2 DEF ControllersOf
<1>4. \A k \in 1 .. n : one(k) \in Seq(S) /\ Len(one(k)) = 1 /\ one(k)[1] = Controller(type, a + k - 1)
  <2> SUFFICES ASSUME NEW k \in 1 .. n PROVE one(k) \in Seq(S) /\ Len(one(k)) = 1 /\ one(k)[1] = Controller(type, a + k - 1)
    OBVIOUS
  <2>1. a + k - 1 \in a .. a + n - 1
    OBVIOUS
  <2>2. Controller(type, a + k - 1) \in S
    BY <2>1 DEF V
  <2> HIDE DEF S
  <2> QED BY <2>2
<1>5. q \in Seq(Seq(S)) /\ Len(q) = n /\ \A k \in 1 .. n : q[k] = one(k)
  <2> HIDE DEF S, one
  <2>1. q \in Seq(Seq(S))
    BY <1>4, IsASeq
  <2> QED BY <2>1
<1> HIDE DEF one, q
<1>6. ASSUME NEW x \in S PROVE \E i \in 1 .. Len(q) : \E k \in 1 .. Len(q[i]) : q[i][k] = x
  <2>1. PICK w \in a .. a + n - 1 : x = Controller(type, w)
    BY DEF V
  <2>2. w - a + 1 \in 1 .. n /\ a + (w - a + 1) - 1 = w /\ 1 \in 1 .. 1
    OBVIOUS
  <2>3. q[w - a + 1][1] = x /\ Len(q[w - a + 1]) = 1
    BY <1>4, <1>5, <2>1, <2>2
  <2> QED BY <1>5, <2>2, <2>3
<1>7. ASSUME NEW i \in 1 .. Len(q), NEW j \in 1 .. Len(q), NEW k \in 1 .. Len(q[i]), NEW l \in 1 .. Len(q[j]),
             q[i][k] = q[j][l]
      PROVE  i = j /\ k = l
  <2>1. i \in 1 .. n /\ j \in 1 .. n /\ k = 1 /\ l = 1
    <3>1. i \in 1 .. n /\ j \in 1 .. n
      BY <1>5
    <3>2. Len(q[i]) = 1 /\ Len(q[j]) = 1
      BY <1>4, <1>5, <3>1
    <3>3. k \in 1 .. 1 /\ l \in 1 .. 1
      BY <3>2
    <3> QED BY <3>1, <3>3
  <2>2. a + i - 1 = a + j - 1
    BY <1>4, <1>5, <1>7, <2>1, VersionsApart
  <2> QED BY <2>1, <2>2
<1>8. ListsOf(q, S)
  <2> HIDE DEF S
  <2> QED BY <1>5, <1>6, <1>7 DEF ListsOf
<1> HIDE DEF S
<1>9. NodesOf(ns, S)
  <2> HIDE DEF ns, e
  <2>1. \E N : ns \in Seq(N)
    BY <1>1
  <2> QED BY <1>3, <1>8, <2>1 DEF NodesOf
<1> QED BY <1>9 DEF S

(* The nodes of CPUs, whose second caches are numbered after all first ones. *)
LEMMA CpuNodes ==
  ASSUME NEW c, c.cpus \in Nat
  PROVE  NodesOf(CHI_RNF(c), V("Cache", 0, 3 * c.cpus))
<1> DEFINE n == c.cpus
           S == V("Cache", 0, 3 * n)
           at(k, j) == IF j = 1 THEN 2 * k - 2 ELSE IF j = 2 THEN 2 * k - 1 ELSE 2 * n + k - 1
           e(k) == ChiNode("RNF", "Cache", <<2 * k - 2, 2 * k - 1, 2 * n + k - 1>>)
           row(k) == [j \in 1 .. 3 |-> Controller("Cache", at(k, j))]
           q == [k \in 1 .. n |-> row(k)]
<1>0. n \in Nat
  OBVIOUS
<1>1. CHI_RNF(c) = [k \in 1 .. n |-> e(k)]
  BY DEF CHI_RNF
<1>2. CHI_RNF(c) \in Seq({e(k) : k \in 1 .. n}) /\ Len(CHI_RNF(c)) = n
  <2> HIDE DEF e, n
  <2> DEFINE N == {e(k) : k \in 1 .. n}
  <2>1. \A k \in 1 .. n : e(k) \in N
    OBVIOUS
  <2>2. [k \in 1 .. n |-> e(k)] \in Seq(N)
    <3> HIDE DEF N
    <3> QED BY <1>0, <2>1, IsASeq
  <2> QED BY <1>0, <1>1, <2>2
<1>3. \A k \in 1 .. n : e(k).controllers = row(k)
  <2> SUFFICES ASSUME NEW k \in 1 .. n PROVE e(k).controllers = row(k)
    OBVIOUS
  <2> DEFINE three == <<2 * k - 2, 2 * k - 1, 2 * n + k - 1>>
  <2>1. DOMAIN three = 1 .. 3 /\ \A j \in 1 .. 3 : three[j] = at(k, j)
    OBVIOUS
  <2>2. e(k).controllers = [j \in DOMAIN three |-> Controller("Cache", three[j])]
    BY DEF ChiNode
  <2> HIDE DEF three, at
  <2> QED BY <2>1, <2>2
<1> HIDE DEF e
<1>4. ControllersOf(CHI_RNF(c)) = q
  <2> HIDE DEF row, n
  <2> QED BY <1>1, <1>2, <1>3 DEF ControllersOf
<1>5. /\ \A k \in 1 .. n : \A j \in 1 .. 3 : at(k, j) \in 0 .. 3 * n - 1
      /\ \A k, m \in 1 .. n : \A i, j \in 1 .. 3 : at(k, i) = at(m, j) => k = m /\ i = j
  <2> HIDE DEF n
  <2>1. ASSUME NEW k \in 1 .. n, NEW j \in 1 .. 3 PROVE at(k, j) \in 0 .. 3 * n - 1
    BY <1>0
  <2>2. ASSUME NEW k \in 1 .. n, NEW m \in 1 .. n, NEW i \in 1 .. 3, NEW j \in 1 .. 3, at(k, i) = at(m, j)
        PROVE  k = m /\ i = j
    BY <1>0, <2>2
  <2> QED BY <2>1, <2>2
<1>6. \A v \in 0 .. 3 * n - 1 : \E k \in 1 .. n : \E j \in 1 .. 3 : at(k, j) = v
  <2> SUFFICES ASSUME NEW v \in 0 .. 3 * n - 1 PROVE \E k \in 1 .. n : \E j \in 1 .. 3 : at(k, j) = v
    OBVIOUS
  <2> HIDE DEF n
  <2>1. CASE v < 2 * n /\ v % 2 = 0
    <3>1. v \div 2 + 1 \in 1 .. n /\ at(v \div 2 + 1, 1) = v
      BY <1>0, <2>1
    <3> HIDE DEF at
    <3> QED BY <3>1
  <2>2. CASE v < 2 * n /\ v % 2 = 1
    <3>1. v \div 2 + 1 \in 1 .. n /\ at(v \div 2 + 1, 2) = v
      BY <1>0, <2>2
    <3> HIDE DEF at
    <3> QED BY <3>1
  <2>3. CASE 2 * n <= v
    <3>1. v - 2 * n + 1 \in 1 .. n /\ at(v - 2 * n + 1, 3) = v
      BY <1>0, <2>3
    <3> HIDE DEF at
    <3> QED BY <3>1
  <2> QED BY <1>0, <2>1, <2>2, <2>3
<1> HIDE DEF at
<1>7. \A k \in 1 .. n : row(k) \in Seq(S) /\ Len(row(k)) = 3
  <2> SUFFICES ASSUME NEW k \in 1 .. n PROVE row(k) \in Seq(S) /\ Len(row(k)) = 3
    OBVIOUS
  <2> DEFINE f(j) == Controller("Cache", at(k, j))
  <2>1. \A j \in 1 .. 3 : f(j) \in S
    BY <1>5 DEF V
  <2>2. [j \in 1 .. 3 |-> f(j)] \in Seq(S)
    <3> HIDE DEF f, S
    <3> QED BY <2>1, IsASeq
  <2> QED BY <2>2
<1>8. \A k \in 1 .. n : \A j \in 1 .. 3 : row(k)[j] = Controller("Cache", at(k, j))
  OBVIOUS
<1> HIDE DEF row
<1>9. q \in Seq(Seq(S)) /\ Len(q) = n /\ \A k \in 1 .. n : q[k] = row(k)
  <2> HIDE DEF S, n
  <2>1. q \in Seq(Seq(S))
    BY <1>0, <1>7, IsASeq
  <2> QED BY <1>0, <2>1
<1> HIDE DEF q
<1>10. ASSUME NEW x \in S PROVE \E i \in 1 .. Len(q) : \E k \in 1 .. Len(q[i]) : q[i][k] = x
  <2>1. PICK v \in 0 .. 3 * n - 1 : x = Controller("Cache", v)
    BY <1>10 DEF V
  <2>2. PICK k \in 1 .. n : \E j \in 1 .. 3 : at(k, j) = v
    BY <1>6, <2>1
  <2>3. PICK j \in 1 .. 3 : at(k, j) = v
    BY <2>2
  <2>4. q[k][j] = x /\ k \in 1 .. Len(q) /\ j \in 1 .. Len(q[k])
    BY <1>7, <1>8, <1>9, <2>1, <2>3
  <2> QED BY <2>4
<1>11. ASSUME NEW i \in 1 .. Len(q), NEW j \in 1 .. Len(q), NEW k \in 1 .. Len(q[i]), NEW l \in 1 .. Len(q[j]),
             q[i][k] = q[j][l]
      PROVE  i = j /\ k = l
  <2> HIDE DEF n
  <2>1. i \in 1 .. n /\ j \in 1 .. n /\ k \in 1 .. 3 /\ l \in 1 .. 3
    BY <1>7, <1>9
  <2>2. at(i, k) = at(j, l)
    BY <1>8, <1>9, <1>11, <2>1, VersionsApart
  <2> QED BY <1>5, <2>1, <2>2
<1>12. ListsOf(q, S)
  <2> HIDE DEF S
  <2> QED BY <1>9, <1>10, <1>11 DEF ListsOf
<1> QED BY <1>2, <1>4, <1>12 DEF NodesOf

LEMMA OneNode ==
  ASSUME NEW class, NEW type, NEW a \in Nat
  PROVE  NodesOf(<<ChiNode(class, type, <<a>>)>>, V(type, a, a + 1))
<1>1. [k \in 1 .. 1 |-> ChiNode(class, type, <<a + k - 1>>)] = <<ChiNode(class, type, <<a>>)>>
  <2>1. \A k \in 1 .. 1 : a + k - 1 = a
    OBVIOUS
  <2>2. [k \in 1 .. 1 |-> ChiNode(class, type, <<a + k - 1>>)] = [k \in 1 .. 1 |-> ChiNode(class, type, <<a>>)]
    BY <2>1
  <2>3. [k \in 1 .. 1 |-> ChiNode(class, type, <<a>>)] = <<ChiNode(class, type, <<a>>)>>
    OBVIOUS
  <2> QED BY <2>2, <2>3
<1> QED BY <1>1, SingleNodes

(* Nodes in a loop, with or without one more for boot memory or io. *)
LEMMA NodesAndOne ==
  ASSUME NEW class, NEW other, NEW type, NEW a \in Nat, NEW n \in Nat
  PROVE  LET loop == [k \in 1 .. n |-> ChiNode(class, type, <<a + k - 1>>)]
         IN /\ NodesOf(loop \o <<>>, V(type, a, a + n))
            /\ NodesOf(loop \o <<ChiNode(other, type, <<a + n>>)>>, V(type, a, a + n + 1))
<1> DEFINE loop == [k \in 1 .. n |-> ChiNode(class, type, <<a + k - 1>>)]
<1>1. NodesOf(loop, V(type, a, a + n))
  BY SingleNodes
<1> HIDE DEF loop
<1>2. loop \o <<>> = loop
  BY <1>1, ConcatEmptySeq DEF NodesOf
<1>3. NodesOf(<<ChiNode(other, type, <<a + n>>)>>, V(type, a + n, a + n + 1))
  BY OneNode
<1>4. /\ V(type, a, a + n) \cup V(type, a + n, a + n + 1) = V(type, a, a + n + 1)
      /\ V(type, a, a + n) \cap V(type, a + n, a + n + 1) = {}
  BY VersionsJoin
<1>5. NodesOf(loop \o <<ChiNode(other, type, <<a + n>>)>>, V(type, a, a + n + 1))
  BY <1>1, <1>3, <1>4, NodesConcat
<1>6. NodesOf(loop \o <<>>, V(type, a, a + n))
  BY <1>1, <1>2
<1> QED BY <1>5, <1>6 DEF loop

LEMMA ChiNodes ==
  ASSUME NEW c, Counted(c)
  PROVE  \E S : NodesOf(CHI(c), S) /\ Contiguous(S)
<1> DEFINE n == 3 * c.cpus
           first == n + c.l3s
           last == first + Ports(c)
           A == V("Cache", 0, n)
           B == V("Cache", n, first)
           D == V("Memory", 0, Dirs(c))
           E == V("Cache", first, last)
<1>1. c.cpus \in Nat /\ c.l3s \in Nat /\ c.dirs \in Nat /\ c.dmas \in Nat
  BY DEF Counted
<1>2. n \in Nat /\ first \in Nat /\ last \in Nat /\ n <= first /\ first <= last /\ Dirs(c) \in Nat
  BY <1>1 DEF Dirs, Ports
<1>3. NodesOf(CHI_RNF(c), A)
  BY <1>1, CpuNodes
<1>4. NodesOf(CHI_HNF(c), B)
  <2>1. 3 * c.cpus \in Nat
    BY <1>1
  <2> QED BY <1>1, <2>1, SingleNodes DEF CHI_HNF
<1>5. NodesOf(CHI_SNF(c), D)
  <2>1. [k \in 1 .. c.dirs |-> ChiNode("SNF_MainMem", "Memory", <<k - 1>>)]
          = [k \in 1 .. c.dirs |-> ChiNode("SNF_MainMem", "Memory", <<0 + k - 1>>)]
    OBVIOUS
  <2>2. 0 + c.dirs = c.dirs /\ 0 + c.dirs + 1 = c.dirs + 1 /\ 0 \in Nat
    BY <1>1
  <2> DEFINE loop == [k \in 1 .. c.dirs |-> ChiNode("SNF_MainMem", "Memory", <<0 + k - 1>>)]
  <2>3. /\ NodesOf(loop \o <<>>, V("Memory", 0, 0 + c.dirs))
        /\ NodesOf(loop \o <<ChiNode("SNF_BootMem", "Memory", <<0 + c.dirs>>)>>, V("Memory", 0, 0 + c.dirs + 1))
    BY <1>1, <2>2, NodesAndOne
  <2>4. CHI_SNF(c) = loop \o (IF c.boot THEN <<ChiNode("SNF_BootMem", "Memory", <<c.dirs>>)>> ELSE <<>>)
    BY <2>1 DEF CHI_SNF
  <2> HIDE DEF loop
  <2>5. CASE c.boot
    BY <2>2, <2>3, <2>4, <2>5 DEF Dirs
  <2>6. CASE ~c.boot
    BY <2>2, <2>3, <2>4, <2>6 DEF Dirs
  <2> QED BY <2>5, <2>6
<1>6. NodesOf(CHI_RNI(c), E)
  <2> DEFINE loop == [k \in 1 .. c.dmas |-> ChiNode("RNI_DMA", "Cache", <<first + k - 1>>)]
  <2>1. CHI_RNI(c) = loop \o (IF c.full THEN <<ChiNode("RNI_IO", "Cache", <<first + c.dmas>>)>> ELSE <<>>)
    BY DEF CHI_RNI
  <2> HIDE DEF first
  <2>2. /\ NodesOf(loop \o <<>>, V("Cache", first, first + c.dmas))
        /\ NodesOf(loop \o <<ChiNode("RNI_IO", "Cache", <<first + c.dmas>>)>>, V("Cache", first, first + c.dmas + 1))
    BY <1>1, <1>2, NodesAndOne
  <2> HIDE DEF loop
  <2>3. CASE c.full
    <3>1. last = first + c.dmas + 1
      BY <1>1, <1>2, <2>3 DEF Ports
    <3> HIDE DEF last
    <3> QED BY <2>1, <2>2, <2>3, <3>1
  <2>4. CASE ~c.full
    BY <2>1, <2>2, <2>4 DEF Ports
  <2> QED BY <2>3, <2>4
<1> HIDE DEF n, first, last
<1>7. A \cup B = V("Cache", 0, first) /\ A \cap B = {}
  <2>1. 0 \in Nat /\ 0 <= n
    BY <1>2
  <2> QED BY <1>2, <2>1, VersionsJoin
<1>8. V("Cache", 0, first) \cup E = V("Cache", 0, last) /\ V("Cache", 0, first) \cap E = {}
  <2>1. 0 \in Nat /\ 0 <= first
    BY <1>2
  <2> QED BY <1>2, <2>1, VersionsJoin
<1>9. /\ \A x \in A \cup B : x.type = "Cache"
      /\ \A x \in D : x.type = "Memory"
      /\ \A x \in E : x.type = "Cache"
  BY VersionsOf
<1> HIDE DEF A, B, D, E
<1>10. NodesOf(CHI_RNF(c) \o CHI_HNF(c), A \cup B)
  BY <1>3, <1>4, <1>7, NodesConcat
<1>11. NodesOf(CHI_RNF(c) \o CHI_HNF(c) \o CHI_SNF(c), (A \cup B) \cup D)
  <2>1. (A \cup B) \cap D = {}
    BY <1>9
  <2> QED BY <1>5, <1>10, <2>1, NodesConcat
<1>12. NodesOf(CHI(c), ((A \cup B) \cup D) \cup E)
  <2>1. ((A \cup B) \cup D) \cap E = {}
    BY <1>7, <1>8, <1>9
  <2> QED BY <1>6, <1>11, <2>1, NodesConcat DEF CHI
<1>13. ((A \cup B) \cup D) \cup E = V("Cache", 0, last) \cup D
  BY <1>7, <1>8
<1>14. Contiguous(V("Cache", 0, last) \cup D)
  <2>1. Contiguous(V("Cache", 0, last)) /\ \A x \in V("Cache", 0, last) : x.type # "Memory"
    BY <1>2, ContiguousOne, VersionsOf
  <2> QED BY <1>2, <2>1, ContiguousMore DEF D
<1> QED BY <1>12, <1>13, <1>14

LEMMA ChiIsInLine ==
  ASSUME NEW c, Counted(c)
  PROVE  InLine(FlattenSeq(ControllersOf(CHI(c))))
<1>1. PICK S : NodesOf(CHI(c), S) /\ Contiguous(S)
  BY ChiNodes
<1>2. Lists(FlattenSeq(ControllersOf(CHI(c))), S)
  BY <1>1, ListsFlatten DEF NodesOf
<1> QED BY <1>1, <1>2 DEF InLine, Line

(* The command processors: a TCP and an SQC each. *)
LEMMA CommandProcessors ==
  ASSUME NEW c, Counted(c)
  PROVE  Lists(construct_cmdprocs(c),
               V("TCP", c.cus, c.cus + c.cps) \cup V("SQC", c.sqcs + c.scalars, c.sqcs + c.scalars + c.cps))
<1> DEFINE n == c.cps
           a == c.cus
           b == c.sqcs + c.scalars
           S == V("TCP", a, a + n) \cup V("SQC", b, b + n)
           row(k) == <<Controller("TCP", a + k - 1), Controller("SQC", b + k - 1)>>
           q == [k \in 1 .. n |-> row(k)]
<1>1. n \in Nat /\ a \in Nat /\ b \in Nat
  BY DEF Counted
<1>2. construct_cmdprocs(c) = FlattenSeq(q)
  BY DEF construct_cmdprocs
<1> HIDE DEF n, a, b
<1>3. \A k \in 1 .. n : row(k) \in Seq(S)
  <2> SUFFICES ASSUME NEW k \in 1 .. n PROVE row(k) \in Seq(S)
    OBVIOUS
  <2>1. a + k - 1 \in a .. a + n - 1 /\ b + k - 1 \in b .. b + n - 1
    BY <1>1
  <2>2. Controller("TCP", a + k - 1) \in S /\ Controller("SQC", b + k - 1) \in S
    BY <1>1, <2>1, InVersions
  <2> HIDE DEF S
  <2> QED BY <2>2
<1>4. \A k \in 1 .. n : Len(row(k)) = 2 /\ row(k)[1] = Controller("TCP", a + k - 1) /\ row(k)[2] = Controller("SQC", b + k - 1)
  OBVIOUS
<1> HIDE DEF row
<1>5. q \in Seq(Seq(S)) /\ Len(q) = n /\ \A k \in 1 .. n : q[k] = row(k)
  <2> HIDE DEF S
  <2>1. q \in Seq(Seq(S))
    BY <1>1, <1>3, IsASeq
  <2> QED BY <1>1, <2>1
<1> HIDE DEF q
<1>6. ASSUME NEW x \in S PROVE \E i \in 1 .. Len(q) : \E k \in 1 .. Len(q[i]) : q[i][k] = x
  <2>1. CASE x \in V("TCP", a, a + n)
    <3>1. PICK v \in a .. a + n - 1 : x = Controller("TCP", v)
      BY <1>1, <2>1, VersionsOf
    <3>2. v - a + 1 \in 1 .. n /\ a + (v - a + 1) - 1 = v /\ 1 \in 1 .. 2
      BY <1>1
    <3>3. q[v - a + 1][1] = x /\ Len(q[v - a + 1]) = 2
      BY <1>4, <1>5, <3>1, <3>2
    <3> QED BY <1>5, <3>2, <3>3
  <2>2. CASE x \in V("SQC", b, b + n)
    <3>1. PICK v \in b .. b + n - 1 : x = Controller("SQC", v)
      BY <1>1, <2>2, VersionsOf
    <3>2. v - b + 1 \in 1 .. n /\ b + (v - b + 1) - 1 = v /\ 2 \in 1 .. 2
      BY <1>1
    <3>3. q[v - b + 1][2] = x /\ Len(q[v - b + 1]) = 2
      BY <1>4, <1>5, <3>1, <3>2
    <3> QED BY <1>5, <3>2, <3>3
  <2> QED BY <1>6, <2>1, <2>2
<1>7. ASSUME NEW i \in 1 .. Len(q), NEW j \in 1 .. Len(q), NEW k \in 1 .. Len(q[i]), NEW l \in 1 .. Len(q[j]),
             q[i][k] = q[j][l]
      PROVE  i = j /\ k = l
  <2>1. i \in 1 .. n /\ j \in 1 .. n
    BY <1>5
  <2>2. Len(q[i]) = 2 /\ Len(q[j]) = 2
    BY <1>4, <1>5, <2>1
  <2>3. k \in {1, 2} /\ l \in {1, 2}
    BY <2>2
  <2>4. /\ q[i][1] = Controller("TCP", a + i - 1) /\ q[i][2] = Controller("SQC", b + i - 1)
        /\ q[j][1] = Controller("TCP", a + j - 1) /\ q[j][2] = Controller("SQC", b + j - 1)
    BY <1>4, <1>5, <2>1
  <2>5. \A v, w : Controller("TCP", v) # Controller("SQC", w)
    BY DEF Controller
  <2>6. CASE k = 1 /\ l = 1
    <3>1. a + i - 1 = a + j - 1
      BY <1>7, <2>4, <2>6, VersionsApart
    <3> QED BY <1>1, <2>1, <2>6, <3>1
  <2>7. CASE k = 2 /\ l = 2
    <3>1. b + i - 1 = b + j - 1
      BY <1>7, <2>4, <2>7, VersionsApart
    <3> QED BY <1>1, <2>1, <2>7, <3>1
  <2> QED BY <1>7, <2>3, <2>4, <2>5, <2>6, <2>7
<1>8. ListsOf(q, S)
  <2> HIDE DEF S
  <2> QED BY <1>5, <1>6, <1>7 DEF ListsOf
<1>9. Lists(FlattenSeq(q), S)
  <2> HIDE DEF S
  <2> QED BY <1>8, ListsFlatten
<1> QED BY <1>2, <1>9 DEF S, n, a, b

LEMMA GpuIsInLine ==
  ASSUME NEW c, Counted(c)
  PROVE  InLine(construct_dirs(c) \o construct_corepairs(c)
                  \o (construct_tcps(c) \o construct_sqcs(c) \o construct_scalars(c)
                        \o construct_cmdprocs(c) \o construct_tccs(c) \o Numbered("DMA", c.dmas)))
<1> DEFINE t == c.cus
           q == c.sqcs
           m == q + c.scalars
           A == V("TCP", 0, t)
           B == V("SQC", 0, q)
           C == V("SQC", q, m)
           T == V("TCP", t, t + c.cps)
           Q == V("SQC", m, m + c.cps)
           E == V("TCC", 0, c.tccs)
           F == V("DMA", 0, c.dmas)
           D == V("Directory", 0, c.dirs)
           P == V("CorePair", 0, (c.cpus + 1) \div 2)
<1>1. /\ c.cpus \in Nat /\ c.dirs \in Nat /\ c.dmas \in Nat /\ c.cus \in Nat /\ c.sqcs \in Nat
      /\ c.scalars \in Nat /\ c.cps \in Nat /\ c.tccs \in Nat
  BY DEF Counted
<1>2. (c.cpus + 1) \div 2 \in Nat
  BY <1>1
<1>3. /\ t \in Nat /\ q \in Nat /\ m \in Nat /\ t + c.cps \in Nat /\ m + c.cps \in Nat
      /\ 0 <= t /\ t <= t + c.cps /\ 0 <= q /\ q <= m /\ m <= m + c.cps /\ 0 <= m
  BY <1>1
<1>4. /\ Lists(construct_tcps(c), A) /\ Lists(construct_sqcs(c), B) /\ Lists(construct_tccs(c), E)
      /\ Lists(Numbered("DMA", c.dmas), F) /\ Lists(construct_dirs(c), D)
  BY <1>1, ListsNumbered DEF construct_tcps, construct_sqcs, construct_tccs, construct_dirs
<1>5. Lists(construct_corepairs(c), P)
  BY <1>2, ListsNumbered DEF construct_corepairs
<1>6. Lists(construct_scalars(c), C)
  BY <1>1, ListsLoop DEF construct_scalars
<1>7. Lists(construct_cmdprocs(c), T \cup Q)
  BY CommandProcessors
<1>8. /\ A \cup T = V("TCP", 0, t + c.cps) /\ A \cap T = {}
      /\ B \cup C = V("SQC", 0, m) /\ B \cap C = {}
      /\ V("SQC", 0, m) \cup Q = V("SQC", 0, m + c.cps) /\ V("SQC", 0, m) \cap Q = {}
  <2> HIDE DEF t, q, m
  <2>1. 0 \in Nat
    OBVIOUS
  <2>2. A \cup T = V("TCP", 0, t + c.cps) /\ A \cap T = {}
    BY <1>3, <2>1, VersionsJoin
  <2>3. B \cup C = V("SQC", 0, m) /\ B \cap C = {}
    BY <1>3, <2>1, VersionsJoin
  <2>4. V("SQC", 0, m) \cup Q = V("SQC", 0, m + c.cps) /\ V("SQC", 0, m) \cap Q = {}
    BY <1>3, <2>1, VersionsJoin
  <2> QED BY <2>2, <2>3, <2>4
<1>9. /\ \A x \in A \cup T : x.type = "TCP"
      /\ \A x \in B \cup C \cup Q : x.type = "SQC"
      /\ \A x \in E : x.type = "TCC"
      /\ \A x \in F : x.type = "DMA"
      /\ \A x \in D : x.type = "Directory"
      /\ \A x \in P : x.type = "CorePair"
  BY VersionsOf
<1> HIDE DEF A, B, C, T, Q, E, F, D, P
<1>10. Lists(construct_tcps(c) \o construct_sqcs(c), A \cup B)
  <2>1. A \cap B = {}
    BY <1>9
  <2> QED BY <1>4, <2>1, ListsConcat
<1>11. Lists(construct_tcps(c) \o construct_sqcs(c) \o construct_scalars(c), (A \cup B) \cup C)
  <2>1. (A \cup B) \cap C = {}
    BY <1>8, <1>9
  <2> QED BY <1>6, <1>10, <2>1, ListsConcat
<1>12. Lists(construct_tcps(c) \o construct_sqcs(c) \o construct_scalars(c) \o construct_cmdprocs(c),
             ((A \cup B) \cup C) \cup (T \cup Q))
  <2>1. ((A \cup B) \cup C) \cap (T \cup Q) = {}
    BY <1>8, <1>9
  <2> QED BY <1>7, <1>11, <2>1, ListsConcat
<1>13. ((A \cup B) \cup C) \cup (T \cup Q) = (A \cup T) \cup ((B \cup C) \cup Q)
  OBVIOUS
<1> DEFINE G == (A \cup T) \cup ((B \cup C) \cup Q)
<1>14. \A x \in G : x.type \in {"TCP", "SQC"}
  BY <1>9
<1>15. Contiguous(G)
  <2> HIDE DEF t, q, m
  <2>1. Contiguous(A \cup T)
    <3>1. Contiguous(V("TCP", 0, t + c.cps))
      BY <1>3, ContiguousOne
    <3> QED BY <1>8, <3>1
  <2>2. (B \cup C) \cup Q = V("SQC", 0, m + c.cps)
    BY <1>8
  <2>3. \A x \in A \cup T : x.type # "SQC"
    BY <1>9
  <2> QED BY <1>3, <2>1, <2>2, <2>3, ContiguousMore
<1> DEFINE gpu == construct_tcps(c) \o construct_sqcs(c) \o construct_scalars(c)
                     \o construct_cmdprocs(c) \o construct_tccs(c) \o Numbered("DMA", c.dmas)
<1>16. Lists(gpu, (G \cup E) \cup F)
  <2>1. Lists(construct_tcps(c) \o construct_sqcs(c) \o construct_scalars(c) \o construct_cmdprocs(c), G)
    BY <1>12, <1>13
  <2>2. G \cap E = {} /\ (G \cup E) \cap F = {}
    BY <1>9, <1>14
  <2> HIDE DEF G
  <2>3. Lists(construct_tcps(c) \o construct_sqcs(c) \o construct_scalars(c) \o construct_cmdprocs(c)
                \o construct_tccs(c), G \cup E)
    BY <1>4, <2>1, <2>2, ListsConcat
  <2> QED BY <1>4, <2>2, <2>3, ListsConcat
<1>17. Contiguous((G \cup E) \cup F)
  <2>1. /\ \A x \in G : x.type # "TCC"
        /\ \A x \in G \cup E : x.type # "DMA"
    BY <1>9, <1>14
  <2> HIDE DEF G
  <2>2. Contiguous(G \cup E)
    BY <1>1, <1>15, <2>1, ContiguousMore DEF E
  <2> QED BY <1>1, <2>1, <2>2, ContiguousMore DEF F
<1> HIDE DEF gpu
<1>18. Lists(construct_dirs(c) \o construct_corepairs(c), D \cup P)
  <2>1. D \cap P = {}
    BY <1>9
  <2> QED BY <1>4, <1>5, <2>1, ListsConcat
<1>19. \A x \in (G \cup E) \cup F : x.type \in {"TCP", "SQC", "TCC", "DMA"}
  BY <1>9, <1>14
<1> DEFINE H == (G \cup E) \cup F
<1> HIDE DEF G
<1>20. Lists(construct_dirs(c) \o construct_corepairs(c) \o gpu, (D \cup P) \cup H)
  <2>1. (D \cup P) \cap H = {}
    BY <1>9, <1>19
  <2> HIDE DEF H
  <2>2. Lists(gpu, H)
    BY <1>16 DEF H
  <2> QED BY <1>18, <2>1, <2>2, ListsConcat
<1>21. Contiguous((H \cup D) \cup P)
  <2>1. /\ \A x \in H : x.type # "Directory"
        /\ \A x \in H \cup D : x.type # "CorePair"
    BY <1>9, <1>19
  <2> HIDE DEF H
  <2>2. Contiguous(H)
    BY <1>17 DEF H
  <2>3. Contiguous(H \cup D)
    BY <1>1, <2>1, <2>2, ContiguousMore DEF D
  <2> QED BY <1>2, <2>1, <2>3, ContiguousMore DEF P
<1>22. (D \cup P) \cup H = (H \cup D) \cup P
  <2> HIDE DEF H
  <2> QED OBVIOUS
<1>23. Line(construct_dirs(c) \o construct_corepairs(c) \o gpu, (D \cup P) \cup H)
  <2> HIDE DEF H
  <2> QED BY <1>20, <1>21, <1>22 DEF Line
<1> QED BY <1>23 DEF InLine, gpu

LEMMA GpuFlat ==
  ASSUME NEW c, Counted(c), c.protocol = "GPU_VIPER"
  PROVE  InLine(Flat(c))
<1> DEFINE gpu == construct_tcps(c) \o construct_sqcs(c) \o construct_scalars(c)
                    \o construct_cmdprocs(c) \o construct_tccs(c) \o Numbered("DMA", c.dmas)
           main == GPU_VIPER(c)
<1>1. /\ main.controllers = construct_dirs(c)
      /\ main.clusters[1].controllers = construct_corepairs(c)
      /\ main.clusters[2].controllers = gpu
  BY DEF GPU_VIPER, ClusterOf
<1>2. Flat(c) = main.controllers \o main.clusters[1].controllers \o main.clusters[2].controllers
  BY DEF Flat
<1> HIDE DEF main, gpu
<1>3. Flat(c) = construct_dirs(c) \o construct_corepairs(c) \o gpu
  BY <1>1, <1>2
<1> QED BY <1>3, GpuIsInLine DEF gpu

LEMMA FlatIsInLine ==
  ASSUME NEW c \in Configs, c.protocol # "classic", ~Refused(c)
  PROVE  InLine(Flat(c))
<1>1. Counted(c) /\ c.protocol \in Protocols
  BY ConfigAssumption DEF Counted
<1>2. CASE c.protocol = "CHI"
  <2>1. Flat(c) = FlattenSeq(ControllersOf(CHI(c)))
    BY <1>2 DEF Flat, ControllersOf
  <2> QED BY <1>1, <2>1, ChiIsInLine
<1>3. CASE c.protocol = "GPU_VIPER"
  BY <1>1, <1>3, GpuFlat
<1>4. CASE c.protocol \notin {"CHI", "GPU_VIPER"}
  <2>1. Flat(c) = Nodes(c)
    BY <1>4 DEF Flat
  <2>2. CASE c.protocol = "MI_example"
    BY <1>1, <2>1, <2>2, OneLevel DEF Nodes
  <2>3. CASE c.protocol = "MOESI_hammer"
    BY <1>1, <2>1, <2>3, OneLevel DEF Nodes
  <2>4. CASE c.protocol = "Garnet_standalone"
    BY <1>1, <2>1, <2>4, OneLevel DEF Nodes
  <2>5. CASE c.protocol = "MESI_Two_Level"
    BY <1>1, <2>1, <2>5, TwoLevels DEF Nodes
  <2>6. CASE c.protocol = "MOESI_CMP_directory"
    BY <1>1, <2>1, <2>6, TwoLevels DEF Nodes
  <2>7. CASE c.protocol = "MOESI_CMP_token"
    BY <1>1, <2>1, <2>7, TwoLevels DEF Nodes
  <2>8. CASE c.protocol \in {"MESI_Three_Level", "MESI_Three_Level_HTM"}
    <3>1. c.cpus % c.clusters = 0 /\ c.l2s % c.clusters = 0
      BY <2>8 DEF Refused
    <3>2. Nodes(c) = MESI_Three_Level(c)
      BY <2>8 DEF Nodes, MESI_Three_Level_HTM
    <3> QED BY <1>1, <2>1, <3>1, <3>2, ThreeLevels
  <2>9. c.protocol # "MOESI_AMD_Base"
    BY DEF Refused
  <2> QED BY <1>1, <1>4, <2>2, <2>3, <2>4, <2>5, <2>6, <2>7, <2>8, <2>9 DEF Protocols
<1> QED BY <1>2, <1>3, <1>4
-----------------------------------------------------------------------------
(* What a system that runs has passed. *)
SystemInv ==
  /\ cfg \in Configs
  /\ phase \in {"controllers", "memory", "running"} /\ cfg.protocol # "classic" =>
       ~Refused(cfg) /\ nodes = Flat(cfg)
  /\ phase = "running" => /\ homes = Homes(cfg) /\ \A f \in DOMAIN homes : AllAccepted(homes[f])
                          /\ cfg.protocol = "classic" => ~ClassicRefused(cfg)

LEMMA SystemInit == Init => SystemInv
  BY DEF Init, SystemInv

LEMMA SystemStep == SystemInv /\ [Next]_vars => SystemInv'
<1> SUFFICES ASSUME SystemInv, [Next]_vars PROVE SystemInv'
  OBVIOUS
<1>1. CASE CreateControllers
  BY <1>1 DEF CreateControllers, SystemInv
<1>2. CASE MakeTopology
  BY <1>2 DEF MakeTopology, SystemInv
<1>3. CASE SetupMemory
  BY <1>3 DEF SetupMemory, SystemInv, AllAccepted
<1>4. CASE UNCHANGED <<cfg, phase, nodes, homes>>
  BY <1>4 DEF SystemInv
<1>5. CASE \E s, d \in Ends : Send(s, d)
  BY <1>4, <1>5 DEF Send
<1>6. CASE Route
  BY <1>4, <1>6 DEF Route, Deliver, Forward
<1>7. CASE UNCHANGED vars
  BY <1>4, <1>7 DEF vars
<1> QED BY <1>1, <1>2, <1>3, <1>5, <1>6, <1>7 DEF Next

LEMMA FamiliesDivide == SystemInv /\ Built => \A f \in DOMAIN homes : OneHomeIn(homes[f])
<1> SUFFICES ASSUME SystemInv, Built, NEW f \in DOMAIN homes, NEW a \in Lines(cfg)
             PROVE  Cardinality(HomesOf(homes[f], a)) = 1
  BY DEF OneHomeIn
<1>1. /\ cfg \in Configs /\ cfg.protocol # "classic" /\ ~Refused(cfg)
      /\ homes = Homes(cfg) /\ AllAccepted(homes[f])
  BY DEF SystemInv, Built
<1>2. /\ cfg.dirs \in Nat /\ cfg.l2s \in Nat /\ cfg.l3s \in Nat
      /\ cfg.protocol # "CHI" => cfg.dirs # 0 /\ cfg.l2s # 0
  BY <1>1, ConfigAssumption
<1>3. CASE cfg.protocol = "CHI"
  <2>1. homes = [memory |-> DirectoryRanges(cfg), cache |-> BankRanges(cfg, cfg.l3s)]
    BY <1>1, <1>3 DEF Homes
  <2>2. ~(cfg.dirs < 1) /\ ~(cfg.l3s < 1)
    BY <1>1, <1>3 DEF Refused
  <2>3. cfg.dirs # 0 /\ cfg.l3s \in Nat \ {0}
    BY <1>2, <2>2
  <2> QED BY <1>1, <2>1, <2>3, DirectoriesDivide, BanksDivide
<1>4. CASE cfg.protocol = "MOESI_CMP_directory"
  <2>1. homes = [memory |-> DirectoryRanges(cfg), cache |-> BankRanges(cfg, cfg.l2s)]
    BY <1>1, <1>4 DEF Homes
  <2> QED BY <1>1, <1>2, <1>4, <2>1, DirectoriesDivide, BanksDivide
<1>5. CASE cfg.protocol \notin {"CHI", "MOESI_CMP_directory"}
  <2>1. homes = [memory |-> DirectoryRanges(cfg)]
    BY <1>1, <1>5 DEF Homes
  <2> QED BY <1>1, <1>2, <1>5, <2>1, DirectoriesDivide
<1> QED BY <1>3, <1>4, <1>5

(* Whatever is interleaved or hashed, a Ruby system whose ranges gem5      *)
(* accepts has, for every line of its memories, one directory and, where   *)
(* banks have ranges, one bank (Ruby.py 98-173, MOESI_CMP_directory.py     *)
(* 113-262, CHI.py 160-176).                                               *)
THEOREM EveryLineHasOneHome == Spec => [](Built => \A f \in DOMAIN homes : OneHomeIn(homes[f]))
  BY SystemInit, SystemStep, FamiliesDivide, PTL DEF Spec

LEMMA BuiltIsContiguous == SystemInv => (Built => VersionsAreContiguous)
<1> SUFFICES ASSUME SystemInv, Built PROVE VersionsAreContiguous
  OBVIOUS
<1>1. cfg \in Configs /\ cfg.protocol # "classic" /\ ~Refused(cfg) /\ nodes = Flat(cfg)
  BY DEF SystemInv, Built
<1>2. InLine(nodes)
  BY <1>1, FlatIsInLine
<1> QED BY <1>2, LineIsContiguous DEF InLine

(* gem5 numbers the controllers of a machine type from 0.  Every protocol, *)
(* for any numbers of CPUs, banks, directories, clusters and DMA ports and *)
(* with or without boot memory and io, gives each type the versions from 0 *)
(* on, each once (the loops in ruby/ and the counters they share).     *)
THEOREM ControllersAreNumbered == Spec => [](Built => VersionsAreContiguous)
  BY SystemInit, SystemStep, BuiltIsContiguous, PTL DEF Spec
-----------------------------------------------------------------------------
(* Equal parts.                                                           *)

(* Products of powers, and digits of a number. *)
LEMMA PowersAdd == \A i, j \in Nat : pow2[i + j] = pow2[i] * pow2[j]
<1> SUFFICES ASSUME NEW i \in Nat, NEW k \in Nat, pow2[i + k] # pow2[i] * pow2[k] PROVE FALSE
  OBVIOUS
<1> DEFINE T == {j \in Nat : pow2[i + j] # pow2[i] * pow2[j]}
<1>1. PICK n \in T : \A m \in T : n <= m
  <2>1. T \subseteq Nat /\ T # {}
    OBVIOUS
  <2> QED BY <2>1, LeastNumber
<1>2. n # 0
  BY <1>1, Powers
<1>3. n - 1 \in Nat /\ n - 1 \notin T
  BY <1>1, <1>2
<1>4. pow2[i + (n - 1)] = pow2[i] * pow2[n - 1]
  BY <1>3
<1>5. pow2[i + n] = 2 * pow2[i + (n - 1)] /\ pow2[n] = 2 * pow2[n - 1]
  <2>1. i + n = (i + (n - 1)) + 1 /\ n = (n - 1) + 1 /\ i + (n - 1) \in Nat
    BY <1>3
  <2> QED BY <1>3, <2>1, Powers
<1>6. pow2[i] \in Nat /\ pow2[n - 1] \in Nat
  BY <1>3, Powers
<1>7. 2 * (pow2[i] * pow2[n - 1]) = pow2[i] * (2 * pow2[n - 1])
  BY <1>6
<1> QED BY <1>1, <1>4, <1>5, <1>7

LEMMA DivDiv ==
  ASSUME NEW a \in Nat, NEW x \in Nat \ {0}, NEW y \in Nat \ {0}
  PROVE  (a \div x) \div y = a \div (x * y)
<1> DEFINE q == a \div x
           r == a % x
           p == q \div y
           s == q % y
<1>1. a = x * q + r /\ q \in Nat /\ r \in 0 .. x - 1
  BY Quotient
<1>2. q = y * p + s /\ p \in Nat /\ s \in 0 .. y - 1
  BY <1>1, Quotient
<1> HIDE DEF q, r, p, s
<1>3. a = (x * y) * p + (x * s + r)
  <2>1. a = x * (y * p + s) + r
    BY <1>1, <1>2
  <2>2. x * (y * p + s) = (x * y) * p + x * s
    BY <1>2
  <2>3. x * s \in Nat /\ (x * y) * p \in Nat
    BY <1>2
  <2>4. a = ((x * y) * p + x * s) + r
    BY <2>1, <2>2
  <2> QED BY <1>1, <2>3, <2>4
<1>4. x * s + r \in 0 .. x * y - 1 /\ x * y \in Nat \ {0}
  <2>1. s + 1 <= y /\ s + 1 \in Nat
    BY <1>2
  <2>2. x * (s + 1) <= x * y
    BY <2>1
  <2>3. x * (s + 1) = x * s + x /\ x * s \in Nat /\ x * y \in Nat
    BY <1>2
  <2> QED BY <1>1, <2>2, <2>3
<1>5. a \div (x * y) = p
  BY <1>2, <1>3, <1>4, QuotientIs
<1> QED BY <1>5 DEF p, q

(* The bits of a number above and below some place. *)
LEMMA BitsAbove ==
  ASSUME NEW a \in Nat, NEW n \in Nat, NEW i \in Nat
  PROVE  Bit(a, n + i) = Bit(a \div pow2[n], i)
<1>1. pow2[n] \in Nat \ {0} /\ pow2[i] \in Nat \ {0} /\ pow2[n + i] = pow2[n] * pow2[i]
  BY Powers, PowersAdd
<1>2. (a \div pow2[n]) \div pow2[i] = a \div (pow2[n] * pow2[i])
  BY <1>1, DivDiv
<1> QED BY <1>1, <1>2 DEF Bit

LEMMA BitsBelow ==
  ASSUME NEW n \in Nat, NEW m \in Nat, NEW k \in Nat, NEW i \in Nat, i < n
  PROVE  Bit(m * pow2[n] + k, i) = Bit(k, i)
<1> DEFINE x == pow2[i]
           y == pow2[n - i - 1]
           q == k \div x
           r == k % x
<1>1. x \in Nat \ {0} /\ y \in Nat \ {0}
  BY Powers
<1>2. pow2[n] = x * (2 * y)
  <2>1. n - i - 1 \in Nat /\ n - i = (n - i - 1) + 1 /\ n = i + (n - i) /\ n - i \in Nat
    OBVIOUS
  <2>2. pow2[n - i] = 2 * y
    BY <2>1, Powers
  <2> QED BY <2>1, <2>2, PowersAdd
<1>3. k = x * q + r /\ q \in Nat /\ r \in 0 .. x - 1
  BY <1>1, Quotient
<1> HIDE DEF x, y, q, r
<1>4. m * pow2[n] + k = x * (2 * (m * y) + q) + r
  <2>1. m * (x * (2 * y)) = x * (2 * (m * y))
    BY <1>1
  <2>2. x * (2 * (m * y) + q) = x * (2 * (m * y)) + x * q
    BY <1>1, <1>3
  <2>3. x * (2 * (m * y)) \in Nat /\ x * q \in Nat
    BY <1>1, <1>3
  <2> QED BY <1>2, <1>3, <2>1, <2>2, <2>3
<1>5. m * y \in Nat
  BY <1>1
<1>6. (m * pow2[n] + k) \div x = 2 * (m * y) + q
  BY <1>1, <1>3, <1>4, <1>5, QuotientIs
<1>7. (2 * (m * y) + q) % 2 = q % 2
  BY <1>3, <1>5
<1> QED BY <1>6, <1>7 DEF Bit, x, q

(* Numbers with the same bits. *)
LEMMA SameBits ==
  ASSUME NEW n \in Nat, NEW k \in 0 .. pow2[n] - 1, NEW m \in 0 .. pow2[n] - 1,
         \A i \in 1 .. n : Bit(k, i - 1) = Bit(m, i - 1)
  PROVE  k = m
<1> DEFINE b == [i \in 1 .. n |-> Bit(m, i - 1)]
<1>1. pow2[n] \in Nat
  BY Powers
<1>2. b \in [1 .. n -> 0 .. 1]
  <2> SUFFICES ASSUME NEW i \in 1 .. n PROVE Bit(m, i - 1) \in 0 .. 1
    OBVIOUS
  <2>1. m \in Nat /\ pow2[i - 1] \in Nat \ {0}
    BY <1>1, Powers
  <2>2. m \div pow2[i - 1] \in Nat
    BY <2>1, Quotient
  <2> QED BY <2>2 DEF Bit
<1>3. HasBits(k, b, n) /\ HasBits(m, b, n)
  BY DEF HasBits
<1> HIDE DEF b
<1> QED BY <1>2, <1>3, BitsOfOneNumber DEF OneNumber

LEMMA RemainderIs ==
  ASSUME NEW q \in Nat, NEW d \in Nat \ {0}, NEW r \in 0 .. d - 1
  PROVE  (d * q + r) % d = r
  OBVIOUS

(* A number with the digit w at a window of bits from low on. *)
At(low, bits, h, w, l) == h * pow2[low + bits] + (w * pow2[low] + l)
Digits(low, bits, h, w, l) ==
  low \in Nat /\ bits \in Nat /\ h \in Nat /\ w \in 0 .. pow2[bits] - 1 /\ l \in 0 .. pow2[low] - 1

LEMMA BitIsBit ==
  ASSUME NEW a \in Nat, NEW p \in Nat
  PROVE  Bit(a, p) \in 0 .. 1
<1>1. pow2[p] \in Nat \ {0}
  BY Powers
<1>2. a \div pow2[p] \in Nat
  BY <1>1, Quotient
<1> QED BY <1>2 DEF Bit

LEMMA DigitsOfAt ==
  ASSUME NEW low, NEW bits, NEW h, NEW w, NEW l, Digits(low, bits, h, w, l),
         NEW a, a = At(low, bits, h, w, l)
  PROVE  /\ a \in Nat
         /\ a % pow2[low] = l /\ a \div pow2[low] = h * pow2[bits] + w
         /\ a \div pow2[low + bits] = h
<1> DEFINE x == pow2[low]
           y == pow2[bits]
<1>0. low \in Nat /\ bits \in Nat /\ h \in Nat
  BY DEF Digits
<1>1. x \in Nat \ {0} /\ y \in Nat \ {0} /\ pow2[low + bits] = x * y
  BY <1>0, Powers, PowersAdd
<1>2. w \in 0 .. y - 1 /\ l \in 0 .. x - 1
  BY DEF Digits
<1> HIDE DEF x, y
<1>3. w * x \in Nat /\ h * y \in Nat /\ h * (x * y) \in Nat /\ x * y \in Nat \ {0}
  BY <1>0, <1>1, <1>2
<1>4. a = h * (x * y) + (w * x + l) /\ a \in Nat
  BY <1>0, <1>1, <1>2, <1>3 DEF At, x
<1>5. w * x + l \in 0 .. x * y - 1
  <2>1. (w + 1) * x <= y * x
    BY <1>1, <1>2
  <2>2. (w + 1) * x = w * x + x /\ y * x = x * y
    BY <1>1, <1>2
  <2> QED BY <1>1, <1>2, <1>3, <2>1, <2>2
<1>6. a \div (x * y) = h
  <2>1. h * (x * y) = (x * y) * h
    BY <1>0, <1>1
  <2>2. a = (x * y) * h + (w * x + l)
    BY <1>4, <2>1
  <2> QED BY <1>0, <1>3, <1>5, <2>2, QuotientIs
<1>7. a = x * (h * y + w) + l /\ h * y + w \in Nat
  <2>1. x * (h * y + w) = x * (h * y) + x * w
    BY <1>0, <1>1, <1>2, <1>3
  <2>2. x * (h * y) = h * (x * y) /\ x * w = w * x
    BY <1>0, <1>1, <1>2
  <2>3. a = (h * (x * y) + w * x) + l
    BY <1>2, <1>3, <1>4
  <2> QED BY <1>2, <1>3, <2>1, <2>2, <2>3
<1>8. a \div x = h * y + w
  BY <1>1, <1>2, <1>7, QuotientIs
<1>9. a % x = l
  BY <1>1, <1>2, <1>7, RemainderIs
<1> QED BY <1>1, <1>4, <1>6, <1>8, <1>9 DEF x, y

BitsAt(low, bits, h, w, l, a) ==
  /\ \A p \in Nat : p < low => Bit(a, p) = Bit(l, p)
  /\ \A i \in 1 .. bits : Bit(a, low + i - 1) = Bit(w, i - 1)
  /\ \A p \in Nat : p >= low + bits => Bit(a, p) = Bit(h, p - (low + bits))

LEMMA BitsOfAt ==
  ASSUME NEW low, NEW bits, NEW h, NEW w, NEW l, Digits(low, bits, h, w, l),
         NEW a, a = At(low, bits, h, w, l)
  PROVE  BitsAt(low, bits, h, w, l, a)
<1>a. low \in Nat /\ bits \in Nat /\ h \in Nat /\ w \in 0 .. pow2[bits] - 1 /\ l \in 0 .. pow2[low] - 1
  BY DEF Digits
<1>0. /\ pow2[low] \in Nat \ {0} /\ pow2[bits] \in Nat \ {0}
      /\ pow2[low + bits] = pow2[low] * pow2[bits]
  BY <1>a, Powers, PowersAdd
<1>1. /\ a \in Nat /\ w \in Nat /\ l \in Nat
      /\ a % pow2[low] = l /\ a \div pow2[low] = h * pow2[bits] + w
      /\ a \div pow2[low + bits] = h
  <2>1. w \in Nat /\ l \in Nat
    BY <1>a, <1>0
  <2> QED BY <2>1, DigitsOfAt
<1>2. a = (h * pow2[bits] + w) * pow2[low] + l /\ h * pow2[bits] + w \in Nat
  <2>1. a = pow2[low] * (a \div pow2[low]) + (a % pow2[low])
    BY <1>a, <1>0, <1>1, Quotient
  <2>2. h * pow2[bits] + w \in Nat
    BY <1>a, <1>0, <1>1
  <2>3. pow2[low] * (h * pow2[bits] + w) = (h * pow2[bits] + w) * pow2[low]
    BY <1>a, <1>0, <2>2
  <2> QED BY <1>a, <1>1, <2>1, <2>2, <2>3
<1>3. \A p \in Nat : p < low => Bit(a, p) = Bit(l, p)
  BY <1>a, <1>1, <1>2, BitsBelow
<1>4. \A i \in 1 .. bits : Bit(a, low + i - 1) = Bit(w, i - 1)
  <2> SUFFICES ASSUME NEW i \in 1 .. bits PROVE Bit(a, low + i - 1) = Bit(w, i - 1)
    OBVIOUS
  <2>1. i - 1 \in Nat /\ i - 1 < bits /\ low + i - 1 = low + (i - 1)
    BY <1>a
  <2>2. Bit(a, low + (i - 1)) = Bit(h * pow2[bits] + w, i - 1)
    BY <1>a, <1>1, <2>1, BitsAbove
  <2> QED BY <1>a, <1>1, <2>1, <2>2, BitsBelow
<1>5. \A p \in Nat : p >= low + bits => Bit(a, p) = Bit(h, p - (low + bits))
  <2> SUFFICES ASSUME NEW p \in Nat, p >= low + bits PROVE Bit(a, p) = Bit(h, p - (low + bits))
    OBVIOUS
  <2>1. p - (low + bits) \in Nat /\ low + bits \in Nat /\ p = (low + bits) + (p - (low + bits))
    BY <1>a
  <2> QED BY <1>a, <1>1, <2>1, BitsAbove
<1> QED BY <1>3, <1>4, <1>5 DEF BitsAt

(* The bits from low on, hashed with those from x on if x is not 0. *)
Hashed(low, x, bits) == Masks(low + bits - 1, IF x # 0 THEN x + bits - 1 ELSE 0, bits)

LEMMA HashedIs ==
  ASSUME NEW low \in Nat, NEW x \in Nat, NEW bits \in Nat, NEW i \in 1 .. bits
  PROVE  Hashed(low, x, bits)[i] = {low + i - 1} \cup (IF x = 0 THEN {} ELSE {x + i - 1})
<1>1. low + bits - 1 - bits + i = low + i - 1
  OBVIOUS
<1>2. CASE x = 0
  BY <1>1, <1>2 DEF Hashed, Masks
<1>3. CASE x # 0
  <2>1. x + bits - 1 # 0 /\ x + bits - 1 - bits + i = x + i - 1
    BY <1>3
  <2> QED BY <1>1, <1>3, <2>1 DEF Hashed, Masks
<1> QED BY <1>2, <1>3

LEMMA ParityOfOne ==
  ASSUME NEW a \in Nat, NEW p \in Nat
  PROVE  Parity(a, {p}) = Bit(a, p)
<1>1. Bit(a, p) \in 0 .. 1
  BY BitIsBit
<1>2. CASE Bit(a, p) = 1
  <2>1. {b \in {p} : Bit(a, b) = 1} = {p}
    BY <1>2
  <2>2. Parity(a, {p}) = 1 % 2
    BY <2>1, FS_Singleton DEF Parity
  <2> QED BY <1>2, <2>2
<1>3. CASE Bit(a, p) = 0
  <2>1. {b \in {p} : Bit(a, b) = 1} = {}
    BY <1>3
  <2> QED BY <1>3, <2>1, FS_EmptySet DEF Parity
<1> QED BY <1>1, <1>2, <1>3

LEMMA ParityOfTwo ==
  ASSUME NEW a \in Nat, NEW p \in Nat, NEW q \in Nat, p # q
  PROVE  Parity(a, {p, q}) = (Bit(a, p) + Bit(a, q)) % 2
<1>1. Bit(a, p) \in 0 .. 1 /\ Bit(a, q) \in 0 .. 1
  BY BitIsBit
<1> DEFINE ones == {b \in {p, q} : Bit(a, b) = 1}
<1>2. CASE Bit(a, p) = 1 /\ Bit(a, q) = 1
  <2>1. ones = {p} \cup {q}
    BY <1>2
  <2>2. IsFiniteSet({p}) /\ Cardinality({p}) = 1 /\ q \notin {p}
    BY FS_Singleton
  <2>3. Cardinality({p} \cup {q}) = 1 + 1
    BY <2>2, FS_AddElement
  <2>4. Parity(a, {p, q}) = (1 + 1) % 2
    BY <2>1, <2>3 DEF Parity
  <2> QED BY <1>2, <2>4
<1>3. CASE Bit(a, p) = 1 /\ Bit(a, q) = 0
  <2>1. ones = {p}
    BY <1>3
  <2>2. Parity(a, {p, q}) = 1 % 2
    BY <2>1, FS_Singleton DEF Parity
  <2> QED BY <1>3, <2>2
<1>4. CASE Bit(a, p) = 0 /\ Bit(a, q) = 1
  <2>1. ones = {q}
    BY <1>4
  <2>2. Parity(a, {p, q}) = 1 % 2
    BY <2>1, FS_Singleton DEF Parity
  <2> QED BY <1>4, <2>2
<1>5. CASE Bit(a, p) = 0 /\ Bit(a, q) = 0
  <2>1. ones = {}
    BY <1>5
  <2> QED BY <1>5, <2>1, FS_EmptySet DEF Parity
<1> QED BY <1>1, <1>2, <1>3, <1>4, <1>5

(* Numbers that differ at one place of a mask have other parities. *)
LEMMA ParityTells ==
  ASSUME NEW a \in Nat, NEW b \in Nat, NEW p \in Nat, NEW q \in Nat,
         Bit(a, p) # Bit(b, p), p = q \/ Bit(a, q) = Bit(b, q)
  PROVE  Parity(a, {p} \cup {q}) # Parity(b, {p} \cup {q})
<1>1. /\ Bit(a, p) \in 0 .. 1 /\ Bit(a, q) \in 0 .. 1
      /\ Bit(b, p) \in 0 .. 1 /\ Bit(b, q) \in 0 .. 1
  BY BitIsBit
<1>2. CASE p = q
  <2>1. {p} \cup {q} = {p}
    BY <1>2
  <2> QED BY <2>1, ParityOfOne
<1>3. CASE p # q
  <2>1. {p} \cup {q} = {p, q}
    OBVIOUS
  <2>2. Parity(a, {p, q}) = (Bit(a, p) + Bit(a, q)) % 2 /\ Parity(b, {p, q}) = (Bit(b, p) + Bit(b, q)) % 2
    BY <1>3, ParityOfTwo
  <2>3. Bit(a, q) = Bit(b, q)
    BY <1>3
  <2> DEFINE s == Bit(a, p)
             t == Bit(b, p)
             u == Bit(a, q)
  <2>4. s \in 0 .. 1 /\ t \in 0 .. 1 /\ u \in 0 .. 1 /\ s # t
    BY <1>1
  <2>5. Parity(a, {p, q}) = (s + u) % 2 /\ Parity(b, {p, q}) = (t + u) % 2
    BY <2>2, <2>3
  <2> HIDE DEF s, t, u
  <2>6. (s + u) % 2 # (t + u) % 2
    BY <2>4
  <2> QED BY <2>1, <2>5, <2>6
<1> QED BY <1>2, <1>3

(* Whatever is hashed, the parities tell the digits at the window apart:   *)
(* from the highest place at which they differ if higher bits are mixed    *)
(* in, and from the lowest one if lower bits are.                          *)
SameParities(low, x, bits, a, b) ==
  \A i \in 1 .. bits : Parity(a, Hashed(low, x, bits)[i]) = Parity(b, Hashed(low, x, bits)[i])

LEMMA ParitiesTellDigits ==
  ASSUME NEW low, NEW x \in Nat, NEW bits, NEW h, NEW l, NEW v, NEW w,
         Digits(low, bits, h, v, l), Digits(low, bits, h, w, l),
         SameParities(low, x, bits, At(low, bits, h, v, l), At(low, bits, h, w, l))
  PROVE  v = w
<1> DEFINE a == At(low, bits, h, v, l)
           b == At(low, bits, h, w, l)
           D == {i \in 1 .. bits : Bit(v, i - 1) # Bit(w, i - 1)}
<1>1. /\ Digits(low, bits, h, v, l) /\ Digits(low, bits, h, w, l)
      /\ low \in Nat /\ bits \in Nat
      /\ v \in 0 .. pow2[bits] - 1 /\ w \in 0 .. pow2[bits] - 1
  BY DEF Digits
<1>2. a = At(low, bits, h, v, l) /\ b = At(low, bits, h, w, l)
  OBVIOUS
<1>3. \A i \in 1 .. bits : /\ Hashed(low, x, bits)[i] = {low + i - 1} \cup (IF x = 0 THEN {} ELSE {x + i - 1})
                           /\ Parity(a, Hashed(low, x, bits)[i]) = Parity(b, Hashed(low, x, bits)[i])
  BY <1>1, HashedIs DEF SameParities
<1> HIDE DEF a, b
<1>4. a \in Nat /\ b \in Nat
  BY <1>1, <1>2, DigitsOfAt
<1>5. /\ \A p \in Nat : p < low \/ p >= low + bits => Bit(a, p) = Bit(b, p)
      /\ \A i \in 1 .. bits : Bit(a, low + i - 1) = Bit(v, i - 1) /\ Bit(b, low + i - 1) = Bit(w, i - 1)
  <2>1. BitsAt(low, bits, h, v, l, a) /\ BitsAt(low, bits, h, w, l, b)
    BY <1>1, <1>2, BitsOfAt
  <2> QED BY <1>1, <2>1 DEF BitsAt
<1> SUFFICES ASSUME v # w PROVE FALSE
  OBVIOUS
<1>6. D # {}
  <2> SUFFICES ASSUME D = {} PROVE FALSE
    OBVIOUS
  <2>1. \A i \in 1 .. bits : Bit(v, i - 1) = Bit(w, i - 1)
    OBVIOUS
  <2> QED BY <1>1, <2>1, SameBits
<1>7. SUFFICES \E i \in D : x = 0 \/ x = low \/ Bit(a, x + i - 1) = Bit(b, x + i - 1)
  <2>1. PICK i \in D : x = 0 \/ x = low \/ Bit(a, x + i - 1) = Bit(b, x + i - 1)
    BY <1>7
  <2>2. low + i - 1 \in Nat /\ Bit(a, low + i - 1) # Bit(b, low + i - 1)
    BY <1>1, <1>5
  <2>3. CASE x = 0
    <3>1. Parity(a, {low + i - 1}) = Parity(b, {low + i - 1})
      BY <1>1, <1>3, <2>3
    <3> QED BY <1>4, <2>2, <3>1, ParityOfOne
  <2>4. CASE x # 0
    <3>1. x + i - 1 \in Nat /\ (low + i - 1 = x + i - 1 \/ Bit(a, x + i - 1) = Bit(b, x + i - 1))
      BY <1>1, <2>1, <2>4
    <3>2. Parity(a, {low + i - 1} \cup {x + i - 1}) = Parity(b, {low + i - 1} \cup {x + i - 1})
      BY <1>1, <1>3, <2>4
    <3> QED BY <1>4, <2>2, <3>1, <3>2, ParityTells
  <2> QED BY <2>3, <2>4
<1>8. CASE x < low
  <2>1. PICK i \in D : \A j \in D : i <= j
    <3>1. D \subseteq Nat
      BY <1>1
    <3> QED BY <1>6, <3>1, LeastNumber
  <2>2. CASE x + i - 1 < low
    BY <1>1, <1>5, <2>2
  <2>3. CASE x + i - 1 >= low
    <3> DEFINE j == x + i - low
    <3>1. j \in 1 .. bits /\ j < i /\ low + j - 1 = x + i - 1
      BY <1>1, <1>8, <2>3
    <3>2. j \notin D
      BY <2>1, <3>1
    <3> HIDE DEF j
    <3>3. Bit(a, low + j - 1) = Bit(b, low + j - 1)
      BY <1>5, <3>1, <3>2
    <3> QED BY <3>1, <3>3
  <2> QED BY <1>1, <2>2, <2>3
<1>9. CASE x > low
  <2>1. PICK i \in D : \A j \in D : j <= i
    <3> DEFINE T == {bits - i : i \in D}
    <3>1. T \subseteq Nat /\ T # {}
      BY <1>1, <1>6
    <3>2. PICK n \in T : \A m \in T : n <= m
      BY <3>1, LeastNumber
    <3>3. PICK i \in D : n = bits - i
      BY <3>2
    <3>4. ASSUME NEW j \in D PROVE j <= i
      <4>1. bits - j \in T
        OBVIOUS
      <4>2. bits - i <= bits - j
        BY <3>2, <3>3, <4>1
      <4> QED BY <1>1, <4>2
    <3> QED BY <3>4
  <2>2. CASE x + i - 1 >= low + bits
    BY <1>1, <1>5, <2>2
  <2>3. CASE x + i - 1 < low + bits
    <3> DEFINE j == x + i - low
    <3>1. j \in 1 .. bits /\ j > i /\ low + j - 1 = x + i - 1
      BY <1>1, <1>9, <2>3
    <3>2. j \notin D
      BY <2>1, <3>1
    <3> HIDE DEF j
    <3>3. Bit(a, low + j - 1) = Bit(b, low + j - 1)
      BY <1>5, <3>1, <3>2
    <3> QED BY <3>1, <3>3
  <2> QED BY <1>1, <2>2, <2>3
<1>10. CASE x = low
  BY <1>6, <1>10
<1> QED BY <1>1, <1>8, <1>9, <1>10

LEMMA PowersSplit ==
  ASSUME NEW n \in Nat, NEW m \in Nat, m <= n
  PROVE  /\ pow2[n] = pow2[m] * pow2[n - m]
         /\ pow2[m] \in Nat \ {0} /\ pow2[n - m] \in Nat \ {0}
<1> DEFINE k == n - m
<1>1. k \in Nat /\ m + k = n
  OBVIOUS
<1> HIDE DEF k
<1>2. pow2[m + k] = pow2[m] * pow2[k]
  BY <1>1, PowersAdd
<1>3. pow2[m] \in Nat \ {0} /\ pow2[k] \in Nat \ {0}
  BY <1>1, Powers
<1> QED BY <1>1, <1>2, <1>3 DEF k

LEMMA QuotientOfMultiple ==
  ASSUME NEW a, NEW q \in Nat, NEW d \in Nat \ {0}, a = d * q
  PROVE  a \div d = q
  OBVIOUS

(* A memory of whole multiples of what is interleaved, by cache lines or   *)
(* more, from the bit low on.                                              *)
EvenIn(c, r, low, bits) ==
  /\ c.block \in Nat /\ low \in Nat /\ bits \in Nat /\ r.start \in Nat /\ r.size \in Nat
  /\ Even(c, r, low, bits)

(* The digits above and below the window that its lines have. *)
High(r, low, bits) == r.start \div pow2[low + bits] .. (r.start + r.size) \div pow2[low + bits] - 1
Low(c, low) == {l \in 0 .. pow2[low] - 1 : l % pow2[c.block] = 0}

LEMMA MultiplesAreLines ==
  ASSUME NEW d \in Nat \ {0}, NEW e \in Nat \ {0}, NEW m \in Nat, NEW l \in Nat
  PROVE  (m * (d * e) + l) % d = l % d
<1> DEFINE q == l \div d
           r == l % d
<1>1. l = d * q + r /\ q \in Nat /\ r \in 0 .. d - 1
  BY Quotient
<1> HIDE DEF q, r
<1>2. m * (d * e) + l = d * (m * e + q) + r
  <2>1. m * (d * e) = d * (m * e)
    OBVIOUS
  <2>2. d * (m * e + q) = d * (m * e) + d * q
    BY <1>1
  <2>3. d * (m * e) \in Nat /\ d * q \in Nat
    BY <1>1
  <2> QED BY <1>1, <2>1, <2>2, <2>3
<1>3. m * e + q \in Nat
  BY <1>1
<1> QED BY <1>1, <1>2, <1>3, RemainderIs DEF r

LEMMA MultipleIs ==
  ASSUME NEW a \in Nat, NEW d \in Nat \ {0}, a % d = 0
  PROVE  a = d * (a \div d) /\ a \div d \in Nat
<1>1. a = d * (a \div d) + (a % d) /\ a \div d \in Nat
  BY Quotient
<1>2. d * (a \div d) \in Nat
  BY <1>1
<1> QED BY <1>1, <1>2

LEMMA LinesHaveDigits ==
  ASSUME NEW c, NEW r, NEW low, NEW bits, EvenIn(c, r, low, bits),
         NEW h \in High(r, low, bits), NEW w \in 0 .. pow2[bits] - 1, NEW l \in Low(c, low)
  PROVE  Digits(low, bits, h, w, l) /\ At(low, bits, h, w, l) \in LinesOf(c, r)
<1> DEFINE T == pow2[low + bits]
           x == pow2[low]
           a == At(low, bits, h, w, l)
           S == r.start \div T
           E == (r.start + r.size) \div T
<1>0. /\ low \in Nat /\ bits \in Nat /\ c.block \in Nat /\ low - c.block \in Nat
      /\ r.start \in Nat /\ r.size \in Nat
  BY DEF EvenIn, Even
<1>1. T \in Nat \ {0} /\ x \in Nat \ {0} /\ pow2[bits] \in Nat \ {0} /\ T = x * pow2[bits]
  BY <1>0, Powers, PowersAdd
<1>2. r.start = T * S /\ S \in Nat /\ r.start + r.size = T * E /\ E \in Nat
  <2>1. r.start % T = 0 /\ r.size % T = 0
    BY DEF EvenIn, Even
  <2>2. r.start = T * S /\ S \in Nat
    BY <1>0, <1>1, <2>1, MultipleIs
  <2>3. PICK k \in Nat : r.size = T * k
    BY <1>0, <1>1, <2>1, MultipleIs
  <2>4. r.start + r.size = T * (S + k) /\ S + k \in Nat
    <3>1. T * (S + k) = T * S + T * k
      BY <1>1, <2>2, <2>3
    <3> QED BY <1>0, <2>2, <2>3, <3>1
  <2> HIDE DEF T, S
  <2>5. E = S + k
    BY <1>1, <2>4, QuotientOfMultiple DEF E
  <2> QED BY <1>0, <2>2, <2>4, <2>5
<1>3. h \in S .. E - 1 /\ l \in 0 .. x - 1 /\ l % pow2[c.block] = 0
  BY DEF High, Low
<1> HIDE DEF T, x, S, E
<1>4. h \in Nat /\ Digits(low, bits, h, w, l)
  <2>1. h \in Nat
    BY <1>2, <1>3
  <2> QED BY <1>0, <1>3, <2>1 DEF Digits, x
<1>5. a \in Nat /\ a \div T = h
  BY <1>4, DigitsOfAt DEF T
<1>6. a \in r.start .. r.start + r.size - 1
  <2>1. a = T * h + (a % T) /\ a % T \in 0 .. T - 1
    BY <1>1, <1>5, Quotient
  <2>2. T * S <= T * h /\ T * (h + 1) <= T * E
    BY <1>1, <1>2, <1>3
  <2>3. T * (h + 1) = T * h + T /\ T * h \in Nat
    BY <1>1, <1>4
  <2>4. T * S \in Nat /\ T * E \in Nat
    BY <1>0, <1>2
  <2>5. a >= T * S /\ a < T * E
    BY <1>1, <2>1, <2>2, <2>3, <2>4
  <2> QED BY <1>0, <1>2, <1>5, <2>5
<1>7. a % pow2[c.block] = 0
  <2> DEFINE d == pow2[c.block]
             e == pow2[low - c.block]
             m == h * pow2[bits] + w
  <2>1. x = d * e /\ d \in Nat \ {0} /\ e \in Nat \ {0}
    BY <1>0, PowersSplit DEF x, EvenIn, Even
  <2>2. m \in Nat
    <3>1. h * pow2[bits] \in Nat /\ w \in Nat
      BY <1>1, <1>4
    <3> QED BY <3>1
  <2>3. a = m * x + l
    <3>1. a \div x = m /\ a % x = l
      BY <1>4, DigitsOfAt DEF x
    <3>2. x * m = m * x
      BY <1>1, <2>2
    <3> HIDE DEF a, m
    <3>3. a = x * (a \div x) + (a % x)
      BY <1>1, <1>5, Quotient
    <3> QED BY <3>1, <3>2, <3>3
  <2> HIDE DEF a, m, d, e
  <2>4. l \in Nat
    BY <1>1, <1>3
  <2>5. a % d = l % d
    BY <2>1, <2>2, <2>3, <2>4, MultiplesAreLines
  <2> QED BY <1>3, <2>5 DEF d
<1> QED BY <1>4, <1>6, <1>7 DEF LinesOf

LEMMA DigitsOfLines ==
  ASSUME NEW c, NEW r, NEW low, NEW bits, EvenIn(c, r, low, bits), NEW a \in LinesOf(c, r)
  PROVE  \E h \in High(r, low, bits) : \E w \in 0 .. pow2[bits] - 1 : \E l \in Low(c, low) :
           a = At(low, bits, h, w, l)
<1> DEFINE T == pow2[low + bits]
           x == pow2[low]
           y == pow2[bits]
           k == a \div x
           h == k \div y
           w == k % y
           l == a % x
<1>0. /\ low \in Nat /\ bits \in Nat /\ c.block \in Nat /\ low - c.block \in Nat
      /\ r.start \in Nat /\ r.size \in Nat /\ r.start % T = 0 /\ r.size % T = 0
  BY DEF EvenIn, Even
<1>1. T \in Nat \ {0} /\ x \in Nat \ {0} /\ y \in Nat \ {0} /\ T = x * y
  BY <1>0, Powers, PowersAdd
<1>2. a \in Nat /\ r.start <= a /\ a < r.start + r.size /\ a % pow2[c.block] = 0
  BY <1>0 DEF LinesOf
<1>3. a = x * k + l /\ k \in Nat /\ l \in 0 .. x - 1
  BY <1>1, <1>2, Quotient
<1>4. k = y * h + w /\ h \in Nat /\ w \in 0 .. y - 1
  BY <1>1, <1>3, Quotient
<1>h. h = a \div T
  BY <1>1, <1>2, DivDiv
<1> HIDE DEF T, x, y, k, h, w, l
<1>5. a = h * T + (w * x + l)
  <2>1. x * (y * h + w) = x * (y * h) + x * w
    BY <1>1, <1>4
  <2>2. x * (y * h) = h * (x * y) /\ x * w = w * x
    BY <1>1, <1>4
  <2>3. h * (x * y) \in Nat /\ w * x \in Nat
    BY <1>1, <1>4
  <2>4. a = (h * (x * y) + w * x) + l
    BY <1>3, <1>4, <2>1, <2>2
  <2> QED BY <1>1, <1>3, <2>3, <2>4
<1>6. l \in Low(c, low)
  <2> DEFINE d == pow2[c.block]
             e == pow2[low - c.block]
  <2>1. x = d * e /\ d \in Nat \ {0} /\ e \in Nat \ {0}
    BY <1>0, PowersSplit DEF x, EvenIn, Even
  <2>2. a % d = 0
    BY <1>2
  <2> HIDE DEF d, e
  <2>3. a = k * (d * e) + l /\ l \in Nat
    <3>1. x * k = k * x
      BY <1>1, <1>3
    <3> QED BY <1>1, <1>3, <2>1, <3>1
  <2>4. l % d = 0
    <3>1. (k * (d * e) + l) % d = l % d
      BY <1>3, <2>1, <2>3, MultiplesAreLines
    <3> QED BY <2>2, <2>3, <3>1
  <2> QED BY <1>3, <2>4 DEF Low, x, d
<1>7. h \in High(r, low, bits)
  <2>1. r.start \div T \in Nat /\ r.start = T * (r.start \div T)
    BY <1>0, <1>1, MultipleIs
  <2>2. PICK n \in Nat : r.size = T * n
    BY <1>0, <1>1, MultipleIs
  <2> DEFINE S == r.start \div T
  <2>s. S \in Nat /\ r.start = T * S
    BY <2>1
  <2> HIDE DEF S
  <2>3. r.start + r.size = T * (S + n) /\ S + n \in Nat
    <3>1. T * (S + n) = T * S + T * n
      BY <1>1, <2>s, <2>2
    <3> QED BY <1>0, <2>s, <2>2, <3>1
  <2>4. (r.start + r.size) \div T = S + n
    <3> DEFINE e == r.start + r.size
               m == S + n
    <3>1. e = T * m /\ m \in Nat
      BY <2>3
    <3> HIDE DEF e, m
    <3>2. e \div T = m
      BY <1>1, <3>1, QuotientOfMultiple
    <3> QED BY <3>2 DEF e, m
  <2>5. a = T * h + (a % T) /\ a % T \in 0 .. T - 1
    BY <1>1, <1>2, <1>h, Quotient
  <2>6. S <= h
    <3> SUFFICES ASSUME h + 1 <= S PROVE FALSE
      BY <1>4, <2>s
    <3>1. T * (h + 1) <= T * S
      BY <1>1, <1>4, <2>s
    <3>2. T * (h + 1) = T * h + T /\ T * h \in Nat
      BY <1>1, <1>4
    <3> QED BY <1>1, <1>2, <2>s, <2>5, <3>1, <3>2
  <2>7. h < S + n
    <3> SUFFICES ASSUME S + n <= h PROVE FALSE
      BY <1>4, <2>s
    <3>1. T * (S + n) <= T * h /\ T * (S + n) \in Nat /\ T * h \in Nat
      BY <1>1, <1>4, <2>s
    <3> QED BY <1>1, <1>2, <2>3, <2>5, <3>1
  <2> QED BY <1>4, <2>s, <2>4, <2>6, <2>7 DEF High, T, S
<1>8. w \in 0 .. pow2[bits] - 1 /\ a = At(low, bits, h, w, l)
  BY <1>4, <1>5 DEF At, T, x, y
<1> QED BY <1>6, <1>7, <1>8

(* The way that a number belongs to. *)
Way(low, x, bits, v, a) ==
  HasBits(v, [i \in 1 .. bits |-> Parity(a, Hashed(low, x, bits)[i])], bits)

LEMMA EveryNumberHasWay ==
  ASSUME NEW low \in Nat, NEW x \in Nat, NEW bits \in Nat, NEW a
  PROVE  /\ \E v \in 0 .. pow2[bits] - 1 : Way(low, x, bits, v, a)
         /\ \A v, w \in 0 .. pow2[bits] - 1 : Way(low, x, bits, v, a) /\ Way(low, x, bits, w, a) => v = w
<1> DEFINE b == [i \in 1 .. bits |-> Parity(a, Hashed(low, x, bits)[i])]
<1>1. b \in [1 .. bits -> 0 .. 1]
  BY ParityOfMask DEF Hashed
<1>2. \A v : Way(low, x, bits, v, a) <=> HasBits(v, b, bits)
  BY DEF Way
<1> HIDE DEF b
<1>3. PICK m \in 0 .. pow2[bits] - 1 :
        HasBits(m, b, bits) /\ \A k \in 0 .. pow2[bits] - 1 : HasBits(k, b, bits) => k = m
  BY <1>1, BitsOfOneNumber DEF OneNumber
<1> QED BY <1>2, <1>3

LEMMA WayTellsDigits ==
  ASSUME NEW low, NEW x \in Nat, NEW bits, NEW h, NEW l, NEW v, NEW w, NEW k,
         Digits(low, bits, h, v, l), Digits(low, bits, h, w, l),
         Way(low, x, bits, k, At(low, bits, h, v, l)), Way(low, x, bits, k, At(low, bits, h, w, l))
  PROVE  v = w
<1> DEFINE a == At(low, bits, h, v, l)
           b == At(low, bits, h, w, l)
<1>1. Way(low, x, bits, k, a) /\ Way(low, x, bits, k, b)
  OBVIOUS
<1> HIDE DEF a, b
<1>2. SameParities(low, x, bits, a, b)
  BY <1>1 DEF Way, HasBits, SameParities
<1> QED BY <1>2, ParitiesTellDigits DEF a, b

(* Every way has one of the numbers that differ at the window only. *)
LEMMA EveryWayHasDigit ==
  ASSUME NEW low, NEW x \in Nat, NEW bits, NEW h, NEW l, Digits(low, bits, h, 0, l),
         NEW k \in 0 .. pow2[bits] - 1
  PROVE  \E w \in 0 .. pow2[bits] - 1 : Way(low, x, bits, k, At(low, bits, h, w, l))
<1> DEFINE W == 0 .. pow2[bits] - 1
           f == [w \in W |-> CHOOSE v \in W : Way(low, x, bits, v, At(low, bits, h, w, l))]
<1>1. low \in Nat /\ bits \in Nat /\ \A w \in W : Digits(low, bits, h, w, l)
  BY DEF Digits
<1>2. \A w \in W : f[w] \in W /\ Way(low, x, bits, f[w], At(low, bits, h, w, l))
  BY <1>1, EveryNumberHasWay
<1>3. \A v, w \in W : f[v] = f[w] => v = w
  <2> SUFFICES ASSUME NEW v \in W, NEW w \in W, f[v] = f[w] PROVE v = w
    OBVIOUS
  <2> DEFINE m == f[v]
  <2>1. Way(low, x, bits, m, At(low, bits, h, v, l)) /\ Way(low, x, bits, m, At(low, bits, h, w, l))
    BY <1>2
  <2> HIDE DEF m, f
  <2> QED BY <1>1, <2>1, WayTellsDigits
<1>4. IsFiniteSet(W)
  <2>1. pow2[bits] - 1 \in Int
    BY <1>1, Powers
  <2> QED BY <2>1, FS_Interval
<1>5. f \in Injection(W, W)
  <2>1. f \in [W -> W]
    BY <1>2
  <2> HIDE DEF f, W
  <2> QED BY <1>3, <2>1 DEF Injection, IsInjective
<1> HIDE DEF f
<1>6. f \in Surjection(W, W)
  BY <1>4, <1>5, FS_Injection
<1>7. PICK w \in W : f[w] = k
  BY <1>6 DEF Surjection
<1> QED BY <1>2, <1>7

LEMMA DigitsAreKnown ==
  ASSUME NEW low, NEW bits, NEW h, NEW w, NEW l, NEW g, NEW v, NEW m,
         Digits(low, bits, h, w, l), Digits(low, bits, g, v, m),
         At(low, bits, h, w, l) = At(low, bits, g, v, m)
  PROVE  h = g /\ w = v /\ l = m
<1> DEFINE a == At(low, bits, h, w, l)
<1>0. low \in Nat /\ bits \in Nat /\ h \in Nat /\ w \in 0 .. pow2[bits] - 1 /\ v \in 0 .. pow2[bits] - 1
  BY DEF Digits
<1>1. /\ a % pow2[low] = l /\ a \div pow2[low] = h * pow2[bits] + w
      /\ a \div pow2[low + bits] = h
  BY DigitsOfAt
<1>2. /\ a % pow2[low] = m /\ a \div pow2[low] = g * pow2[bits] + v
      /\ a \div pow2[low + bits] = g
  BY DigitsOfAt
<1> HIDE DEF a
<1>3. h = g /\ l = m
  BY <1>1, <1>2
<1>4. h * pow2[bits] \in Nat /\ w \in Nat /\ v \in Nat
  BY <1>0, Powers
<1>5. h * pow2[bits] + w = h * pow2[bits] + v
  BY <1>1, <1>2, <1>3
<1>6. w = v
  BY <1>4, <1>5
<1> QED BY <1>3, <1>6

PlacesOf(c, r, low, bits) == High(r, low, bits) \X Low(c, low)

(* The lines of a memory that belong to a way. *)
PartOf(c, r, low, x, bits, v) == {a \in LinesOf(c, r) : Way(low, x, bits, v, a)}

LEMMA PlacesAreFinite ==
  ASSUME NEW c, NEW r, NEW low, NEW bits, EvenIn(c, r, low, bits)
  PROVE  IsFiniteSet(PlacesOf(c, r, low, bits))
<1>1. low \in Nat /\ bits \in Nat /\ r.start \in Nat /\ r.size \in Nat
  BY DEF EvenIn, Even
<1>2. pow2[low] \in Nat \ {0} /\ pow2[low + bits] \in Nat \ {0}
  BY <1>1, Powers
<1>3. r.start \div pow2[low + bits] \in Nat /\ (r.start + r.size) \div pow2[low + bits] \in Nat
  <2> DEFINE e == r.start + r.size
             T == pow2[low + bits]
  <2>1. e \in Nat /\ T \in Nat \ {0}
    BY <1>1, <1>2
  <2> HIDE DEF e, T
  <2> QED BY <1>1, <2>1, Quotient DEF e, T
<1>4. IsFiniteSet(High(r, low, bits))
  BY <1>3, FS_Interval DEF High
<1>5. IsFiniteSet(Low(c, low))
  <2>1. IsFiniteSet(0 .. pow2[low] - 1)
    BY <1>2, FS_Interval
  <2> QED BY <2>1, FS_Subset DEF Low
<1> QED BY <1>4, <1>5, FS_Product DEF PlacesOf

LEMMA SizeOfPart ==
  ASSUME NEW c, NEW r, NEW low, NEW x \in Nat, NEW bits, EvenIn(c, r, low, bits),
         NEW v \in 0 .. pow2[bits] - 1
  PROVE  Cardinality(PartOf(c, r, low, x, bits, v)) = Cardinality(PlacesOf(c, r, low, bits))
<1> DEFINE P == PlacesOf(c, r, low, bits)
           W == 0 .. pow2[bits] - 1
           A(p, w) == At(low, bits, p[1], w, p[2])
           f == [p \in P |-> A(p, CHOOSE w \in W : Way(low, x, bits, v, A(p, w)))]
           S == PartOf(c, r, low, x, bits, v)
<1>1. \A p \in P : \A w \in W : Digits(low, bits, p[1], w, p[2]) /\ A(p, w) \in LinesOf(c, r)
  BY LinesHaveDigits DEF PlacesOf
<1>2. \A p \in P : \E w \in W : Way(low, x, bits, v, A(p, w))
  <2> SUFFICES ASSUME NEW p \in P PROVE \E w \in W : Way(low, x, bits, v, A(p, w))
    OBVIOUS
  <2>1. bits \in Nat
    BY DEF EvenIn, Even
  <2>2. 0 \in W
    BY <2>1, Powers
  <2>3. Digits(low, bits, p[1], 0, p[2])
    BY <1>1, <2>2
  <2> QED BY <2>3, EveryWayHasDigit
<1>3. \A p \in P : \E w \in W : f[p] = A(p, w) /\ Way(low, x, bits, v, A(p, w))
  BY <1>2
<1>4. \A a \in S : \E p \in P : \E w \in W : a = A(p, w)
  <2> SUFFICES ASSUME NEW a \in LinesOf(c, r) PROVE \E p \in P : \E w \in W : a = A(p, w)
    BY DEF PartOf
  <2>1. PICK h \in High(r, low, bits), w \in W, l \in Low(c, low) : a = At(low, bits, h, w, l)
    BY DigitsOfLines
  <2>2. <<h, l>> \in P /\ a = A(<<h, l>>, w)
    BY <2>1 DEF PlacesOf
  <2> QED BY <2>2
<1>5. \A a \in S : a \in LinesOf(c, r) /\ Way(low, x, bits, v, a)
  BY DEF PartOf
<1>6. f \in [P -> S]
  <2> SUFFICES ASSUME NEW p \in P PROVE f[p] \in S
    OBVIOUS
  <2> QED BY <1>1, <1>3 DEF PartOf
<1>7. \A p, q \in P : f[p] = f[q] => p = q
  <2> SUFFICES ASSUME NEW p \in P, NEW q \in P, f[p] = f[q] PROVE p = q
    OBVIOUS
  <2>1. PICK w \in W : f[p] = A(p, w)
    BY <1>3
  <2>2. PICK u \in W : f[q] = A(q, u)
    BY <1>3
  <2>3. p[1] = q[1] /\ p[2] = q[2]
    BY <1>1, <2>1, <2>2, DigitsAreKnown
  <2> QED BY <2>3 DEF PlacesOf
<1>8. \A a \in S : \E p \in P : f[p] = a
  <2> SUFFICES ASSUME NEW a \in S PROVE \E p \in P : f[p] = a
    OBVIOUS
  <2>1. PICK p \in P, w \in W : a = A(p, w)
    BY <1>4
  <2>2. PICK u \in W : f[p] = A(p, u) /\ Way(low, x, bits, v, A(p, u))
    BY <1>3
  <2>3. w = u
    BY <1>1, <1>5, <2>1, <2>2, WayTellsDigits
  <2> QED BY <2>1, <2>2, <2>3
<1> HIDE DEF f, S
<1>9. f \in Bijection(P, S)
  BY <1>6, <1>7, <1>8 DEF Bijection, Injection, Surjection, IsInjective
<1> QED BY <1>9, PlacesAreFinite, FS_Bijection DEF ExistsBijection, S

LEMMA SizeOfMemory ==
  ASSUME NEW c, NEW r, NEW low, NEW bits, EvenIn(c, r, low, bits)
  PROVE  /\ Cardinality(LinesOf(c, r)) = Cardinality(PlacesOf(c, r, low, bits)) * pow2[bits]
         /\ Cardinality(LinesOf(c, r)) \in Nat \ {0}
<1> DEFINE P == PlacesOf(c, r, low, bits)
           W == 0 .. pow2[bits] - 1
           f == [p \in P \X W |-> At(low, bits, p[1][1], p[2], p[1][2])]
           S == LinesOf(c, r)
<1>1. \A p \in P \X W : Digits(low, bits, p[1][1], p[2], p[1][2]) /\ f[p] \in S
  BY LinesHaveDigits DEF PlacesOf
<1>2. f \in [P \X W -> S]
  BY <1>1
<1>3. \A p, q \in P \X W : f[p] = f[q] => p = q
  <2> SUFFICES ASSUME NEW p \in P \X W, NEW q \in P \X W, f[p] = f[q] PROVE p = q
    OBVIOUS
  <2>1. p[1][1] = q[1][1] /\ p[2] = q[2] /\ p[1][2] = q[1][2]
    BY <1>1, DigitsAreKnown
  <2> QED BY <2>1 DEF PlacesOf
<1>4. \A a \in S : \E p \in P \X W : f[p] = a
  <2> SUFFICES ASSUME NEW a \in S PROVE \E p \in P \X W : f[p] = a
    OBVIOUS
  <2>1. PICK h \in High(r, low, bits), w \in W, l \in Low(c, low) : a = At(low, bits, h, w, l)
    BY DigitsOfLines
  <2>2. <<<<h, l>>, w>> \in P \X W /\ f[<<<<h, l>>, w>>] = a
    BY <2>1 DEF PlacesOf
  <2> QED BY <2>2
<1>5. IsFiniteSet(P)
  BY PlacesAreFinite
<1>6. IsFiniteSet(W) /\ Cardinality(W) = pow2[bits]
  <2>1. pow2[bits] \in Nat \ {0}
    BY Powers DEF EvenIn, Even
  <2> DEFINE n == pow2[bits] - 1
  <2>2. n \in Int /\ ~(0 > n) /\ n - 0 + 1 = pow2[bits] /\ W = 0 .. n
    BY <2>1
  <2> HIDE DEF n, W
  <2> QED BY <2>2, FS_Interval
<1>7. r.start \in S
  <2>1. /\ c.block \in Nat /\ low \in Nat /\ bits \in Nat /\ low + bits \in Nat /\ c.block <= low + bits
        /\ r.start \in Nat /\ r.size \in Nat \ {0} /\ r.start % pow2[low + bits] = 0
    BY DEF EvenIn, Even
  <2> DEFINE d == pow2[c.block]
             e == pow2[low + bits - c.block]
  <2>2. pow2[low + bits] = d * e /\ d \in Nat \ {0} /\ e \in Nat \ {0}
    <3> DEFINE n == low + bits
    <3>1. n \in Nat /\ c.block \in Nat /\ c.block <= n
      BY <2>1
    <3> HIDE DEF n
    <3>2. pow2[n] = pow2[c.block] * pow2[n - c.block] /\ pow2[c.block] \in Nat \ {0} /\ pow2[n - c.block] \in Nat \ {0}
      BY <3>1, PowersSplit
    <3>3. d = pow2[c.block] /\ e = pow2[n - c.block]
      BY <2>1 DEF n
    <3> HIDE DEF d, e
    <3>4. pow2[n] = d * e /\ d \in Nat \ {0} /\ e \in Nat \ {0}
      BY <3>2, <3>3
    <3> QED BY <3>4 DEF n
  <2> HIDE DEF d, e
  <2>3. d * e \in Nat \ {0}
    BY <2>2
  <2>4. r.start = (d * e) * (r.start \div (d * e)) /\ r.start \div (d * e) \in Nat
    BY <2>1, <2>2, <2>3, MultipleIs
  <2> DEFINE m == r.start \div (d * e)
  <2>5. m \in Nat /\ r.start = m * (d * e) + 0
    BY <2>1, <2>3, <2>4
  <2> HIDE DEF m
  <2>6. r.start % d = 0 % d
    BY <2>2, <2>5, MultiplesAreLines
  <2>7. r.start % d = 0
    BY <2>2, <2>6
  <2>8. r.start \in r.start .. r.start + r.size - 1
    BY <2>1
  <2> QED BY <2>7, <2>8 DEF LinesOf, d
<1> HIDE DEF f, S, W, P
<1>8. f \in Bijection(P \X W, S)
  BY <1>2, <1>3, <1>4 DEF Bijection, Injection, Surjection, IsInjective
<1>9. IsFiniteSet(P \X W) /\ Cardinality(P \X W) = Cardinality(P) * Cardinality(W)
  BY <1>5, <1>6, FS_Product
<1>10. IsFiniteSet(S) /\ Cardinality(S) = Cardinality(P) * Cardinality(W)
  BY <1>8, <1>9, FS_Bijection DEF ExistsBijection
<1>11. Cardinality(S) \in Nat \ {0}
  BY <1>7, <1>10, FS_CardinalityType, FS_EmptySet
<1> QED BY <1>6, <1>10, <1>11 DEF S, P

(* All ways have equal parts of a memory. *)
LEMMA PartsAreEqual ==
  ASSUME NEW c, NEW r, NEW low, NEW x \in Nat, NEW bits, EvenIn(c, r, low, bits),
         NEW v \in 0 .. pow2[bits] - 1
  PROVE  Cardinality(PartOf(c, r, low, x, bits, v)) * pow2[bits] = Cardinality(LinesOf(c, r))
<1>1. Cardinality(PartOf(c, r, low, x, bits, v)) = Cardinality(PlacesOf(c, r, low, bits))
  BY SizeOfPart
<1>2. Cardinality(LinesOf(c, r)) = Cardinality(PlacesOf(c, r, low, bits)) * pow2[bits]
  BY SizeOfMemory
<1> QED BY <1>1, <1>2

(* Which addresses are whose in a family of n ways of a memory: the i-th   *)
(* way is at the place e[i], and no one else has an address of it.         *)
WaysOf(c, r, F, e, n, low, x) ==
  /\ e \in Injection(1 .. n, DOMAIN F)
  /\ \A a \in LinesOf(c, r) : \A i \in 1 .. n : e[i] \in HomesOf(F, a) <=> Way(low, x, Log2(n), i - 1, a)
  /\ \A a \in LinesOf(c, r) : \A j \in DOMAIN F : j \in HomesOf(F, a) => \E i \in 1 .. n : j = e[i]

EqualPart(c, r, F, n, j) ==
  Cardinality({a \in LinesOf(c, r) : j \in HomesOf(F, a)}) * n = Cardinality(LinesOf(c, r))
EqualParts(c, r, F, n) == Cardinality({j \in DOMAIN F : EqualPart(c, r, F, n, j)}) = n

LEMMA WaysHaveEqualParts ==
  ASSUME NEW c, NEW r, NEW F, NEW e, NEW n \in Nat \ {0}, NEW low, NEW x \in Nat,
         WaysOf(c, r, F, e, n, low, x), EvenIn(c, r, low, Log2(n)), pow2[Log2(n)] = n
  PROVE  EqualParts(c, r, F, n)
<1> DEFINE bits == Log2(n)
           L == LinesOf(c, r)
           Part(j) == {a \in L : j \in HomesOf(F, a)}
           S == {j \in DOMAIN F : EqualPart(c, r, F, n, j)}
<1>1. Cardinality(L) \in Nat \ {0}
  BY SizeOfMemory
<1>2. ASSUME NEW i \in 1 .. n PROVE e[i] \in S
  <2>1. e[i] \in DOMAIN F
    BY DEF WaysOf, Injection
  <2>2. Part(e[i]) = PartOf(c, r, low, x, bits, i - 1)
    BY DEF WaysOf, PartOf
  <2>3. i - 1 \in 0 .. pow2[bits] - 1
    OBVIOUS
  <2>4. Cardinality(PartOf(c, r, low, x, bits, i - 1)) * pow2[bits] = Cardinality(L)
    BY <2>3, PartsAreEqual
  <2> QED BY <2>1, <2>2, <2>4 DEF EqualPart
<1>3. ASSUME NEW j \in S PROVE \E i \in 1 .. n : j = e[i]
  <2> SUFFICES ASSUME ~\E i \in 1 .. n : j = e[i] PROVE FALSE
    OBVIOUS
  <2>1. Part(j) = {}
    BY DEF WaysOf
  <2>2. Cardinality(Part(j)) * n = Cardinality(L)
    BY DEF EqualPart
  <2>3. Cardinality(Part(j)) = 0
    BY <2>1, FS_EmptySet
  <2> QED BY <1>1, <2>2, <2>3
<1>4. e \in Bijection(1 .. n, S)
  <2>1. e \in [1 .. n -> DOMAIN F] /\ \A i, j \in 1 .. n : e[i] = e[j] => i = j
    BY DEF WaysOf, Injection, IsInjective
  <2>2. e \in [1 .. n -> S]
    BY <1>2, <2>1
  <2> HIDE DEF S
  <2> QED BY <1>3, <2>1, <2>2 DEF Bijection, Injection, Surjection, IsInjective
<1> HIDE DEF S
<1>5. Cardinality(S) = n
  BY <1>4, FS_CountingElements DEF ExistsBijection
<1> QED BY <1>5 DEF EqualParts, S

(* Ways whose last one gem5 accepts are as many as their bits have values. *)
LEMMA WaysAreAll ==
  ASSUME NEW n \in Nat \ {0}, NEW q, NEW high, NEW xorHigh,
         Accepted(AddrRange(q, high, xorHigh, Log2(n), n - 1))
  PROVE  Log2(n) \in Nat /\ pow2[Log2(n)] = n
<1>1. Log2(n) \in Nat /\ pow2[Log2(n)] <= n
  BY Log2Is
<1>2. n - 1 < pow2[Log2(n)]
  BY <1>1, AcceptedIs
<1>3. pow2[Log2(n)] \in Nat
  BY <1>1, Powers
<1> QED BY <1>1, <1>2, <1>3

LEMMA LineIsInRange ==
  ASSUME NEW c, NEW r, r.start \in Nat, r.size \in Nat, NEW a \in LinesOf(c, r)
  PROVE  a \in Nat /\ InRange(r, a)
<1>1. a \in r.start .. r.start + r.size - 1
  BY DEF LinesOf
<1> QED BY <1>1 DEF InRange

(* An interleaved range has the numbers of its way. *)
LEMMA WayCovers ==
  ASSUME NEW q, NEW low, NEW x, NEW n, Log2(n) \in Nat, NEW k, NEW a
  PROVE  Covers(AddrRange(q, low + Log2(n) - 1, IF x # 0 THEN x + Log2(n) - 1 ELSE 0, Log2(n), k), a)
           <=> InRange(q, a) /\ Way(low, x, Log2(n), k, a)
  BY CoversIs DEF Way, Hashed

(* The first n members of a family have the ways of all memories of R.     *)
FirstWays(F, R, n, low, x) ==
  /\ 1 .. n \subseteq DOMAIN F
  /\ \A i \in 1 .. n :
       F[i] = {AddrRange(q, low + Log2(n) - 1, IF x # 0 THEN x + Log2(n) - 1 ELSE 0, Log2(n), i - 1) : q \in R}

LEMMA FirstWaysHaveEqualParts ==
  ASSUME NEW c, NEW F, NEW R, NEW n \in Nat \ {0}, NEW low, NEW x \in Nat, FirstWays(F, R, n, low, x),
         AllAccepted(F), NEW r \in R, EvenIn(c, r, low, Log2(n)),
         \A j \in DOMAIN F : \A a \in LinesOf(c, r) : j \in HomesOf(F, a) => j \in 1 .. n
  PROVE  EqualParts(c, r, F, n)
<1> DEFINE e == [i \in 1 .. n |-> i]
           high == low + Log2(n) - 1
           xorHigh == IF x # 0 THEN x + Log2(n) - 1 ELSE 0
<1>1. Log2(n) \in Nat /\ pow2[Log2(n)] = n
  <2>1. n \in 1 .. n
    OBVIOUS
  <2>2. n \in DOMAIN F /\ AddrRange(r, high, xorHigh, Log2(n), n - 1) \in F[n]
    BY <2>1 DEF FirstWays
  <2> HIDE DEF high, xorHigh
  <2>3. Accepted(AddrRange(r, high, xorHigh, Log2(n), n - 1))
    BY <2>2 DEF AllAccepted
  <2> QED BY <2>3, WaysAreAll
<1>2. e \in Injection(1 .. n, DOMAIN F)
  BY DEF FirstWays, Injection, IsInjective
<1>3. ASSUME NEW a \in LinesOf(c, r), NEW i \in 1 .. n
      PROVE  i \in HomesOf(F, a) <=> Way(low, x, Log2(n), i - 1, a)
  <2>1. InRange(r, a)
    BY LineIsInRange DEF EvenIn
  <2>2. \A q \in R : Covers(AddrRange(q, high, xorHigh, Log2(n), i - 1), a)
                       <=> InRange(q, a) /\ Way(low, x, Log2(n), i - 1, a)
    BY <1>1, WayCovers
  <2>3. i \in DOMAIN F /\ F[i] = {AddrRange(q, high, xorHigh, Log2(n), i - 1) : q \in R}
    BY DEF FirstWays
  <2> HIDE DEF high, xorHigh
  <2>4. i \in HomesOf(F, a) <=> \E q \in R : Covers(AddrRange(q, high, xorHigh, Log2(n), i - 1), a)
    BY <2>3 DEF HomesOf
  <2> QED BY <2>1, <2>2, <2>4
<1>4. WaysOf(c, r, F, e, n, low, x)
  <2>1. \A a \in LinesOf(c, r) : \A j \in DOMAIN F : j \in HomesOf(F, a) => \E i \in 1 .. n : j = e[i]
    OBVIOUS
  <2>2. \A a \in LinesOf(c, r) : \A i \in 1 .. n : e[i] \in HomesOf(F, a) <=> Way(low, x, Log2(n), i - 1, a)
    BY <1>3
  <2> HIDE DEF e
  <2> QED BY <1>2, <2>1, <2>2 DEF WaysOf
<1> QED BY <1>1, <1>4, WaysHaveEqualParts

Typed(c) ==
  /\ {c.block, c.setBits, c.numa_high_bit, c.xor_low_bit, c.intlv, c.buffer.DRAM, c.buffer.NVM} \subseteq Nat
  /\ \A r \in RangesOf(c) \cup {c.bootRange} : r.start \in Nat /\ r.size \in Nat

LEMMA ConfigsAreTyped == \A c \in Configs : Typed(c)
  BY ConfigAssumption DEF Typed

LEMMA BanksHaveEqualParts ==
  ASSUME NEW c \in Configs, NEW n \in Nat \ {0}, AllAccepted(BankRanges(c, n)), NEW r \in RangesOf(c),
         Even(c, r, c.block, Log2(n))
  PROVE  EqualParts(c, r, BankRanges(c, n), n)
<1> DEFINE F == BankRanges(c, n)
<1>1. DOMAIN F = 1 .. n
      /\ \A i \in 1 .. n : F[i] = {AddrRange(q, c.block + Log2(n) - 1, 0, Log2(n), i - 1) : q \in WithBoot(c)}
  BY DEF BankRanges
<1> HIDE DEF F
<1>2. FirstWays(F, WithBoot(c), n, c.block, 0)
  BY <1>1 DEF FirstWays
<1>3. \A j \in DOMAIN F : j \in 1 .. n
  BY <1>1
<1>4. EvenIn(c, r, c.block, Log2(n))
  BY Log2Is, ConfigsAreTyped DEF EvenIn, Typed
<1>5. r \in WithBoot(c)
  BY DEF WithBoot
<1> QED BY <1>2, <1>3, <1>4, <1>5, FirstWaysHaveEqualParts DEF F

LEMMA DirectoriesHaveEqualParts ==
  ASSUME NEW c \in Configs, c.dirs # 0, AllAccepted(DirectoryRanges(c)), NEW r \in RangesOf(c),
         Even(c, r, DirectoriesFrom(c), Log2(c.dirs))
  PROVE  EqualParts(c, r, DirectoryRanges(c), c.dirs)
<1> DEFINE n == c.dirs
           F == DirectoryRanges(c)
           low == DirectoriesFrom(c)
           x == c.xor_low_bit
<1>1. n \in Nat \ {0}
  BY ConfigAssumption
<1>2. /\ DOMAIN F = IF c.boot THEN 1 .. n + 1 ELSE 1 .. n
      /\ \A i \in 1 .. n : F[i] = {AddrRange(q, DirHigh(c), DirXor(c), Log2(n), i - 1) : q \in RangesOf(c)}
      /\ c.boot => F[n + 1] = {Whole(c.bootRange)}
  BY <1>1, DirectoriesAre
<1>3. DirHigh(c) = low + Log2(n) - 1 /\ DirXor(c) = IF x # 0 THEN x + Log2(n) - 1 ELSE 0
  BY DEF DirHigh, DirXor, DirectoriesFrom
<1>4. /\ x \in Nat /\ c.block \in Nat /\ r.start \in Nat /\ r.size \in Nat
      /\ c.bootRange.start \in Nat /\ c.bootRange.size \in Nat
  BY ConfigsAreTyped DEF Typed
<1>5. low \in Int /\ low >= c.block
  <2>1. Log2(n) \in Nat
    BY <1>1, Log2Is
  <2> QED BY <2>1, ConfigsAreTyped DEF Typed, DirectoriesFrom, Even
<1>6. EvenIn(c, r, low, Log2(n))
  <2>1. Log2(n) \in Nat /\ low \in Nat
    BY <1>1, <1>4, <1>5, Log2Is
  <2> QED BY <1>4, <2>1 DEF EvenIn
<1> HIDE DEF n, F, low, x
<1>7. FirstWays(F, RangesOf(c), n, low, x)
  BY <1>1, <1>2, <1>3 DEF FirstWays
<1>8. ASSUME NEW j \in DOMAIN F, NEW a \in LinesOf(c, r), j \in HomesOf(F, a) PROVE j \in 1 .. n
  <2> SUFFICES ASSUME j \notin 1 .. n PROVE FALSE
    OBVIOUS
  <2>1. c.boot /\ j = n + 1
    BY <1>1, <1>2
  <2>2. Covers(Whole(c.bootRange), a)
    BY <1>2, <1>8, <2>1 DEF HomesOf
  <2>3. InRange(c.bootRange, a)
    BY <2>2, CoversIs DEF Whole
  <2>4. a \in Nat /\ InRange(r, a)
    BY <1>4, LineIsInRange
  <2>5. r.start + r.size <= c.bootRange.start \/ c.bootRange.start + c.bootRange.size <= r.start
    BY <2>1, ConfigAssumption
  <2> QED BY <1>4, <2>3, <2>4, <2>5 DEF InRange
<1>9. EqualParts(c, r, F, n)
  BY <1>1, <1>4, <1>6, <1>7, <1>8, FirstWaysHaveEqualParts DEF F, x
<1> QED BY <1>9 DEF n, F
-----------------------------------------------------------------------------
(* Sets of banks.                                                          *)

(* A memory with room for a block of 2^(low + sets) addresses has, for     *)
(* every bank k and every set s, a line at which both are found: bits tell *)
(* the bank, from the cache line on, and sets the set above them.          *)
RoomFor(r, total) ==
  \E m \in Nat : r.start <= m * pow2[total] /\ (m + 1) * pow2[total] <= r.start + r.size

InBank(c, r, bits, sets, k, s, a) ==
  /\ a \in LinesOf(c, r)
  /\ (a \div pow2[c.block + bits]) % pow2[sets] = s
  /\ (a \div pow2[c.block]) % pow2[bits] = k
  /\ Way(c.block, 0, bits, k, a)

LEMMA DigitIsWay ==
  ASSUME NEW low, NEW bits, NEW h, NEW w, NEW l, Digits(low, bits, h, w, l)
  PROVE  Way(low, 0, bits, w, At(low, bits, h, w, l))
<1> DEFINE a == At(low, bits, h, w, l)
<1>1. low \in Nat /\ bits \in Nat
  BY DEF Digits
<1>2. a \in Nat
  BY DigitsOfAt
<1>3. BitsAt(low, bits, h, w, l, a)
  BY BitsOfAt
<1> HIDE DEF a
<1>4. ASSUME NEW i \in 1 .. bits PROVE Bit(w, i - 1) = Parity(a, Hashed(low, 0, bits)[i])
  <2>1. Hashed(low, 0, bits)[i] = {low + i - 1}
    BY <1>1, HashedIs
  <2>2. low + i - 1 \in Nat
    BY <1>1
  <2>3. Parity(a, {low + i - 1}) = Bit(a, low + i - 1)
    BY <1>2, <2>2, ParityOfOne
  <2> QED BY <1>3, <2>1, <2>3 DEF BitsAt
<1> QED BY <1>4 DEF Way, HasBits, a

LEMMA BankHasSet ==
  ASSUME NEW c, c.block \in Nat, NEW r, r.start \in Nat, r.size \in Nat, NEW bits \in Nat, NEW sets \in Nat,
         RoomFor(r, c.block + bits + sets), NEW k \in 0 .. pow2[bits] - 1, NEW s \in 0 .. pow2[sets] - 1
  PROVE  \E a : InBank(c, r, bits, sets, k, s, a)
<1> DEFINE low == c.block
           L == pow2[low]
           K == pow2[bits]
           S == pow2[sets]
           T == pow2[low + bits]
<1>1. /\ L \in Nat \ {0} /\ K \in Nat \ {0} /\ S \in Nat \ {0} /\ T \in Nat \ {0}
      /\ T = L * K /\ pow2[c.block + bits + sets] = T * S
  <2>1. low + bits \in Nat
    OBVIOUS
  <2> QED BY <2>1, Powers, PowersAdd
<1>2. PICK m \in Nat : r.start <= m * (T * S) /\ (m + 1) * (T * S) <= r.start + r.size
  BY <1>1 DEF RoomFor
<1>3. k \in 0 .. K - 1 /\ s \in 0 .. S - 1 /\ low \in Nat
  OBVIOUS
<1> DEFINE h == m * S + s
           a == At(low, bits, h, k, 0)
<1>4. h \in Nat
  BY <1>1, <1>3
<1>5. Digits(low, bits, h, k, 0)
  BY <1>1, <1>3, <1>4 DEF Digits
<1>6. a \in Nat /\ a % L = 0 /\ a \div L = h * K + k /\ a \div T = h
  BY <1>5, DigitsOfAt
<1>7. Way(low, 0, bits, k, a)
  BY <1>5, DigitIsWay
<1> HIDE DEF a, L, K, S, T, low
<1>8. h % S = s
  <2>1. h = S * m + s
    BY <1>1, <1>3
  <2> QED BY <1>1, <1>3, <2>1, RemainderIs
<1>9. (h * K + k) % K = k
  <2>1. h * K + k = K * h + k
    BY <1>1, <1>3, <1>4
  <2> HIDE DEF h
  <2> QED BY <1>1, <1>3, <1>4, <2>1, RemainderIs
<1>10. r.start <= a /\ a < r.start + r.size
  <2>1. a = T * h + (a % T) /\ a % T \in 0 .. T - 1
    BY <1>1, <1>6, Quotient
  <2>2. T * (m * S) = m * (T * S) /\ T * (m * S + s) = T * (m * S) + T * s
    BY <1>1, <1>3
  <2>3. T * s \in Nat /\ T * s + T <= T * S
    <3>1. T * (s + 1) <= T * S
      BY <1>1, <1>3
    <3> QED BY <1>1, <1>3, <3>1
  <2>4. (m + 1) * (T * S) = m * (T * S) + T * S /\ m * (T * S) \in Nat /\ T * S \in Nat
    BY <1>1
  <2>5. a = m * (T * S) + T * s + (a % T)
    BY <2>1, <2>2 DEF h
  <2> QED BY <1>1, <1>2, <1>6, <2>1, <2>3, <2>4, <2>5
<1>11. a \in LinesOf(c, r)
  <2>1. a \in r.start .. r.start + r.size - 1
    BY <1>6, <1>10
  <2> QED BY <1>6, <2>1 DEF LinesOf, L, low
<1>12. InBank(c, r, bits, sets, k, s, a)
  BY <1>6, <1>7, <1>8, <1>9, <1>11 DEF InBank, L, K, S, T, low
<1> QED BY <1>12

LEMMA RoomIs ==
  ASSUME NEW c \in Configs, NEW r \in RangesOf(c), HasRoom(c, r), NEW total, total = IndexStart(c) + c.setBits
  PROVE  RoomFor(r, total)
<1>1. r.start \in Nat /\ r.size \in Nat
  BY ConfigsAreTyped DEF Typed
<1>2. 0 .. r.start + r.size \subseteq Nat
  BY <1>1
<1> QED BY <1>2 DEF HasRoom, RoomFor

(* The banks of a cache. *)
LEMMA NumberOfBanks ==
  ASSUME NEW c \in Configs, c.protocol # "classic", ~Refused(c)
  PROVE  /\ BankBits(c) \in Nat
         /\ c.protocol = "MOESI_CMP_directory" => c.l2s \in Nat \ {0} /\ BankBits(c) = Log2(c.l2s)
         /\ c.protocol = "CHI" => c.l3s \in Nat \ {0} /\ BankBits(c) = Log2(c.l3s)
         /\ c.protocol = "MOESI_hammer" => c.dirs \in Nat \ {0} /\ BankBits(c) = Log2(c.dirs)
<1>1. /\ {c.dirs, c.l2s, c.l3s, c.tccs} \subseteq Nat /\ c.clusters \in Nat \ {0}
      /\ c.protocol # "CHI" => c.dirs # 0 /\ c.l2s # 0
      /\ c.protocol = "GPU_VIPER" => c.tccs # 0
  BY ConfigAssumption
<1>2. CASE c.protocol \in {"MESI_Two_Level", "MOESI_CMP_directory", "MOESI_CMP_token"}
  BY <1>1, <1>2, Log2Is DEF BankBits
<1>3. CASE c.protocol \in {"MESI_Three_Level", "MESI_Three_Level_HTM"}
  <2>1. c.l2s % c.clusters = 0
    BY <1>3 DEF Refused
  <2>2. c.l2s = c.clusters * (c.l2s \div c.clusters) /\ c.l2s \div c.clusters \in Nat
    BY <1>1, <2>1, MultipleIs
  <2>3. c.l2s \div c.clusters # 0
    BY <1>1, <1>3, <2>2
  <2>4. Log2(c.l2s \div c.clusters) \in Nat
    BY <2>2, <2>3, Log2Is
  <2> QED BY <1>3, <2>4 DEF BankBits
<1>4. CASE c.protocol = "CHI"
  <2>1. ~(c.l3s < 1)
    BY <1>4 DEF Refused
  <2>2. c.l3s \in Nat \ {0}
    BY <1>1, <2>1
  <2> QED BY <1>4, <2>2, Log2Is DEF BankBits
<1>5. CASE c.protocol = "GPU_VIPER"
  BY <1>1, <1>5, Log2Is DEF BankBits
<1>6. CASE c.protocol = "MOESI_hammer"
  BY <1>1, <1>6, Log2Is DEF BankBits
<1>7. CASE c.protocol \notin {"MESI_Two_Level", "MOESI_CMP_directory", "MOESI_CMP_token", "MESI_Three_Level",
                              "MESI_Three_Level_HTM", "CHI", "GPU_VIPER", "MOESI_hammer"}
  BY <1>7 DEF BankBits
<1> QED BY <1>2, <1>3, <1>4, <1>5, <1>6, <1>7

LEMMA SetsAreNumbers ==
  ASSUME NEW c, c.setBits \in Nat, IndexStart(c) \in Nat, NEW a \in Nat
  PROVE  SetOf(c, a) \in 0 .. pow2[c.setBits] - 1
<1>1. pow2[IndexStart(c)] \in Nat \ {0} /\ pow2[c.setBits] \in Nat \ {0}
  BY Powers
<1>2. a \div pow2[IndexStart(c)] \in Nat
  BY <1>1, Quotient
<1> QED BY <1>1, <1>2, Quotient DEF SetOf

LEMMA BanksAreUsed == SystemInv /\ RoundMemories(cfg) => BanksUseAllSets
<1> SUFFICES ASSUME SystemInv, RoundMemories(cfg), Built, cfg.protocol # "MOESI_hammer", cfg.numa_high_bit = 0,
                    NEW b \in 1 .. pow2[BankBits(cfg)]
             PROVE  LET lines == IF "cache" \in DOMAIN homes
                                 THEN {a \in Lines(cfg) : b \in HomesOf(homes["cache"], a)}
                                 ELSE {a \in Lines(cfg) : SelectedBank(cfg, a) = b}
                    IN {SetOf(cfg, a) : a \in lines} = 0 .. pow2[cfg.setBits] - 1
  BY DEF BanksUseAllSets
<1> DEFINE bits == BankBits(cfg)
           lines == IF "cache" \in DOMAIN homes
                    THEN {a \in Lines(cfg) : b \in HomesOf(homes["cache"], a)}
                    ELSE {a \in Lines(cfg) : SelectedBank(cfg, a) = b}
<1>1. /\ cfg \in Configs /\ cfg.protocol # "classic" /\ ~Refused(cfg)
      /\ homes = Homes(cfg)
  BY DEF SystemInv, Built
<1>2. Typed(cfg) /\ bits \in Nat
  BY <1>1, ConfigsAreTyped, NumberOfBanks
<1>3. IndexStart(cfg) = cfg.block + bits /\ cfg.block \in Nat /\ cfg.setBits \in Nat
  BY <1>2 DEF IndexStart, Typed
<1>4. PICK r \in RangesOf(cfg) : HasRoom(cfg, r)
  BY <1>1 DEF RoundMemories, RoundRuby
<1>5. r.start \in Nat /\ r.size \in Nat /\ RoomFor(r, cfg.block + bits + cfg.setBits)
  <2>1. cfg.block + bits + cfg.setBits = IndexStart(cfg) + cfg.setBits
    BY <1>3
  <2>2. r.start \in Nat /\ r.size \in Nat
    BY <1>2 DEF Typed
  <2> DEFINE total == cfg.block + bits + cfg.setBits
  <2>3. total = IndexStart(cfg) + cfg.setBits
    BY <2>1
  <2> HIDE DEF total
  <2>4. RoomFor(r, total)
    BY <1>1, <1>4, <2>3, RoomIs
  <2> QED BY <2>2, <2>4 DEF total
<1>6. ASSUME NEW s \in 0 .. pow2[cfg.setBits] - 1 PROVE \E a \in lines : SetOf(cfg, a) = s
  <2>1. b - 1 \in 0 .. pow2[bits] - 1
    BY <1>2, Powers
  <2>2. PICK a : InBank(cfg, r, bits, cfg.setBits, b - 1, s, a)
    BY <1>2, <1>3, <1>5, <2>1, BankHasSet
  <2>3. a \in Lines(cfg) /\ InRange(r, a) /\ r \in WithBoot(cfg)
    BY <1>5, <2>2, LineIsInRange DEF InBank, Lines, WithBoot
  <2>4. SetOf(cfg, a) = s /\ SelectedBank(cfg, a) = b
    <3>1. SetOf(cfg, a) = s
      BY <1>3, <2>2 DEF InBank, SetOf
    <3>2. SelectedBank(cfg, a) = (b - 1) + 1
      BY <2>2 DEF InBank, SelectedBank
    <3> QED BY <3>1, <3>2
  <2>5. ASSUME NEW n \in Nat \ {0}, bits = Log2(n), homes["cache"] = BankRanges(cfg, n)
        PROVE  b \in HomesOf(homes["cache"], a)
    <3> DEFINE F == BankRanges(cfg, n)
    <3>1. b \in 1 .. n
      <4>1. pow2[bits] <= n /\ pow2[bits] \in Nat
        BY <1>2, <2>5, Log2Is, Powers
      <4> QED BY <4>1
    <3>2. b \in DOMAIN F /\ AddrRange(r, cfg.block + bits - 1, 0, bits, b - 1) \in F[b]
      BY <2>3, <2>5, <3>1 DEF BankRanges
    <3>3. Way(cfg.block, 0, Log2(n), b - 1, a)
      BY <2>2, <2>5 DEF InBank
    <3>4. Covers(AddrRange(r, cfg.block + Log2(n) - 1, IF 0 # 0 THEN 0 + Log2(n) - 1 ELSE 0, Log2(n), b - 1), a)
      BY <1>2, <2>3, <2>5, <3>3, WayCovers
    <3>5. Covers(AddrRange(r, cfg.block + bits - 1, 0, bits, b - 1), a)
      BY <2>5, <3>4
    <3> QED BY <2>5, <3>2, <3>5 DEF HomesOf
  <2>6. CASE cfg.protocol = "CHI"
    <3>1. homes["cache"] = BankRanges(cfg, cfg.l3s) /\ "cache" \in DOMAIN homes
      BY <1>1, <2>6 DEF Homes
    <3> QED BY <1>1, <2>3, <2>4, <2>5, <2>6, <3>1, NumberOfBanks
  <2>7. CASE cfg.protocol = "MOESI_CMP_directory"
    <3>1. homes["cache"] = BankRanges(cfg, cfg.l2s) /\ "cache" \in DOMAIN homes
      BY <1>1, <2>7 DEF Homes
    <3> QED BY <1>1, <2>3, <2>4, <2>5, <2>7, <3>1, NumberOfBanks
  <2>8. CASE cfg.protocol \notin {"CHI", "MOESI_CMP_directory"}
    <3>1. "cache" \notin DOMAIN homes
      BY <1>1, <2>8 DEF Homes
    <3> QED BY <2>3, <2>4, <3>1
  <2> QED BY <2>6, <2>7, <2>8
<1>7. ASSUME NEW a \in lines PROVE SetOf(cfg, a) \in 0 .. pow2[cfg.setBits] - 1
  <2>1. a \in Lines(cfg)
    OBVIOUS
  <2>2. a \in Nat
    BY <1>1, <2>1, LinesAreInRanges
  <2>3. IndexStart(cfg) \in Nat
    BY <1>2, <1>3
  <2> QED BY <1>3, <2>2, <2>3, SetsAreNumbers
<1> HIDE DEF lines
<1>8. {SetOf(cfg, a) : a \in lines} = 0 .. pow2[cfg.setBits] - 1
  BY <1>6, <1>7
<1> QED BY <1>8 DEF lines

(* Half of the numbers below 2 n have a given lowest bit. *)
LEMMA HalfOfThem ==
  ASSUME NEW n \in Nat, NEW t \in 0 .. 1
  PROVE  Cardinality({z \in 0 .. 2 * n - 1 : z % 2 = t}) = n
<1> DEFINE S == {z \in 0 .. 2 * n - 1 : z % 2 = t}
           f == [i \in 1 .. n |-> 2 * (i - 1) + t]
<1>1. f \in [1 .. n -> S]
  OBVIOUS
<1>2. \A i, j \in 1 .. n : f[i] = f[j] => i = j
  OBVIOUS
<1>3. \A z \in S : \E i \in 1 .. n : f[i] = z
  <2> SUFFICES ASSUME NEW z \in S PROVE \E i \in 1 .. n : f[i] = z
    OBVIOUS
  <2> DEFINE i == (z \div 2) + 1
  <2>1. i \in 1 .. n /\ 2 * (i - 1) + t = z
    OBVIOUS
  <2> QED BY <2>1
<1> HIDE DEF f, S
<1>4. f \in Bijection(1 .. n, S)
  BY <1>1, <1>2, <1>3 DEF Bijection, Injection, Surjection, IsInjective
<1>5. Cardinality(S) = n
  BY <1>4, FS_CountingElements DEF ExistsBijection
<1> QED BY <1>5 DEF S

(* The set index that starts at the highest bit of the bank. *)
LEMMA SetWithBankBit ==
  ASSUME NEW a \in Nat, NEW low \in Nat, NEW n \in Nat
  PROVE  /\ (a \div pow2[low]) % pow2[n + 1] = 2 * ((a \div pow2[low + 1]) % pow2[n]) + Bit(a, low)
         /\ Bit(a, low) \in 0 .. 1
         /\ ((a \div pow2[low]) % pow2[n + 1]) % 2 = Bit(a, low)
<1> DEFINE q == a \div pow2[low]
           h == q \div 2
           t == q % 2
           N == pow2[n]
           k == h \div N
           y == h % N
<1>1. pow2[low] \in Nat \ {0} /\ N \in Nat \ {0} /\ pow2[n + 1] = 2 * N /\ pow2[low + 1] = pow2[low] * 2
  <2>1. pow2[low] \in Nat \ {0} /\ pow2[low + 1] = 2 * pow2[low]
    BY Powers
  <2>2. 2 * pow2[low] = pow2[low] * 2
    BY <2>1
  <2> QED BY <2>1, <2>2, Powers
<1>2. q \in Nat
  BY <1>1, Quotient
<1>3. h = a \div pow2[low + 1]
  BY <1>1, DivDiv
<1>4. t = Bit(a, low)
  BY DEF Bit
<1> HIDE DEF q, N
<1>5. q = 2 * h + t /\ h \in Nat /\ t \in 0 .. 1
  BY <1>2
<1> HIDE DEF h, t
<1>6. h = N * k + y /\ k \in Nat /\ y \in 0 .. N - 1
  BY <1>1, <1>5, Quotient
<1> HIDE DEF k, y
<1>7. q = (2 * N) * k + (2 * y + t)
  <2>1. 2 * (N * k) = (2 * N) * k /\ N * k \in Nat
    BY <1>1, <1>6
  <2> QED BY <1>5, <1>6, <2>1
<1>8. q % (2 * N) = 2 * y + t
  <2>1. 2 * y + t \in 0 .. (2 * N) - 1 /\ 2 * N \in Nat \ {0}
    BY <1>1, <1>5, <1>6
  <2> QED BY <1>6, <1>7, <2>1, RemainderIs
<1>9. (2 * y + t) % 2 = t
  BY <1>5, <1>6
<1> QED BY <1>1, <1>3, <1>4, <1>5, <1>8, <1>9 DEF y, N, q

LEMMA WayTellsBits ==
  ASSUME NEW low \in Nat, NEW bits \in Nat, NEW k, NEW a \in Nat, Way(low, 0, bits, k, a), NEW i \in 1 .. bits
  PROVE  Bit(a, low + i - 1) = Bit(k, i - 1)
<1>1. Hashed(low, 0, bits)[i] = {low + i - 1}
  BY HashedIs
<1>2. low + i - 1 \in Nat
  OBVIOUS
<1>3. Parity(a, {low + i - 1}) = Bit(a, low + i - 1)
  BY <1>2, ParityOfOne
<1> QED BY <1>1, <1>3 DEF Way, HasBits

LEMMA ProbeFiltersAreUsed == SystemInv /\ RoundMemories(cfg) => ProbeFiltersUseHalf
<1> SUFFICES ASSUME SystemInv, RoundMemories(cfg), Built, cfg.protocol = "MOESI_hammer", cfg.numa_high_bit = 0,
                    cfg.xor_low_bit = 0, cfg.buffer.DRAM = 0, NEW d \in 1 .. cfg.dirs
             PROVE  LET sets == {SetOf(cfg, a) : a \in {x \in Lines(cfg) : d \in HomesOf(homes["memory"], x)}}
                    IN Cardinality(sets) * (IF cfg.dirs = 1 THEN 1 ELSE 2) = pow2[cfg.setBits]
  BY DEF ProbeFiltersUseHalf
<1> DEFINE n == cfg.dirs
           bits == BankBits(cfg)
           low == cfg.block
           F == DirectoryRanges(cfg)
           lines == {x \in Lines(cfg) : d \in HomesOf(homes["memory"], x)}
           sets == {SetOf(cfg, a) : a \in lines}
<1>1. /\ cfg \in Configs /\ cfg.protocol # "classic" /\ ~Refused(cfg)
      /\ homes = Homes(cfg) /\ \A f \in DOMAIN homes : AllAccepted(homes[f])
  BY DEF SystemInv, Built
<1>2. Typed(cfg) /\ bits \in Nat /\ n \in Nat \ {0} /\ bits = Log2(n)
  BY <1>1, ConfigsAreTyped, NumberOfBanks
<1>3. low \in Nat /\ cfg.setBits \in Nat
  BY <1>2 DEF Typed
<1>4. PICK r \in RangesOf(cfg) : HasRoom(cfg, r)
  BY <1>1 DEF RoundMemories, RoundRuby
<1>5. r.start \in Nat /\ r.size \in Nat
  BY <1>2 DEF Typed
<1>6. homes["memory"] = F /\ "memory" \in DOMAIN homes
  BY <1>1 DEF Homes
<1>7. FirstWays(F, RangesOf(cfg), n, low, 0)
  <2>1. DirHigh(cfg) = low + Log2(n) - 1 /\ DirXor(cfg) = 0
    BY DEF DirHigh, DirXor
  <2>2. /\ DOMAIN F = IF cfg.boot THEN 1 .. n + 1 ELSE 1 .. n
        /\ \A i \in 1 .. n : F[i] = {AddrRange(q, DirHigh(cfg), DirXor(cfg), Log2(n), i - 1) : q \in RangesOf(cfg)}
    BY <1>2, DirectoriesAre
  <2> HIDE DEF F, n, low
  <2> QED BY <1>2, <2>1, <2>2 DEF FirstWays
<1>8. ASSUME NEW a PROVE /\ d \in HomesOf(F, a) => Way(low, 0, bits, d - 1, a)
                         /\ a \in LinesOf(cfg, r) /\ Way(low, 0, bits, d - 1, a) => d \in HomesOf(F, a)
  <2> DEFINE A(q) == AddrRange(q, low + Log2(n) - 1, IF 0 # 0 THEN 0 + Log2(n) - 1 ELSE 0, Log2(n), d - 1)
  <2>1. d \in DOMAIN F /\ F[d] = {A(q) : q \in RangesOf(cfg)}
    BY <1>7 DEF FirstWays
  <2>2. \A q \in RangesOf(cfg) : Covers(A(q), a) <=> InRange(q, a) /\ Way(low, 0, Log2(n), d - 1, a)
    BY <1>2, WayCovers
  <2> HIDE DEF A, F
  <2>3. d \in HomesOf(F, a) <=> \E q \in RangesOf(cfg) : Covers(A(q), a)
    BY <2>1 DEF HomesOf
  <2>4. a \in LinesOf(cfg, r) => InRange(r, a)
    BY <1>5, LineIsInRange
  <2> QED BY <1>2, <2>2, <2>3, <2>4
<1>9. pow2[bits] = n
  <2> DEFINE A == AddrRange(r, low + Log2(n) - 1, IF 0 # 0 THEN 0 + Log2(n) - 1 ELSE 0, Log2(n), n - 1)
  <2>1. n \in DOMAIN F /\ A \in F[n]
    BY <1>2, <1>7 DEF FirstWays
  <2>2. Accepted(A)
    BY <1>1, <1>6, <2>1 DEF AllAccepted
  <2> QED BY <1>2, <2>2, WaysAreAll
<1>10. \A a \in lines : a \in Nat /\ Way(low, 0, bits, d - 1, a)
  BY <1>1, <1>6, <1>8, LinesAreInRanges
<1>11. ASSUME NEW rest \in Nat, RoomFor(r, low + bits + rest), NEW s \in 0 .. pow2[rest] - 1
       PROVE  \E a \in lines : (a \div pow2[low + bits]) % pow2[rest] = s
  <2>1. d - 1 \in 0 .. pow2[bits] - 1
    BY <1>2, <1>9
  <2>2. PICK a : InBank(cfg, r, bits, rest, d - 1, s, a)
    BY <1>2, <1>3, <1>5, <1>11, <2>1, BankHasSet
  <2>3. a \in Lines(cfg)
    BY <2>2 DEF InBank, Lines, WithBoot
  <2>4. d \in HomesOf(F, a)
    BY <1>8, <2>2 DEF InBank
  <2> QED BY <1>6, <2>2, <2>3, <2>4 DEF InBank
<1>12. CASE n = 1
  <2>1. bits = 0
    <3> SUFFICES ASSUME bits # 0 PROVE FALSE
      OBVIOUS
    <3>1. bits - 1 \in Nat /\ bits = (bits - 1) + 1
      BY <1>2
    <3>2. pow2[bits] = 2 * pow2[bits - 1] /\ pow2[bits - 1] \in Nat
      BY <3>1, Powers
    <3> QED BY <1>9, <1>12, <3>2
  <2>2. IndexStart(cfg) = low
    BY <2>1 DEF IndexStart
  <2>3. RoomFor(r, low + bits + cfg.setBits) /\ low + bits = low
    <3> DEFINE total == low + bits + cfg.setBits
    <3>1. total = IndexStart(cfg) + cfg.setBits /\ low + bits = low
      BY <1>3, <2>1, <2>2
    <3> HIDE DEF total
    <3>2. RoomFor(r, total)
      BY <1>1, <1>4, <3>1, RoomIs
    <3> QED BY <3>1, <3>2 DEF total
  <2>4. \A s \in 0 .. pow2[cfg.setBits] - 1 : \E a \in lines : SetOf(cfg, a) = s
    <3> SUFFICES ASSUME NEW s \in 0 .. pow2[cfg.setBits] - 1 PROVE \E a \in lines : SetOf(cfg, a) = s
      OBVIOUS
    <3>1. PICK a \in lines : (a \div pow2[low + bits]) % pow2[cfg.setBits] = s
      BY <1>3, <1>11, <2>3
    <3> QED BY <2>2, <2>3, <3>1 DEF SetOf
  <2>5. \A a \in lines : SetOf(cfg, a) \in 0 .. pow2[cfg.setBits] - 1
    BY <1>3, <1>10, <2>2, SetsAreNumbers
  <2>6. sets = 0 .. pow2[cfg.setBits] - 1
    <3> HIDE DEF lines
    <3> QED BY <2>4, <2>5
  <2>7. Cardinality(0 .. pow2[cfg.setBits] - 1) = pow2[cfg.setBits] /\ pow2[cfg.setBits] \in Nat
    <3>1. pow2[cfg.setBits] \in Nat \ {0}
      BY <1>3, Powers
    <3> DEFINE m == pow2[cfg.setBits]
    <3>2. m \in Nat \ {0}
      BY <3>1
    <3> HIDE DEF m
    <3>3. Cardinality(0 .. m - 1) = m
      BY <3>2, FS_Interval
    <3> QED BY <3>1, <3>3 DEF m
  <2> HIDE DEF sets
  <2>8. Cardinality(sets) * 1 = pow2[cfg.setBits]
    BY <2>6, <2>7
  <2> QED BY <1>12, <2>8 DEF sets
<1>13. CASE n # 1
  <2>1. bits # 0 /\ cfg.setBits # 0
    BY <1>1, <1>9, <1>13, Powers DEF RoundMemories, RoundRuby
  <2> DEFINE top == low + bits - 1
             rest == cfg.setBits - 1
             t == Bit(d - 1, bits - 1)
  <2>2. /\ IndexStart(cfg) = top /\ top \in Nat /\ rest \in Nat
        /\ top + 1 = low + bits /\ rest + 1 = cfg.setBits
    <3>1. IndexStart(cfg) = bits + low - 1
      BY <2>1 DEF IndexStart
    <3> QED BY <1>2, <1>3, <2>1, <3>1
  <2>3. RoomFor(r, low + bits + rest)
    <3> DEFINE total == low + bits + rest
    <3>1. total = IndexStart(cfg) + cfg.setBits
      BY <1>2, <1>3, <2>2
    <3> HIDE DEF total
    <3>2. RoomFor(r, total)
      BY <1>1, <1>4, <3>1, RoomIs
    <3> QED BY <3>2 DEF total
  <2>4. ASSUME NEW a \in lines
        PROVE  /\ SetOf(cfg, a) = 2 * ((a \div pow2[low + bits]) % pow2[rest]) + t
               /\ t \in 0 .. 1 /\ SetOf(cfg, a) % 2 = t
    <3>1. Bit(a, top) = t
      <4>1. bits \in 1 .. bits
        BY <1>2, <2>1
      <4>2. a \in Nat /\ Way(low, 0, bits, d - 1, a)
        BY <1>10
      <4> QED BY <1>2, <1>3, <4>1, <4>2, WayTellsBits
    <3>2. /\ (a \div pow2[top]) % pow2[rest + 1] = 2 * ((a \div pow2[top + 1]) % pow2[rest]) + Bit(a, top)
          /\ Bit(a, top) \in 0 .. 1
          /\ ((a \div pow2[top]) % pow2[rest + 1]) % 2 = Bit(a, top)
      BY <1>10, <2>2, SetWithBankBit
    <3> HIDE DEF top, rest, t
    <3> QED BY <2>2, <3>1, <3>2 DEF SetOf
  <2> DEFINE N == pow2[rest]
  <2>5. N \in Nat \ {0} /\ pow2[cfg.setBits] = 2 * N
    BY <2>2, Powers
  <2>6. t \in 0 .. 1
    <3>1. d - 1 \in Nat /\ bits - 1 \in Nat
      BY <1>2, <2>1
    <3> QED BY <3>1, BitIsBit
  <2>7. \A a \in lines : SetOf(cfg, a) \in 0 .. 2 * N - 1
    <3>1. IndexStart(cfg) \in Nat
      BY <2>2
    <3> QED BY <1>3, <1>10, <2>5, <3>1, SetsAreNumbers
  <2>8. ASSUME NEW z \in 0 .. 2 * N - 1, z % 2 = t PROVE \E a \in lines : SetOf(cfg, a) = z
    <3> DEFINE y == z \div 2
    <3>1. y \in 0 .. pow2[rest] - 1 /\ z = 2 * y + t
      <4> HIDE DEF N, t
      <4>1. y \in 0 .. N - 1 /\ z = 2 * y + t
        BY <2>5, <2>8
      <4> QED BY <4>1 DEF N
    <3>2. PICK a \in lines : (a \div pow2[low + bits]) % pow2[rest] = y
      BY <1>11, <2>2, <2>3, <3>1
    <3> QED BY <2>4, <3>1, <3>2
  <2>9. sets = {z \in 0 .. 2 * N - 1 : z % 2 = t}
    <3>1. \A a \in lines : SetOf(cfg, a) % 2 = t
      BY <2>4
    <3> HIDE DEF lines, N, t
    <3> QED BY <2>7, <2>8, <3>1
  <2> HIDE DEF N, t, sets
  <2>10. Cardinality(sets) = N
    BY <2>5, <2>6, <2>9, HalfOfThem
  <2>11. Cardinality(sets) * 2 = pow2[cfg.setBits]
    BY <2>5, <2>10
  <2> QED BY <1>13, <2>11 DEF sets
<1> QED BY <1>12, <1>13
-----------------------------------------------------------------------------
(* The places of the interfaces of config_mem(). *)
Numbers(c) == 1 .. Len(c.ranges)
ListOf(c, k) == IF k \in OwnController(c) THEN OwnController(c) ELSE SharedNvm(c)

LEMMA RangesAre ==
  ASSUME NEW c \in Configs
  PROVE  /\ RangesOf(c) = {c.ranges[k] : k \in Numbers(c)}
         /\ IsFiniteSet(OwnController(c)) /\ IsFiniteSet(SharedNvm(c))
         /\ OwnController(c) \subseteq Numbers(c) /\ SharedNvm(c) \subseteq Numbers(c)
         /\ \A k \in Numbers(c) : k \in ListOf(c, k)
<1>1. Len(c.ranges) \in Nat
  BY ConfigAssumption
<1>2. IsFiniteSet(Numbers(c))
  BY <1>1, FS_Interval DEF Numbers
<1>3. OwnController(c) \subseteq Numbers(c) /\ SharedNvm(c) \subseteq Numbers(c)
  BY DEF OwnController, SharedNvm, Numbers
<1>4. IsFiniteSet(OwnController(c)) /\ IsFiniteSet(SharedNvm(c))
  BY <1>2, <1>3, FS_Subset
<1>5. \A k \in Numbers(c) : k \in ListOf(c, k)
  BY DEF ListOf, SharedNvm, Numbers
<1>6. RangesOf(c) = {c.ranges[k] : k \in Numbers(c)}
  BY DEF RangesOf, Numbers
<1> QED BY <1>3, <1>4, <1>5, <1>6

(* The interfaces of a range get places that the earlier ranges of its     *)
(* list have left, among the controllers that there are.                   *)
LEMMA PlacesAreTheirs ==
  ASSUME NEW c \in Configs, c.protocol = "classic", ~ClassicRefused(c), NEW k \in Numbers(c)
  PROVE  LET e == [i \in 1 .. c.channels |-> PlaceOf(c, k, i)]
         IN e \in Injection(1 .. c.channels, DOMAIN ClassicRanges(c))
<1> DEFINE n == c.channels
           list == ListOf(c, k)
           before == {j \in list : j < k}
           e == [i \in 1 .. n |-> PlaceOf(c, k, i)]
           own == Cardinality(OwnController(c))
<1>1. n \in Nat \ {0} /\ Len(c.ranges) \in Nat
  BY ConfigAssumption
<1>2. IsFiniteSet(list) /\ list \subseteq Numbers(c) /\ k \in list
  BY RangesAre DEF ListOf
<1>3. Cardinality(before) \in Nat /\ Cardinality(before) < Cardinality(list) /\ Cardinality(list) \in Nat
  <2>1. IsFiniteSet(before) /\ k \notin before /\ before \subseteq list
    <3>1. before \subseteq list
      OBVIOUS
    <3>2. k \in Int
      BY <1>1 DEF Numbers
    <3> QED BY <1>2, <3>1, <3>2, FS_Subset
  <2>2. Cardinality(before) \in Nat /\ Cardinality(list) \in Nat /\ Cardinality(before) <= Cardinality(list)
    BY <1>2, <2>1, FS_Subset, FS_CardinalityType
  <2>3. Cardinality(before) # Cardinality(list)
    BY <1>2, <2>1, FS_Subset
  <2> HIDE DEF before, list
  <2> QED BY <2>2, <2>3
<1>4. Cardinality(list) <= own /\ own \in Nat
  <2>1. own \in Nat /\ Cardinality(SharedNvm(c)) \in Nat
    BY RangesAre, FS_CardinalityType
  <2>2. ~(Cardinality(SharedNvm(c)) > own)
    BY DEF ClassicRefused
  <2> QED BY <2>1, <2>2 DEF ListOf
<1>5. \A i \in 1 .. n : e[i] = Cardinality(before) * n + i
  BY DEF PlaceOf, ListOf
<1>6. DOMAIN ClassicRanges(c) = 1 .. own * n
  BY DEF ClassicRanges
<1> HIDE DEF e
<1> DEFINE m == Cardinality(before)
<1>7. m \in Nat /\ m + 1 <= own
  BY <1>3, <1>4
<1>8. \A i \in 1 .. n : e[i] = m * n + i
  BY <1>5
<1> HIDE DEF m, n, own, before
<1>9. m * n \in Nat /\ m * n + n <= own * n /\ own * n \in Nat
  <2>1. (m + 1) * n <= own * n
    BY <1>1, <1>4, <1>7
  <2>2. (m + 1) * n = m * n + n
    BY <1>1, <1>7
  <2> QED BY <1>1, <1>4, <1>7, <2>1, <2>2
<1>10. \A i \in 1 .. n : e[i] \in 1 .. own * n
  BY <1>1, <1>8, <1>9
<1>11. \A i, j \in 1 .. n : e[i] = e[j] => i = j
  BY <1>1, <1>8, <1>9
<1>12. e \in [1 .. n -> 1 .. own * n]
  BY <1>10 DEF e
<1>13. e \in Injection(1 .. n, DOMAIN ClassicRanges(c))
  BY <1>6, <1>11, <1>12 DEF Injection, IsInjective
<1> QED BY <1>13 DEF e, n

LEMMA RangesApart ==
  ASSUME NEW c \in Configs, RoundClassic(c), NEW k \in Numbers(c), NEW a \in LinesOf(c, c.ranges[k]),
         NEW j \in Numbers(c), InRange(c.ranges[j], a)
  PROVE  j = k
<1> DEFINE r == c.ranges[k]
           q == c.ranges[j]
<1>1. r \in RangesOf(c) /\ q \in RangesOf(c)
  BY RangesAre
<1>2. r.start \in Nat /\ r.size \in Nat /\ q.start \in Nat /\ q.size \in Nat
  BY <1>1, ConfigsAreTyped DEF Typed
<1>3. a \in Nat /\ InRange(r, a)
  BY <1>2, LineIsInRange
<1>4. q.start <= a /\ a < q.start + q.size /\ r.start <= a /\ a < r.start + r.size
  BY <1>3 DEF InRange
<1>5. j \in Int /\ k \in Int
  <2>1. Len(c.ranges) \in Nat
    BY ConfigAssumption
  <2> QED BY <2>1 DEF Numbers
<1>6. /\ j < k => q.start + q.size <= r.start \/ r.start + r.size <= q.start
      /\ k < j => q.start + q.size <= r.start \/ r.start + r.size <= q.start
  BY DEF RoundClassic, Numbers
<1> HIDE DEF r, q
<1> QED BY <1>2, <1>3, <1>4, <1>5, <1>6

LEMMA ChannelsAreWays ==
  ASSUME NEW c \in Configs, c.protocol = "classic", ~ClassicRefused(c), RoundClassic(c), NEW k \in Numbers(c)
  PROVE  WaysOf(c, c.ranges[k], ClassicRanges(c), [i \in 1 .. c.channels |-> PlaceOf(c, k, i)],
                c.channels, ChannelsFrom(c, k), c.xor_low_bit)
<1> DEFINE n == c.channels
           F == ClassicRanges(c)
           e == [i \in 1 .. n |-> PlaceOf(c, k, i)]
           r == c.ranges[k]
           low == ChannelsFrom(c, k)
           x == c.xor_low_bit
<1>1. n \in Nat \ {0}
  BY ConfigAssumption
<1>2. e \in Injection(1 .. n, DOMAIN F)
  BY PlacesAreTheirs
<1>3. \A i, j \in 1 .. n : PlaceOf(c, k, i) = PlaceOf(c, k, j) => i = j
  BY <1>2 DEF Injection, IsInjective
<1>4. ASSUME NEW a \in LinesOf(c, r), NEW i \in 1 .. n
      PROVE  Covers(Interface(c, k, i), a) <=> Way(low, x, Log2(n), i - 1, a)
  <2>1. Interface(c, k, i) = AddrRange(r, low + Log2(n) - 1, IF x # 0 THEN x + Log2(n) - 1 ELSE 0, Log2(n), i - 1)
    BY DEF Interface, CreateMemIntf, ChannelsFrom
  <2>2. InRange(r, a)
    <3>1. r \in RangesOf(c)
      BY RangesAre
    <3>2. r.start \in Nat /\ r.size \in Nat
      BY <3>1, ConfigsAreTyped DEF Typed
    <3> QED BY <3>2, LineIsInRange
  <2>3. Log2(n) \in Nat
    BY <1>1, Log2Is
  <2> HIDE DEF r, low, x, n
  <2> QED BY <2>1, <2>2, <2>3, WayCovers
<1>5. ASSUME NEW a \in LinesOf(c, r), NEW j \in Numbers(c), NEW i \in 1 .. n, Covers(Interface(c, j, i), a)
      PROVE  j = k
  <2>1. InRange(c.ranges[j], a)
    BY <1>5 DEF Interface, CreateMemIntf, AddrRange, Covers, InRange
  <2> QED BY <2>1, RangesApart
<1>6. ASSUME NEW p \in DOMAIN F, NEW a
      PROVE  p \in HomesOf(F, a)
               <=> \E j \in Numbers(c) : \E i \in 1 .. n : PlaceOf(c, j, i) = p /\ Covers(Interface(c, j, i), a)
  <2> DEFINE Q == {y \in Numbers(c) \X (1 .. n) : PlaceOf(c, y[1], y[2]) = p}
  <2>1. F[p] = {Interface(c, q[1], q[2]) : q \in Q}
    BY DEF ClassicRanges, Numbers
  <2>2. p \in HomesOf(F, a) <=> \E q \in Q : Covers(Interface(c, q[1], q[2]), a)
    BY <2>1 DEF HomesOf
  <2>3. ASSUME NEW j \in Numbers(c), NEW i \in 1 .. n, PlaceOf(c, j, i) = p, Covers(Interface(c, j, i), a)
        PROVE  \E q \in Q : Covers(Interface(c, q[1], q[2]), a)
    <3>1. <<j, i>> \in Q
      BY <2>3
    <3> QED BY <2>3, <3>1
  <2> QED BY <2>2, <2>3
<1>7. ASSUME NEW a \in LinesOf(c, r), NEW i \in 1 .. n
      PROVE  e[i] \in HomesOf(F, a) <=> Way(low, x, Log2(n), i - 1, a)
  <2>1. e[i] \in DOMAIN F /\ e[i] = PlaceOf(c, k, i)
    BY <1>2 DEF Injection
  <2> HIDE DEF e, F, low, x
  <2> QED BY <1>3, <1>4, <1>5, <1>6, <2>1
<1>8. ASSUME NEW a \in LinesOf(c, r), NEW p \in DOMAIN F, p \in HomesOf(F, a) PROVE \E i \in 1 .. n : p = e[i]
  BY <1>5, <1>6, <1>8
<1> HIDE DEF n, F, e, r, low, x
<1>9. WaysOf(c, r, F, e, n, low, x)
  BY <1>2, <1>7, <1>8 DEF WaysOf
<1> QED BY <1>9 DEF n, F, e, r, low, x

LEMMA ChannelsAreEven ==
  ASSUME NEW c \in Configs, c.protocol = "classic", ~ClassicRefused(c), RoundClassic(c), NEW k \in Numbers(c)
  PROVE  /\ c.channels \in Nat \ {0} /\ Log2(c.channels) \in Nat /\ pow2[Log2(c.channels)] = c.channels
         /\ c.xor_low_bit \in Nat /\ ChannelsFrom(c, k) \in Nat
         /\ EvenIn(c, c.ranges[k], ChannelsFrom(c, k), Log2(c.channels))
<1>1. c.channels \in Nat \ {0}
  BY ConfigAssumption
<1>2. Log2(c.channels) \in Nat
  BY <1>1, Log2Is
<1>3. pow2[Log2(c.channels)] = c.channels
  BY DEF ClassicRefused
<1>4. Typed(c) /\ c.ranges[k] \in RangesOf(c)
  BY ConfigsAreTyped, RangesAre
<1>5. ChannelsFrom(c, k) \in Nat
  BY <1>4 DEF ChannelsFrom, IntfKind, Typed
<1>6. Even(c, c.ranges[k], ChannelsFrom(c, k), Log2(c.channels))
  BY DEF RoundClassic, Numbers
<1>7. EvenIn(c, c.ranges[k], ChannelsFrom(c, k), Log2(c.channels))
  BY <1>2, <1>4, <1>5, <1>6 DEF EvenIn, Typed
<1> QED BY <1>1, <1>2, <1>3, <1>4, <1>5, <1>7 DEF Typed

LEMMA ChannelsDivide ==
  ASSUME NEW c \in Configs, c.protocol = "classic", ~ClassicRefused(c), RoundClassic(c), NEW a \in Lines(c)
  PROVE  Cardinality(HomesOf(ClassicRanges(c), a)) = 1
<1> DEFINE n == c.channels
           F == ClassicRanges(c)
<1>1. PICK k \in Numbers(c) : a \in LinesOf(c, c.ranges[k])
  BY RangesAre DEF Lines, WithBoot, RoundClassic
<1> DEFINE e == [i \in 1 .. n |-> PlaceOf(c, k, i)]
           low == ChannelsFrom(c, k)
           x == c.xor_low_bit
<1>2. WaysOf(c, c.ranges[k], F, e, n, low, x)
  BY ChannelsAreWays
<1>3. n \in Nat \ {0} /\ Log2(n) \in Nat /\ pow2[Log2(n)] = n /\ x \in Nat /\ low \in Nat
  BY ChannelsAreEven
<1> HIDE DEF n, F, e, low, x
<1>4. /\ \E v \in 0 .. n - 1 : Way(low, x, Log2(n), v, a)
      /\ \A v, w \in 0 .. n - 1 : Way(low, x, Log2(n), v, a) /\ Way(low, x, Log2(n), w, a) => v = w
  BY <1>3, EveryNumberHasWay
<1>5. PICK v \in 0 .. n - 1 : Way(low, x, Log2(n), v, a)
  BY <1>4
<1>6. v + 1 \in 1 .. n /\ (v + 1) - 1 = v
  BY <1>3
<1>7. e[v + 1] \in HomesOf(F, a)
  BY <1>1, <1>2, <1>5, <1>6 DEF WaysOf
<1>8. ASSUME NEW p \in HomesOf(F, a) PROVE p = e[v + 1]
  <2>1. PICK i \in 1 .. n : p = e[i]
    BY <1>1, <1>2 DEF WaysOf, HomesOf
  <2>2. Way(low, x, Log2(n), i - 1, a) /\ i - 1 \in 0 .. n - 1
    BY <1>1, <1>2, <1>3, <2>1 DEF WaysOf
  <2>3. i - 1 = v
    BY <1>4, <1>5, <2>2
  <2>4. i = v + 1
    BY <1>3, <2>3
  <2> QED BY <2>1, <2>4
<1>9. HomesOf(F, a) = {e[v + 1]}
  BY <1>7, <1>8
<1> QED BY <1>9, OneIsEnough DEF F

LEMMA ChannelsHaveEqualParts ==
  ASSUME NEW c \in Configs, c.protocol = "classic", ~ClassicRefused(c), RoundClassic(c), NEW r \in RangesOf(c)
  PROVE  EqualParts(c, r, ClassicRanges(c), c.channels)
<1>1. PICK k \in Numbers(c) : r = c.ranges[k]
  BY RangesAre
<1> DEFINE e == [i \in 1 .. c.channels |-> PlaceOf(c, k, i)]
           low == ChannelsFrom(c, k)
<1>2. WaysOf(c, r, ClassicRanges(c), e, c.channels, low, c.xor_low_bit)
  BY <1>1, ChannelsAreWays
<1>3. /\ c.channels \in Nat \ {0} /\ pow2[Log2(c.channels)] = c.channels /\ c.xor_low_bit \in Nat
      /\ EvenIn(c, r, low, Log2(c.channels))
  BY <1>1, ChannelsAreEven
<1> HIDE DEF e, low
<1> QED BY <1>2, <1>3, WaysHaveEqualParts

LEMMA FamiliesAreEven == SystemInv /\ RoundMemories(cfg) => OneHome
<1> SUFFICES ASSUME SystemInv, RoundMemories(cfg), phase = "running", NEW f \in DOMAIN homes
             PROVE  OneHomeIn(homes[f]) /\ \A r \in RangesOf(cfg) : EqualParts(cfg, r, homes[f], Ways(cfg)[f])
  BY DEF OneHome, EqualParts, EqualPart
<1>1. cfg \in Configs /\ homes = Homes(cfg) /\ AllAccepted(homes[f])
  BY DEF SystemInv
<1>2. CASE cfg.protocol = "classic"
  <2>1. homes = [channel |-> ClassicRanges(cfg)] /\ Ways(cfg)["channel"] = cfg.channels
    BY <1>1, <1>2 DEF Homes, Ways
  <2>2. RoundClassic(cfg) /\ ~ClassicRefused(cfg)
    BY <1>2 DEF RoundMemories, SystemInv
  <2>3. f = "channel" /\ homes[f] = ClassicRanges(cfg)
    BY <2>1
  <2> QED BY <1>1, <1>2, <2>1, <2>2, <2>3, ChannelsDivide, ChannelsHaveEqualParts DEF OneHomeIn
<1>3. CASE cfg.protocol # "classic"
  <2>1. OneHomeIn(homes[f])
    BY <1>3, FamiliesDivide DEF Built
  <2>2. RoundRuby(cfg) /\ ~Refused(cfg)
    BY <1>3 DEF RoundMemories, SystemInv
  <2>3. /\ cfg.dirs \in Nat /\ cfg.l2s \in Nat /\ cfg.l3s \in Nat
        /\ cfg.protocol # "CHI" => cfg.dirs # 0 /\ cfg.l2s # 0
    BY <1>1, ConfigAssumption
  <2>4. cfg.dirs # 0 /\ (cfg.protocol = "CHI" => cfg.l3s # 0)
    BY <2>2, <2>3 DEF Refused
  <2> SUFFICES ASSUME NEW r \in RangesOf(cfg) PROVE EqualParts(cfg, r, homes[f], Ways(cfg)[f])
    BY <2>1
  <2>5. CASE f = "memory"
    <3>1. homes[f] = DirectoryRanges(cfg) /\ Ways(cfg)[f] = cfg.dirs
      BY <1>1, <1>3, <2>5 DEF Homes, Ways
    <3>2. Even(cfg, r, DirectoriesFrom(cfg), Log2(cfg.dirs))
      BY <2>2 DEF RoundRuby
    <3> QED BY <1>1, <2>4, <3>1, <3>2, DirectoriesHaveEqualParts
  <2>6. CASE f # "memory"
    <3>1. f = "cache" /\ cfg.protocol \in {"CHI", "MOESI_CMP_directory"}
      BY <1>1, <1>3, <2>6 DEF Homes
    <3> DEFINE n == Ways(cfg).cache
    <3>2. homes[f] = BankRanges(cfg, n) /\ n = Ways(cfg)[f]
      BY <1>1, <3>1 DEF Homes, Ways
    <3>3. n \in Nat \ {0}
      BY <2>3, <2>4, <3>1 DEF Ways
    <3>4. Even(cfg, r, cfg.block, Log2(n))
      BY <1>1, <2>2, <3>1 DEF RoundRuby
    <3> HIDE DEF n
    <3> QED BY <1>1, <3>2, <3>3, <3>4, BanksHaveEqualParts
  <2> QED BY <2>5, <2>6
<1> QED BY <1>2, <1>3

LEMMA MemoriesAreReached == SystemInv => (RoundMemories(cfg) => MemoryIsReached)
  BY FamiliesAreEven, BanksAreUsed, ProbeFiltersAreUsed DEF MemoryIsReached

(* Every line of memory has one channel, directory and bank, those that    *)
(* share a memory have equal parts of it, and the lines of a bank fill its *)
(* sets: whatever is interleaved and hashed by however many controllers,   *)
(* in classic and Ruby systems alike, if memories are disjoint, of whole   *)
(* multiples of what is interleaved and large enough (MemConfig.py 39-267, *)
(* Ruby.py 98-173 and the start_index_bit of the protocols).               *)
THEOREM RoundMemoriesAreReached == Spec => [](RoundMemories(cfg) => MemoryIsReached)
  BY SystemInit, SystemStep, MemoriesAreReached, PTL DEF Spec
=============================================================================

---------------------------- MODULE FixnumsProofs ----------------------------
(* Proofs about Fixnums, for words of any even number of bits: the instructions *)
(* on two fixnums mean what they mean on the integers, comparisons order them,  *)
(* and the predicates on numbers form a tower.  The arithmetic is done on two   *)
(* numbers: Limit, the least fixnum without its sign, and MaxMiddle, the carry  *)
(* that multiplication allows out of the middle of a product; a word holds      *)
(* 8 * Limit values, half a word 8 * MaxMiddle, and Limit is 8 times the square *)
(* of MaxMiddle.                                                                *)
EXTENDS Fixnums, SetInduction
-----------------------------------------------------------------------------
(* Powers of two, and division by them.                                    *)

\* The recursion of TwoTo has a solution, and TwoTo is it.
LEMMA Powers ==
  /\ TwoTo[0] = 1
  /\ \A n \in 1 .. BitsPerCell : TwoTo[n] = 2 * TwoTo[n - 1]
  /\ \A n \in 0 .. BitsPerCell : TwoTo[n] \in Nat /\ TwoTo[n] > 0
<1> DEFINE N == BitsPerCell
           X == [n \in 0 .. N |-> {i \in Nat : i > 0}]
           G == [n \in 1 .. N |-> [i \in X[n - 1] |-> 2 * i]]
           Solves(f) == f = [n \in 0 .. N |-> IF n = 0 THEN 1 ELSE 2 * f[n - 1]]
           r == Iterates(N, X, 1, G)
<1>1. N \in Nat
  BY WordAssumption
<1>2. 1 \in X[0]
  BY <1>1
<1>3. ASSUME NEW n \in 1 .. N, NEW i \in X[n - 1]
      PROVE  2 * i \in X[n] /\ G[n][i] = 2 * i
  BY <1>1
<1>4. \A n \in 1 .. N : \A i \in X[n - 1] : G[n][i] \in X[n]
  BY <1>3
<1>5. /\ r[0] = 1 /\ \A n \in 1 .. N : r[n] = G[n][r[n - 1]]
      /\ \A n \in 0 .. N : r[n] \in X[n]
  <2> HIDE DEF N, X, G
  <2>1. QED
    BY <1>1, <1>2, <1>4, Recursion
<1>6. \A n \in 1 .. N : r[n] = 2 * r[n - 1]
  <2>1. ASSUME NEW n \in 1 .. N PROVE r[n] = 2 * r[n - 1]
    <3>1. n - 1 \in 0 .. N
      BY <1>1
    <3>2. r[n - 1] \in X[n - 1] /\ r[n] = G[n][r[n - 1]]
      BY <1>5, <3>1
    <3> HIDE DEF r, G, X
    <3>3. QED
      BY <1>3, <3>2
  <2>2. QED
    BY <2>1
<1> DEFINE g == [n \in 0 .. N |-> r[n]]
<1>7. Solves(g)
  <2> HIDE DEF r, X, G
  <2>1. QED
    BY <1>1, <1>5, <1>6
<1>8. Solves(TwoTo)
  <2>1. \E f : Solves(f)
    <3> HIDE DEF Solves, g
    <3>1. QED
      BY <1>7
  <2>2. TwoTo = CHOOSE f : Solves(f)
    BY DEF TwoTo
  <2> HIDE DEF Solves
  <2>3. QED
    BY <2>1, <2>2
<1>9. TwoTo[0] = 1 /\ \A n \in 1 .. N : TwoTo[n] = 2 * TwoTo[n - 1]
  BY <1>1, <1>8
<1>10. \A n \in 0 .. N : TwoTo[n] \in X[n]
  <2>1. TwoTo[0] \in X[0]
    BY <1>2, <1>9
  <2>2. ASSUME NEW n \in 1 .. N, TwoTo[n - 1] \in X[n - 1]
        PROVE  TwoTo[n] \in X[n]
    <3>1. TwoTo[n - 1] \in Nat /\ TwoTo[n - 1] > 0 /\ X[n] = {i \in Nat : i > 0}
      BY <1>1, <2>2
    <3>2. QED
      BY <1>9, <3>1
  <2> HIDE DEF X, N
  <2>3. QED
    BY <2>1, <2>2, <1>1, RecursionStays
<1>11. QED
  BY <1>9, <1>10

\* Exponents add.
LEMMA PowerSum ==
  ASSUME NEW i \in Nat, NEW j \in Nat, i + j <= BitsPerCell
  PROVE  TwoTo[i + j] = TwoTo[i] * TwoTo[j]
<1> DEFINE D == {n \in 0 .. j : TwoTo[i + n] = TwoTo[i] * TwoTo[n]}
<1>1. 0 \in D
  BY Powers, WordAssumption
<1>2. ASSUME NEW n \in 1 .. j, n - 1 \in D
      PROVE  n \in D
  <2>1. TwoTo[n] = 2 * TwoTo[n - 1] /\ TwoTo[i + n] = 2 * TwoTo[i + (n - 1)]
    BY Powers, WordAssumption
  <2>2. TwoTo[i] \in Int /\ TwoTo[n - 1] \in Int
    BY Powers, WordAssumption
  <2>3. TwoTo[i + (n - 1)] = TwoTo[i] * TwoTo[n - 1]
    BY <1>2
  <2>4. QED
    BY <2>1, <2>2, <2>3
<1>3. 0 .. j \subseteq D
  <2> HIDE DEF D
  <2>1. QED
    BY <1>1, <1>2, InductionTo
<1>4. QED
  BY <1>3

\* A quotient and a remainder are determined by what they are.
LEMMA Division ==
  ASSUME NEW d \in Nat, d > 0, NEW n \in Int
  PROVE  /\ n \div d \in Int /\ n % d \in 0 .. d - 1
         /\ n = (n \div d) * d + (n % d)
         /\ \A q \in Int, r \in 0 .. d - 1 : n = q * d + r => q = n \div d /\ r = n % d
<1>1. n \div d \in Int /\ n % d \in 0 .. d - 1
  OBVIOUS
<1>3. n = (n \div d) * d + (n % d)
  OBVIOUS
<1>2. ASSUME NEW q \in Int, NEW r \in 0 .. d - 1, n = q * d + r
      PROVE  q = n \div d /\ r = n % d
  BY <1>2
<1>4. QED
  BY <1>1, <1>2, <1>3
-----------------------------------------------------------------------------
(* Words.                                                                  *)

\* The least fixnum without its sign, and the carry that multiplication allows.
Limit == TwoTo[BitsPerFixnum - 1]

\* The constants of the machine's words in terms of two numbers, Limit and MaxMiddle, in
\* which the rest is linear or quadratic.
LEMMA Sizes ==
  /\ BitsPerCell \in Nat /\ BitsPerCell >= 6
  /\ BitsPerFixnum - 1 = BitsPerCell - 3 /\ HalfWord \in Nat /\ BitsPerCell = 2 * HalfWord
  /\ Limit \in Nat /\ Limit > 0
  /\ Greatest = Limit - 1 /\ Least = -Limit
  /\ TwoTo[BitsPerCell - 2] = 2 * Limit
  /\ TwoTo[BitsPerCell - 1] = 4 * Limit /\ TwoTo[BitsPerCell] = 8 * Limit
  /\ TwoTo[1] = 2 /\ TwoTo[2] = 4
  /\ MaxMiddle \in Nat /\ MaxMiddle > 0
  /\ TwoTo[HalfWord] = 8 * MaxMiddle
  /\ Limit = 8 * (MaxMiddle * MaxMiddle)
<1>1. /\ BitsPerCell \in Nat /\ BitsPerCell >= 6
      /\ BitsPerFixnum - 1 = BitsPerCell - 3 /\ HalfWord \in Nat /\ BitsPerCell = 2 * HalfWord
  BY WordAssumption DEF BitsPerFixnum, HalfWord
<1>2. Limit \in Nat /\ Limit > 0 /\ Greatest = Limit - 1 /\ Least = -Limit
  BY <1>1, Powers DEF Limit, Greatest, Least
<1>3. \A n \in 1 .. BitsPerCell : TwoTo[n] = 2 * TwoTo[n - 1]
  BY Powers
<1>4. TwoTo[BitsPerCell - 2] = 2 * Limit
  <2>1. (BitsPerCell - 2) - 1 = BitsPerCell - 3 /\ BitsPerCell - 2 \in 1 .. BitsPerCell
    BY <1>1
  <2>2. QED
    BY <1>1, <1>3, <2>1 DEF Limit
<1>5. TwoTo[BitsPerCell - 1] = 4 * Limit
  <2>1. (BitsPerCell - 1) - 1 = BitsPerCell - 2 /\ BitsPerCell - 1 \in 1 .. BitsPerCell
    BY <1>1
  <2>2. QED
    BY <1>2, <1>3, <1>4, <2>1
<1>6. TwoTo[BitsPerCell] = 8 * Limit
  BY <1>1, <1>2, <1>3, <1>5
<1>7. TwoTo[1] = 2 /\ TwoTo[2] = 4
  <2>1. 1 \in 1 .. BitsPerCell /\ 2 \in 1 .. BitsPerCell /\ 1 - 1 = 0 /\ 2 - 1 = 1
    BY <1>1
  <2>2. QED
    BY <2>1, <1>3, Powers
<1>8. TwoTo[HalfWord] = 8 * MaxMiddle /\ MaxMiddle \in Nat /\ MaxMiddle > 0
  <2> DEFINE h == HalfWord - 3
  <2>1. h \in Nat /\ BitsPerFixnum - 1 - HalfWord = h /\ h \in 0 .. BitsPerCell
    BY <1>1
  <2>2. MaxMiddle = TwoTo[h] /\ MaxMiddle \in Nat /\ MaxMiddle > 0
    BY <2>1, Powers DEF MaxMiddle
  <2>3. /\ h + 1 \in 1 .. BitsPerCell /\ h + 2 \in 1 .. BitsPerCell /\ h + 3 \in 1 .. BitsPerCell
        /\ (h + 1) - 1 = h /\ (h + 2) - 1 = h + 1 /\ (h + 3) - 1 = h + 2 /\ h + 3 = HalfWord
    BY <1>1
  <2> HIDE DEF h
  <2>4. TwoTo[h + 1] = 2 * TwoTo[h] /\ TwoTo[h + 2] = 2 * TwoTo[h + 1] /\ TwoTo[h + 3] = 2 * TwoTo[h + 2]
    BY <1>3, <2>3
  <2>5. QED
    BY <2>2, <2>3, <2>4
<1>9. Limit = 8 * (MaxMiddle * MaxMiddle)
  <2>1. TwoTo[BitsPerCell] = TwoTo[HalfWord] * TwoTo[HalfWord]
    <3>1. HalfWord + HalfWord = BitsPerCell
      BY <1>1
    <3>2. QED
      BY <1>1, <3>1, PowerSum
  <2>2. QED
    BY <1>2, <1>6, <1>8, <2>1
<1>10. QED
  BY <1>1, <1>2, <1>4, <1>5, <1>6, <1>7, <1>8, <1>9

\* What a word cannot hold wraps around it; the rest stays.
LEMMA LongFacts ==
  ASSUME NEW n \in Int
  PROVE  /\ Unsigned(n) \in 0 .. 8 * Limit - 1
         /\ Long(n) \in -(4 * Limit) .. 4 * Limit - 1
         /\ n \in -(4 * Limit) .. 4 * Limit - 1 => Long(n) = n
         /\ \E k \in Int : Long(n) = n + k * (8 * Limit)
<1> DEFINE M == 8 * Limit
<1>1. M \in Nat /\ M > 0 /\ Unsigned(n) = n % M
  BY Sizes DEF Unsigned
<1>2. Unsigned(n) \in 0 .. M - 1 /\ n \div M \in Int /\ n = (n \div M) * M + Unsigned(n)
      /\ \A q \in Int, r \in 0 .. M - 1 : n = q * M + r => r = Unsigned(n)
  <2> HIDE DEF M
  <2>1. n \div M \in Int /\ n % M \in 0 .. M - 1 /\ n = (n \div M) * M + (n % M)
    BY <1>1, Division
  <2>2. ASSUME NEW q \in Int, NEW r \in 0 .. M - 1, n = q * M + r
        PROVE  r = n % M
    BY <1>1, <2>2, Division
  <2>3. QED
    BY <1>1, <2>1, <2>2
<1>3. Long(n) = IF Unsigned(n) >= 4 * Limit THEN Unsigned(n) - M ELSE Unsigned(n)
  BY Sizes DEF Long
<1>4. Long(n) \in -(4 * Limit) .. 4 * Limit - 1
  BY <1>2, <1>3, Sizes
<1>5. ASSUME n \in -(4 * Limit) .. 4 * Limit - 1
      PROVE  Long(n) = n
  <2>1. CASE n >= 0
    <3>1. n = 0 * M + n /\ n \in 0 .. M - 1
      BY <1>1, <1>5, <2>1, Sizes
    <3>2. QED
      BY <1>2, <1>3, <1>5, <2>1, <3>1, Sizes
  <2>2. CASE n < 0
    <3>1. n = (-1) * M + (n + M) /\ n + M \in 0 .. M - 1
      BY <1>1, <1>5, <2>2, Sizes
    <3>2. Unsigned(n) = n + M
      BY <1>2, <3>1
    <3>3. QED
      BY <1>3, <1>5, <2>2, <3>2, Sizes
  <2>3. QED
    BY <2>1, <2>2
<1>6. \E k \in Int : Long(n) = n + k * M
  <2> DEFINE d == n \div M
  <2>1. d \in Int /\ n = d * M + Unsigned(n)
    BY <1>2
  <2> HIDE DEF d
  <2>2. CASE Unsigned(n) >= 4 * Limit
    <3>1. Long(n) = n + (-d - 1) * M
      <4> HIDE DEF M
      <4>1. QED
        BY <1>1, <1>2, <1>3, <2>1, <2>2
    <3>2. QED
      BY <2>1, <3>1
  <2>3. CASE ~(Unsigned(n) >= 4 * Limit)
    <3>1. Long(n) = n + (-d) * M
      <4> HIDE DEF M
      <4>1. QED
        BY <1>1, <1>2, <1>3, <2>1, <2>3
    <3>2. QED
      BY <2>1, <3>1
  <2>4. QED
    BY <2>2, <2>3
<1>7. QED
  BY <1>2, <1>4, <1>5, <1>6

\* Fixnums are the multiples of 4 in between, and have their values.
LEMMA FixnumFacts ==
  ASSUME NEW n \in Least .. Greatest
  PROVE  /\ n \in Int /\ enter_fixnum(n) = 4 * n /\ enter_fixnum(n) \in Fixnums
         /\ extract_fixnum(4 * n) = n /\ (4 * n) \div 4 = n /\ IsFixnum(4 * n)
<1>1. n \in Int /\ n \in -Limit .. Limit - 1
  BY Sizes
<1>2. enter_fixnum(n) = 4 * n
  <2>1. enter_fixnum(n) = Long(n * 4)
    BY Sizes DEF enter_fixnum, PS_SHIFT_LEFT
  <2>2. n * 4 \in -(4 * Limit) .. 4 * Limit - 1
    BY <1>1, Sizes
  <2>3. QED
    BY <1>1, <2>1, <2>2, LongFacts
<1>3. (4 * n) \div 4 = n /\ IsFixnum(4 * n)
  BY <1>1 DEF IsFixnum
<1>4. extract_fixnum(4 * n) = n
  BY <1>3, Sizes DEF extract_fixnum, PS_SHIFT_RIGHT
<1>5. QED
  BY <1>1, <1>2, <1>3, <1>4 DEF Fixnums
-----------------------------------------------------------------------------
(* Each operation, on the fixnums of m and n.                              *)

\* What ArithmeticExact says of an outcome.
Exact(op, m, n, outcome) ==
  IF outcome.exception = "none"
  THEN outcome.value \in Fixnums /\ Means(op, m, n, outcome.value \div 4)
  ELSE \A r \in Least .. Greatest : Means(op, m, n, r) => op = "*" /\ r = Least

\* A value is exact if it is meant.
LEMMA ExactValue ==
  ASSUME NEW op, NEW m, NEW n, NEW r \in Least .. Greatest, Means(op, m, n, r)
  PROVE  Exact(op, m, n, Value(enter_fixnum(r)))
  BY FixnumFacts DEF Exact, Value

\* An exception is exact if no fixnum is meant.
LEMMA ExactOverflow ==
  ASSUME NEW op, NEW m, NEW n, \A r \in Least .. Greatest : ~Means(op, m, n, r)
  PROVE  Exact(op, m, n, Overflow)
  BY DEF Exact, Overflow

\* add-carefully and subtract-carefully: neither the sum nor the difference leaves a word.
LEMMA AddExact ==
  ASSUME NEW m \in Least .. Greatest, NEW n \in Least .. Greatest
  PROVE  /\ Exact("+", m, n, add_carefully(4 * m, 4 * n))
         /\ Exact("-", m, n, subtract_carefully(4 * m, 4 * n))
<1>1. /\ m \in Int /\ n \in Int /\ m \in -Limit .. Limit - 1 /\ n \in -Limit .. Limit - 1
      /\ extract_fixnum(4 * m) = m /\ extract_fixnum(4 * n) = n
  BY FixnumFacts, Sizes
<1>2. ASSUME NEW op, NEW z \in -(4 * Limit) .. 4 * Limit - 1, \A r : Means(op, m, n, r) <=> r = z
      PROVE  Exact(op, m, n, Carefully(Long(z)))
  <2>1. Long(z) = z /\ z \in Int
    BY LongFacts, Sizes
  <2>2. CASE z \in Least .. Greatest
    <3>1. Carefully(z) = Value(enter_fixnum(z))
      BY <2>1, <2>2, Sizes DEF Carefully, TooBig, TooSmall
    <3>2. QED
      BY <1>2, <2>1, <2>2, <3>1, ExactValue
  <2>3. CASE z \notin Least .. Greatest
    <3>1. Carefully(z) = Overflow
      BY <2>1, <2>3, Sizes DEF Carefully, TooBig, TooSmall
    <3>2. QED
      BY <1>2, <2>1, <2>3, <3>1, ExactOverflow
  <2>4. QED
    BY <2>2, <2>3
<1>3. Exact("+", m, n, Carefully(Long(m + n)))
  <2>1. \A r : Means("+", m, n, r) <=> r = m + n
    BY DEF Means
  <2>2. m + n \in -(4 * Limit) .. 4 * Limit - 1
    BY <1>1, Sizes
  <2>3. QED
    BY <1>2, <2>1, <2>2
<1>4. Exact("-", m, n, Carefully(Long(m - n)))
  <2>1. \A r : Means("-", m, n, r) <=> r = m - n
    BY DEF Means
  <2>2. m - n \in -(4 * Limit) .. 4 * Limit - 1
    BY <1>1, Sizes
  <2>3. QED
    BY <1>2, <2>1, <2>2
<1>5. QED
  BY <1>1, <1>3, <1>4 DEF add_carefully, subtract_carefully

\* The magnitude of a fixnum, and its halves.
LEMMA Halves ==
  ASSUME NEW n \in Least .. Greatest
  PROVE  /\ Abs(n) = (IF n < 0 THEN -n ELSE n) /\ Abs(n) \in 0 .. Limit
         /\ LowHalf(Abs(n)) \in 0 .. 8 * MaxMiddle - 1
         /\ HighHalf(Abs(n)) \in 0 .. MaxMiddle
         /\ Abs(n) = HighHalf(Abs(n)) * (8 * MaxMiddle) + LowHalf(Abs(n))
<1> DEFINE a == Abs(n)
           q == MaxMiddle
           H == 8 * q
           h == a \div H
<1>1. n \in Int /\ n \in -Limit .. Limit - 1
  BY Sizes
<1>2. a = (IF n < 0 THEN -n ELSE n) /\ a \in 0 .. Limit
  <2>1. 0 - n \in -(4 * Limit) .. 4 * Limit - 1
    BY <1>1, Sizes
  <2>2. Long(0 - n) = -n
    BY <1>1, <2>1, LongFacts
  <2>3. QED
    BY <1>1, <2>2, Sizes DEF Abs
<1>3. H \in Nat /\ H > 0 /\ q \in Nat /\ q > 0 /\ Limit = H * q /\ TwoTo[HalfWord] = H
  BY Sizes
<1>4. LowHalf(a) = a % H /\ HighHalf(a) = h % H
  BY <1>3 DEF LowHalf, HighHalf
<1> HIDE DEF a, H, q
<1>5. a % H \in 0 .. H - 1 /\ h \in Int /\ a = h * H + (a % H)
  BY <1>2, <1>3, Division
<1>6. h \in 0 .. q
  <2> HIDE DEF h
  <2>1. h >= 0
    <3>1. SUFFICES ASSUME h <= -1 PROVE FALSE
      BY <1>5
    <3>2. h * H <= -H
      BY <1>3, <1>5, <3>1
    <3>3. QED
      BY <1>2, <1>3, <1>5, <3>2
  <2>2. h <= q
    <3>1. SUFFICES ASSUME h >= q + 1 PROVE FALSE
      BY <1>3, <1>5
    <3>2. h * H >= q * H + H
      BY <1>3, <1>5, <3>1
    <3>3. QED
      BY <1>2, <1>3, <1>5, <3>2
  <2>3. QED
    BY <1>5, <2>1, <2>2
<1>7. h % H = h
  <2>1. h \in 0 .. H - 1 /\ h = 0 * H + h
    BY <1>3, <1>6 DEF H
  <2> HIDE DEF h
  <2>2. QED
    BY <1>3, <2>1, Division
<1>8. QED
  BY <1>2, <1>4, <1>5, <1>6, <1>7 DEF a, H, q

\* The tests on the halves of the factors are exact.
LEMMA ProductBound ==
  ASSUME NEW q \in Nat, q > 0, NEW H \in Nat, H = 8 * q,
         NEW al \in 0 .. H - 1, NEW ah \in 0 .. q, NEW bl \in 0 .. H - 1, NEW bh \in 0 .. q,
         NEW lo \in Nat, lo = al * bl, NEW mid \in Nat, mid = al * bh + bl * ah
  PROVE  /\ lo <= 8 * (H * q) - 1
         /\ mid <= 2 * (H * q)
         /\ (ah * H + al) * (bh * H + bl) = lo + H * mid + (H * H) * (ah * bh)
         /\ ah > 0 /\ bh > 0 => (ah * H + al) * (bh * H + bl) >= 8 * (H * q)
         /\ mid > q => (ah * H + al) * (bh * H + bl) > H * q
         /\ lo <= (ah * H + al) * (bh * H + bl)
<1> DEFINE P == (ah * H + al) * (bh * H + bl)
<1>1. /\ al \in Nat /\ ah \in Nat /\ bl \in Nat /\ bh \in Nat
      /\ H * H = 8 * (H * q) /\ H * q \in Nat /\ H * q > 0
  <2>1. H * q \in Nat /\ H * q > 0
    BY H > 0
  <2>2. H * H = 8 * (H * q)
    OBVIOUS
  <2>3. QED
    BY <2>1, <2>2
<1>2. lo <= (H - 1) * (H - 1)
  <2>1. al * bl <= (H - 1) * bl
    BY <1>1
  <2>2. (H - 1) * bl <= (H - 1) * (H - 1)
    BY <1>1
  <2>3. (H - 1) * bl \in Int /\ (H - 1) * (H - 1) \in Int
    BY <1>1
  <2>4. QED
    BY <2>1, <2>2, <2>3
<1>3. (H - 1) * (H - 1) <= 8 * (H * q) - 1
  <2>1. (H - 1) * (H - 1) = H * H - 2 * H + 1
    OBVIOUS
  <2>2. QED
    BY <1>1, <2>1
<1>4. mid <= 2 * (H * q)
  <2>1. al * bh <= H * q
    <3>1. al * bh <= H * bh
      BY <1>1
    <3>2. H * bh <= H * q
      BY <1>1
    <3>3. QED
      BY <1>1, <3>1, <3>2
  <2>2. bl * ah <= H * q
    <3>1. bl * ah <= H * ah
      BY <1>1
    <3>2. H * ah <= H * q
      BY <1>1
    <3>3. QED
      BY <1>1, <3>1, <3>2
  <2>3. al * bh \in Nat /\ bl * ah \in Nat
    BY <1>1
  <2>4. QED
    BY <1>1, <2>1, <2>2, <2>3
<1>5. P = lo + H * mid + (H * H) * (ah * bh)
  <2>1. P = (ah * H) * (bh * H) + (ah * H) * bl + al * (bh * H) + al * bl
    BY <1>1
  <2>2. H * mid = H * (al * bh) + H * (bl * ah)
    BY <1>1
  <2>3. QED
    BY <1>1, <2>1, <2>2
<1>6. H * mid \in Nat /\ ah * bh \in Nat /\ (H * H) * (ah * bh) \in Nat
  BY <1>1
<1>7. ah > 0 /\ bh > 0 => P >= 8 * (H * q)
  <2>1. SUFFICES ASSUME ah > 0, bh > 0 PROVE P >= H * H
    BY <1>1
  <2>2. ah * bh >= 1
    BY <1>1, <2>1
  <2>3. (H * H) * (ah * bh) >= H * H
    BY <1>1, <1>6, <2>2
  <2> HIDE DEF P
  <2>4. QED
    BY <1>1, <1>5, <1>6, <2>3
<1>8. mid > q => P > H * q
  <2>1. SUFFICES ASSUME mid >= q + 1 PROVE P > H * q
    OBVIOUS
  <2>2. H * mid >= H * q + H
    BY <2>1
  <2> HIDE DEF P
  <2>3. QED
    BY <1>1, <1>5, <1>6, <2>2
<1>9. lo <= P
  <2> HIDE DEF P
  <2>1. QED
    BY <1>1, <1>5, <1>6
<1>10. lo <= 8 * (H * q) - 1
  <2>1. (H - 1) * (H - 1) \in Int
    OBVIOUS
  <2>2. QED
    BY <1>1, <1>2, <1>3, <2>1
<1>11. QED
  BY <1>4, <1>5, <1>7, <1>8, <1>9, <1>10

\* multiply-carefully multiplies halves of words: what it tests shows that none of the
\* products wrapped, and when it gives up the product is no fixnum, or the least.
LEMMA MultiplyExact ==
  ASSUME OverflowWraps, NEW m \in Least .. Greatest, NEW n \in Least .. Greatest
  PROVE  Exact("*", m, n, multiply_carefully(4 * m, 4 * n))
<1> DEFINE a == Abs(m)
           b == Abs(n)
           al == LowHalf(a)
           ah == HighHalf(a)
           bl == LowHalf(b)
           bh == HighHalf(b)
           q == MaxMiddle
           H == 8 * q
           lo == al * bl
           mid == al * bh + bl * ah
           lo_c == Long(lo)
           mid_c == Long(mid)
           c == Long(lo_c + PS_SHIFT_LEFT(mid_c, HalfWord))
           P == a * b
           out == multiply_carefully(4 * m, 4 * n)
<1>1. out = IF HalvesTooBig(a, b, lo_c, mid_c) THEN Overflow
            ELSE IF SameSigns(m, n) THEN IF TooBig(c) THEN Overflow ELSE Value(enter_fixnum(c))
            ELSE IF c > -Least THEN Overflow ELSE Value(enter_fixnum(Long(0 - c)))
  BY FixnumFacts DEF multiply_carefully
<1>2. HalvesTooBig(a, b, lo_c, mid_c) <=>
        (ah > 0 /\ bh > 0) \/ lo_c > Greatest \/ lo_c < 0 \/ mid_c > q
  BY DEF HalvesTooBig, TooBig
<1>3. /\ m \in Int /\ n \in Int /\ a \in 0 .. Limit /\ b \in 0 .. Limit
      /\ a = (IF m < 0 THEN -m ELSE m) /\ b = (IF n < 0 THEN -n ELSE n)
      /\ al \in 0 .. H - 1 /\ bl \in 0 .. H - 1 /\ ah \in 0 .. q /\ bh \in 0 .. q
      /\ a = ah * H + al /\ b = bh * H + bl
  BY Halves, Sizes
<1>4. q \in Nat /\ q > 0 /\ H \in Nat /\ H * q = Limit /\ Limit \in Nat /\ Limit > 0 /\ H <= Limit
  <2>1. H * q = Limit /\ H \in Nat /\ q \in Nat /\ q > 0
    BY Sizes
  <2>2. H <= H * q
    BY <2>1
  <2>3. QED
    BY <2>1, <2>2, Sizes
<1>5. P = m * n \/ P = -(m * n)
  BY <1>3
<1>6. P = IF SameSigns(m, n) THEN m * n ELSE -(m * n)
  <2> HIDE DEF a, b
  <2>1. QED
    BY <1>3 DEF SameSigns
<1>7. m * n \in Int /\ P \in Nat /\ lo \in Nat /\ mid \in Nat
  BY <1>3, <1>4
<1>8. \A r : Means("*", m, n, r) <=> r = m * n
  BY DEF Means
<1> HIDE DEF out, a, b, ah, al, bh, bl, H, q
<1>9. /\ lo <= 8 * Limit - 1 /\ mid <= 2 * Limit /\ P = lo + H * mid + (H * H) * (ah * bh)
      /\ ah > 0 /\ bh > 0 => P >= 8 * Limit
      /\ mid > q => P > Limit
      /\ lo <= P
  <2>1. H = 8 * q
    BY DEF H
  <2>2. P = (ah * H + al) * (bh * H + bl)
    BY <1>3
  <2>3. QED
    BY <1>3, <1>4, <1>7, <2>1, <2>2, ProductBound
<1>10. mid_c = mid
  <2>1. mid \in -(4 * Limit) .. 4 * Limit - 1
    BY <1>4, <1>7, <1>9
  <2>2. QED
    BY <1>7, <2>1, LongFacts
<1> HIDE DEF P, mid_c, lo_c, mid, lo, c
\* Too big for a fixnum, whatever the signs are; but the negative one could be the least.
<1>11. ASSUME P >= Limit PROVE Exact("*", m, n, Overflow)
  <2>1. \A r \in Least .. Greatest : r = m * n => r = Least
    BY <1>5, <1>7, <1>11, Sizes
  <2>2. QED
    BY <1>8, <2>1 DEF Exact, Overflow
<1>12. CASE HalvesTooBig(a, b, lo_c, mid_c)
  <2>1. P >= Limit
    <3>1. CASE (ah > 0 /\ bh > 0) \/ mid_c > q
      BY <1>4, <1>7, <1>9, <1>10, <3>1
    <3>2. CASE lo_c > Greatest \/ lo_c < 0
      <4>1. lo >= Limit
        <5>1. SUFFICES ASSUME lo < Limit PROVE FALSE
          BY <1>4, <1>7
        <5>2. lo \in -(4 * Limit) .. 4 * Limit - 1
          BY <1>4, <1>7, <5>1
        <5>3. lo_c = lo
          BY <1>7, <5>2, LongFacts DEF lo_c
        <5>4. QED
          BY <1>4, <1>7, <3>2, <5>1, <5>3, Sizes
      <4>2. QED
        BY <1>4, <1>7, <1>9, <4>1
    <3>3. QED
      BY <1>2, <1>12, <3>1, <3>2
  <2>2. out = Overflow
    BY <1>1, <1>12
  <2>3. QED
    BY <1>11, <2>1, <2>2 DEF out
<1>13. CASE ~HalvesTooBig(a, b, lo_c, mid_c)
  <2>1. ~(ah > 0 /\ bh > 0) /\ ~(lo_c > Greatest) /\ ~(lo_c < 0) /\ ~(mid_c > q)
    BY <1>2, <1>13
  <2>2. ah * bh = 0
    <3>1. ah = 0 \/ bh = 0
      BY <1>3, <1>4, <2>1
    <3>2. QED
      BY <1>3, <1>4, <3>1
  <2>3. P = lo + H * mid
    <3>1. (H * H) * (ah * bh) = 0
      BY <1>4, <2>2
    <3>2. H * mid \in Nat
      BY <1>4, <1>7
    <3>3. QED
      BY <1>7, <1>9, <3>1, <3>2
  <2>4. lo = lo_c /\ lo < Limit
    <3>1. lo_c \in 0 .. Limit - 1
      BY <1>4, <1>7, <2>1, LongFacts, Sizes DEF lo_c
    <3>2. PICK k \in Int : lo_c = lo + k * (8 * Limit)
      BY <1>7, LongFacts DEF lo_c
    <3>3. k = 0
      <4>1. lo_c - lo = k * (8 * Limit) /\ lo_c - lo > -(8 * Limit) /\ lo_c - lo < 8 * Limit
        BY <1>4, <1>7, <1>9, <3>1, <3>2
      <4>2. ~(k >= 1)
        <5>1. SUFFICES ASSUME k >= 1 PROVE FALSE
          OBVIOUS
        <5>2. k * (8 * Limit) >= 8 * Limit
          BY <1>4, <5>1
        <5>3. QED
          BY <1>4, <1>7, <3>1, <4>1, <5>2
      <4>3. ~(k <= -1)
        <5>1. SUFFICES ASSUME k <= -1 PROVE FALSE
          OBVIOUS
        <5>2. k * (8 * Limit) <= -(8 * Limit)
          BY <1>4, <5>1
        <5>3. QED
          BY <1>4, <1>7, <3>1, <4>1, <5>2
      <4>4. QED
        BY <4>2, <4>3
    <3>4. QED
      BY <1>4, <1>7, <3>1, <3>2, <3>3
  <2>5. mid <= q /\ H * mid \in 0 .. Limit
    <3>1. mid <= q
      BY <1>4, <1>7, <1>10, <2>1
    <3>2. H * mid <= H * q /\ H * mid \in Nat
      BY <1>4, <1>7, <3>1
    <3>3. QED
      BY <1>4, <3>1, <3>2
  <2>6. P \in 0 .. 2 * Limit - 1
    BY <1>4, <1>7, <2>3, <2>4, <2>5
  <2>7. c = P
    <3>1. PS_SHIFT_LEFT(mid_c, HalfWord) = Long(mid * H)
      <4>1. TwoTo[HalfWord] = H /\ ~(HalfWord >= BitsPerCell)
        BY Sizes DEF H, q
      <4>2. QED
        BY <1>10, <4>1 DEF PS_SHIFT_LEFT
    <3>2. mid * H = H * mid /\ mid * H \in -(4 * Limit) .. 4 * Limit - 1
      BY <1>4, <1>7, <2>5
    <3>3. Long(mid * H) = H * mid
      BY <1>4, <3>2, LongFacts
    <3>4. c = Long(P)
      BY <2>3, <2>4, <3>1, <3>3 DEF c
    <3>5. P \in -(4 * Limit) .. 4 * Limit - 1
      BY <1>4, <1>7, <2>6
    <3>6. QED
      BY <1>7, <3>4, <3>5, LongFacts
  <2>8. CASE SameSigns(m, n)
    <3>1. P = m * n
      BY <1>6, <2>8
    <3>2. CASE P > Greatest
      <4>1. out = Overflow
        BY <1>1, <1>13, <2>7, <2>8, <3>2 DEF TooBig
      <4>2. P >= Limit
        BY <1>4, <1>7, <3>2, Sizes
      <4>3. QED
        BY <1>11, <4>1, <4>2 DEF out
    <3>3. CASE ~(P > Greatest)
      <4>1. P \in Least .. Greatest /\ out = Value(enter_fixnum(P))
        BY <1>1, <1>4, <1>7, <1>13, <2>7, <2>8, <3>3, Sizes DEF TooBig
      <4>2. Means("*", m, n, P)
        BY <1>8, <3>1
      <4>3. QED
        BY <4>1, <4>2, ExactValue DEF out
    <3>4. QED
      BY <3>2, <3>3 DEF out
  <2>9. CASE ~SameSigns(m, n)
    <3>1. P = -(m * n)
      BY <1>6, <2>9
    <3>2. CASE P > -Least
      <4>1. out = Overflow
        BY <1>1, <1>13, <2>7, <2>9, <3>2
      <4>2. P >= Limit
        BY <1>4, <1>7, <3>2, Sizes
      <4>3. QED
        BY <1>11, <4>1, <4>2 DEF out
    <3>3. CASE ~(P > -Least)
      <4>1. 0 - P \in -(4 * Limit) .. 4 * Limit - 1
        BY <1>4, <1>7, <3>3, Sizes
      <4>2. Long(0 - P) = m * n
        BY <1>7, <3>1, <4>1, LongFacts
      <4>3. m * n \in Least .. Greatest /\ out = Value(enter_fixnum(m * n))
        BY <1>1, <1>4, <1>7, <1>13, <2>7, <2>9, <3>1, <3>3, <4>2, Sizes
      <4>4. QED
        BY <1>8, <4>3, ExactValue DEF out
    <3>4. QED
      BY <3>2, <3>3 DEF out
  <2>10. QED
    BY <2>8, <2>9
<1>14. QED
  BY <1>12, <1>13 DEF out
\* Division of the magnitudes, and the signs that the operations give its results.
QuotientOf(m, n) == IF SameSigns(m, n) THEN Abs(m) \div Abs(n) ELSE -(Abs(m) \div Abs(n))
RemainderOf(m, n) == IF m < 0 THEN -(Abs(m) % Abs(n)) ELSE Abs(m) % Abs(n)

\* Rounded towards zero: the quotient is as small as it can be, and the remainder has the
\* sign of the dividend.
LEMMA Divided ==
  ASSUME NEW m \in Least .. Greatest, NEW n \in Least .. Greatest, n # 0
  PROVE  /\ m \in Int /\ n \in Int /\ Abs(n) = Size(n) /\ Abs(n) > 0 /\ Abs(n) \in Int /\ Abs(m) \in Int
         /\ Abs(m) \div Abs(n) \in 0 .. Limit
         /\ QuotientOf(m, n) \in Int /\ RemainderOf(m, n) \in Least .. Greatest
         /\ m - QuotientOf(m, n) * n = RemainderOf(m, n)
         /\ Size(RemainderOf(m, n)) < Size(n) /\ SignOf(RemainderOf(m, n), m)
         /\ QuotientOf(m, n) > Greatest => n = -1 /\ m = Least
<1> DEFINE a == Abs(m)
           b == Abs(n)
           c == a \div b
           e == a % b
<1>1. /\ m \in Int /\ n \in Int /\ a \in 0 .. Limit /\ b \in 0 .. Limit
      /\ a = (IF m < 0 THEN -m ELSE m) /\ b = (IF n < 0 THEN -n ELSE n)
      /\ Limit \in Nat /\ Limit > 0 /\ Greatest = Limit - 1 /\ Least = -Limit
  BY Halves, Sizes
<1> HIDE DEF a, b
<1>2. b > 0 /\ b \in Nat /\ a \in Int
  BY <1>1
<1>3. c \in Int /\ e \in 0 .. b - 1 /\ a = c * b + e
  BY <1>2, Division
<1> HIDE DEF c, e
<1>4. c \in Nat
  <2>1. SUFFICES ASSUME c <= -1 PROVE FALSE
    BY <1>3
  <2>2. c * b <= -b
    BY <1>2, <1>3, <2>1
  <2>3. QED
    BY <1>1, <1>2, <1>3, <2>2
<1>5. c <= a
  <2>1. c <= c * b
    BY <1>2, <1>4
  <2>2. c * b \in Int
    BY <1>2, <1>4
  <2>3. QED
    BY <1>2, <1>3, <1>4, <2>1, <2>2
<1>6. /\ QuotientOf(m, n) = IF SameSigns(m, n) THEN c ELSE -c
      /\ RemainderOf(m, n) = IF m < 0 THEN -e ELSE e
  BY DEF QuotientOf, RemainderOf, c, e, a, b
<1>7. m - QuotientOf(m, n) * n = RemainderOf(m, n)
  <2>1. CASE m < 0 /\ n < 0
    BY <1>1, <1>3, <1>4, <1>6, <2>1 DEF SameSigns
  <2>2. CASE m < 0 /\ ~(n < 0)
    BY <1>1, <1>3, <1>4, <1>6, <2>2 DEF SameSigns
  <2>3. CASE ~(m < 0) /\ n < 0
    BY <1>1, <1>3, <1>4, <1>6, <2>3 DEF SameSigns
  <2>4. CASE ~(m < 0) /\ ~(n < 0)
    BY <1>1, <1>3, <1>4, <1>6, <2>4 DEF SameSigns
  <2>5. QED
    BY <2>1, <2>2, <2>3, <2>4
<1>8. Size(RemainderOf(m, n)) < Size(n) /\ SignOf(RemainderOf(m, n), m) /\ b = Size(n)
  BY <1>1, <1>3, <1>6 DEF Size, SignOf
<1>9. RemainderOf(m, n) \in Least .. Greatest
  BY <1>1, <1>3, <1>6
<1>10. ASSUME QuotientOf(m, n) > Greatest
       PROVE  n = -1 /\ m = Least
  <2>1. SameSigns(m, n) /\ c = Limit /\ a = Limit
    BY <1>1, <1>4, <1>5, <1>6, <1>10
  <2>2. b = 1
    <3>1. SUFFICES ASSUME b >= 2 PROVE FALSE
      BY <1>2
    <3>2. c * b >= 2 * c
      BY <1>2, <1>4, <3>1
    <3>3. c * b \in Int
      BY <1>2, <1>4
    <3>4. QED
      BY <1>1, <1>2, <1>3, <2>1, <3>2, <3>3
  <2>3. QED
    BY <1>1, <2>1, <2>2 DEF SameSigns
<1>11. QED
  BY <1>1, <1>2, <1>4, <1>5, <1>6, <1>7, <1>8, <1>9, <1>10 DEF c, a, b

\* quotient-carefully divides magnitudes; the least fixnum by -1 is the only quotient that
\* is too big.
LEMMA QuotientExact ==
  ASSUME NEW m \in Least .. Greatest, NEW n \in Least .. Greatest
  PROVE  /\ Exact("quotient", m, n, quotient_carefully(4 * m, 4 * n))
         /\ quotient_carefully(4 * m, 4 * n).exception # "none" =>
              n = 0 \/ (n = -1 /\ m = Least)
         /\ quotient_carefully(4 * m, 4 * n).exception = "none" =>
              /\ n # 0 /\ QuotientOf(m, n) \in Least .. Greatest
              /\ quotient_carefully(4 * m, 4 * n) = Value(enter_fixnum(QuotientOf(m, n)))
<1> DEFINE c == Abs(m) \div Abs(n)
           out == quotient_carefully(4 * m, 4 * n)
<1>1. m \in Int /\ n \in Int /\ (4 * n = 0 <=> n = 0)
  BY Sizes
<1>2. out = IF n = 0 THEN Overflow
            ELSE IF ~SameSigns(m, n) THEN Value(enter_fixnum(Long(0 - c)))
            ELSE IF TooBig(c) THEN Overflow
            ELSE Value(enter_fixnum(c))
  BY <1>1, FixnumFacts DEF quotient_carefully
<1> DEFINE Mean(r) == n # 0 /\ Size(m - r * n) < Size(n) /\ SignOf(m - r * n, m)
<1>3. \A r : Means("quotient", m, n, r) <=> Mean(r)
  BY DEF Means
<1> HIDE DEF out, c
<1>4. CASE n = 0
  <2>1. out = Overflow
    BY <1>2, <1>4
  <2>2. QED
    BY <1>3, <1>4, <2>1, ExactOverflow DEF out, Overflow
<1>5. CASE n # 0
  <2> DEFINE r == QuotientOf(m, n)
  <2>1. /\ c \in 0 .. Limit /\ r = (IF SameSigns(m, n) THEN c ELSE -c) /\ r \in Int
        /\ m - r * n = RemainderOf(m, n)
        /\ Size(RemainderOf(m, n)) < Size(n) /\ SignOf(RemainderOf(m, n), m)
        /\ r > Greatest => n = -1 /\ m = Least
    BY <1>5, Divided DEF QuotientOf, c
  <2> HIDE DEF r
  <2>2. Mean(r)
    BY <1>5, <2>1
  <2>3. CASE r > Greatest
    <3>1. SameSigns(m, n) /\ TooBig(c)
      BY <2>1, <2>3, Sizes DEF TooBig
    <3>2. out = Overflow
      BY <1>2, <1>5, <3>1
    <3>3. ASSUME NEW i \in Least .. Greatest PROVE ~Mean(i)
      <4>1. n = -1 /\ m = Least /\ i \in Int /\ Least \in Int
        BY <2>1, <2>3, Sizes
      <4>2. m - i * n = Least + i
        BY <4>1
      <4>3. QED
        BY <4>1, <4>2, Sizes DEF Size
    <3>4. QED
      BY <1>3, <2>1, <2>3, <3>2, <3>3, ExactOverflow DEF out, Overflow
  <2>4. CASE ~(r > Greatest)
    <3>1. r \in Least .. Greatest
      BY <2>1, <2>4, Sizes
    <3>2. SameSigns(m, n) => ~TooBig(c)
      BY <2>1, <2>4 DEF TooBig
    <3>3. ~SameSigns(m, n) => Long(0 - c) = r
      <4>1. 0 - c \in -(4 * Limit) .. 4 * Limit - 1 /\ 0 - c = -c
        BY <2>1, Sizes
      <4>2. QED
        BY <2>1, <4>1, LongFacts
    <3>4. out = Value(enter_fixnum(r))
      BY <1>2, <1>5, <2>1, <3>2, <3>3
    <3>5. QED
      BY <1>3, <1>5, <2>2, <3>1, <3>4, ExactValue DEF out, r, Value
  <2>5. QED
    BY <2>3, <2>4
<1>6. QED
  BY <1>4, <1>5

\* remainder-carefully gives the remainder the sign of the dividend.
LEMMA RemainderExact ==
  ASSUME NEW m \in Least .. Greatest, NEW n \in Least .. Greatest
  PROVE  /\ Exact("remainder", m, n, remainder_carefully(4 * m, 4 * n))
         /\ n # 0 => remainder_carefully(4 * m, 4 * n) = Value(enter_fixnum(RemainderOf(m, n)))
<1> DEFINE e == Abs(m) % Abs(n)
           out == remainder_carefully(4 * m, 4 * n)
           r == RemainderOf(m, n)
           b == Size(n)
<1>1. m \in Int /\ n \in Int /\ (4 * n = 0 <=> n = 0)
  BY Sizes
<1>2. out = IF n = 0 THEN Overflow ELSE Value(enter_fixnum(IF m < 0 THEN Long(0 - e) ELSE e))
  BY <1>1, FixnumFacts DEF remainder_carefully
<1> DEFINE Mean(i) == n # 0 /\ (m - i) % b = 0 /\ Size(i) < b /\ SignOf(i, m)
<1>3. \A i : Means("remainder", m, n, i) <=> Mean(i)
  BY DEF Means
<1> HIDE DEF out
<1>4. CASE n = 0
  <2>1. out = Overflow
    BY <1>2, <1>4
  <2>2. QED
    BY <1>3, <1>4, <2>1, ExactOverflow DEF out
<1>5. CASE n # 0
  <2>1. /\ b \in Nat /\ b > 0 /\ Abs(n) = b /\ Abs(m) \in Int /\ QuotientOf(m, n) \in Int
        /\ r \in Least .. Greatest /\ m - QuotientOf(m, n) * n = r
        /\ Size(r) < b /\ SignOf(r, m)
    BY <1>1, <1>5, Divided
  <2>2. e \in 0 .. b - 1 /\ r = IF m < 0 THEN -e ELSE e
    BY <2>1, Division DEF RemainderOf
  <2> HIDE DEF r, e
  <2>3. (IF m < 0 THEN Long(0 - e) ELSE e) = r
    <3>1. CASE m < 0
      <4>1. 0 - e = r /\ r \in Int /\ 0 - e \in -(4 * Limit) .. 4 * Limit - 1
        BY <2>1, <2>2, <3>1, Sizes
      <4>2. QED
        BY <3>1, <4>1, LongFacts
    <3>2. QED
      BY <2>2, <3>1
  <2>4. (m - r) % b = 0
    <3>1. PICK k \in Int : m - r = k * b + 0
      <4> DEFINE k == QuotientOf(m, n)
      <4>1. m - r = k * n /\ k \in Int /\ -k \in Int
        <5>1. k * n \in Int /\ r \in Int
          BY <1>1, <2>1, Sizes
        <5>2. QED
          BY <1>1, <2>1, <5>1
      <4> HIDE DEF k
      <4>2. CASE n < 0
        <5>1. k * n = (-k) * b + 0
          BY <1>1, <4>1, <4>2 DEF Size
        <5>2. QED
          BY <4>1, <5>1
      <4>3. CASE ~(n < 0)
        <5>1. k * n = k * b + 0
          BY <1>1, <4>1, <4>3 DEF Size
        <5>2. QED
          BY <4>1, <5>1
      <4>4. QED
        BY <4>2, <4>3
    <3>2. m - r \in Int /\ 0 \in 0 .. b - 1
      BY <1>1, <2>1, Sizes
    <3> DEFINE z == m - r
    <3>3. z \in Int /\ z = k * b + 0
      BY <3>1, <3>2
    <3> HIDE DEF b, z
    <3>4. k \in Int /\ b \in Nat /\ b > 0
      BY <2>1, <3>1
    <3>5. z % b = 0
      BY <3>2, <3>3, <3>4, Division
    <3>6. QED
      BY <3>5 DEF z
  <2>5. out = Value(enter_fixnum(r))
    BY <1>2, <1>5, <2>3
  <2>6. Mean(r)
    BY <1>5, <2>1, <2>4
  <2>7. QED
    BY <1>3, <2>1, <2>5, <2>6, ExactValue DEF out, r
<1>6. QED
  BY <1>4, <1>5

\* divide-carefully is the quotient if nothing remains.
LEMMA DivideExact ==
  ASSUME NEW m \in Least .. Greatest, NEW n \in Least .. Greatest
  PROVE  Exact("/", m, n, divide_carefully(4 * m, 4 * n))
<1> DEFINE q == quotient_carefully(4 * m, 4 * n)
           r == remainder_carefully(4 * m, 4 * n)
<1>1. divide_carefully(4 * m, 4 * n) = IF q.exception # "none" \/ r.value # 0 THEN Overflow ELSE q
  BY DEF divide_carefully
<1>2. /\ q.exception # "none" => n = 0 \/ (n = -1 /\ m = Least)
      /\ q.exception = "none" => /\ n # 0 /\ QuotientOf(m, n) \in Least .. Greatest
                                 /\ q = Value(enter_fixnum(QuotientOf(m, n)))
      /\ n # 0 => r = Value(enter_fixnum(RemainderOf(m, n)))
  BY QuotientExact, RemainderExact
<1>3. \A i : Means("/", m, n, i) <=> n # 0 /\ i * n = m
  BY DEF Means
<1>4. m \in Int /\ n \in Int /\ Least \in Int /\ Greatest \in Int
  BY Sizes
<1> HIDE DEF q, r
<1>5. CASE q.exception # "none"
  <2>1. ASSUME NEW i \in Least .. Greatest PROVE ~(n # 0 /\ i * n = m)
    <3>1. CASE n = 0
      BY <3>1
    <3>2. CASE n = -1 /\ m = Least
      BY <1>4, <3>2, Sizes
    <3>3. QED
      BY <1>2, <1>5, <3>1, <3>2
  <2>2. QED
    BY <1>1, <1>3, <1>5, <2>1, ExactOverflow
<1>6. CASE q.exception = "none"
  <2>1. n # 0 /\ r = Value(enter_fixnum(RemainderOf(m, n)))
    BY <1>2, <1>6
  <2>2. /\ RemainderOf(m, n) \in Least .. Greatest /\ m - QuotientOf(m, n) * n = RemainderOf(m, n)
        /\ QuotientOf(m, n) \in Int /\ Abs(n) = Size(n) /\ Abs(n) > 0 /\ Abs(n) \in Int /\ Abs(m) \in Int
    BY <2>1, Divided
  <2>3. r.value = 0 <=> RemainderOf(m, n) = 0
    BY <1>4, <2>1, <2>2, FixnumFacts DEF Value
  <2>4. CASE RemainderOf(m, n) = 0
    <3>1. QuotientOf(m, n) * n = m
      BY <1>4, <2>2, <2>4
    <3>2. QED
      BY <1>1, <1>2, <1>3, <1>6, <2>1, <2>3, <2>4, <3>1, ExactValue
  <2>5. CASE RemainderOf(m, n) # 0
    <3>1. ASSUME NEW i \in Least .. Greatest, i * n = m PROVE FALSE
      <4>1. \E k \in Int : Abs(m) = k * Abs(n) + 0
        <5>1. i \in Int /\ -i \in Int
          BY <1>4
        <5>2. Abs(m) = i * Abs(n) + 0 \/ Abs(m) = (-i) * Abs(n) + 0
          <6>1. /\ Abs(m) = m \/ Abs(m) = -m
                /\ Abs(n) = n \/ Abs(n) = -n
            BY Halves
          <6>2. i * (-n) = -(i * n) /\ (-i) * n = -(i * n) /\ (-i) * (-n) = i * n
            BY <1>4, <5>1
          <6>3. QED
            BY <1>4, <3>1, <5>1, <6>1, <6>2
        <5>3. QED
          BY <5>1, <5>2
      <4>2. Abs(m) % Abs(n) = 0
        BY <2>2, <4>1, Division
      <4>3. RemainderOf(m, n) = 0
        BY <4>2 DEF RemainderOf
      <4>4. QED
        BY <2>5, <4>3
    <3>2. QED
      BY <1>1, <1>3, <2>3, <2>5, <3>1, ExactOverflow
  <2>6. QED
    BY <2>4, <2>5
<1>7. QED
  BY <1>5, <1>6

\* Two numbers of an interval that differ by a multiple of its length are equal.
LEMMA SameResidue ==
  ASSUME NEW d \in Nat, d > 0, NEW low \in Int, NEW x \in low .. low + d - 1, NEW y \in low .. low + d - 1,
         NEW k \in Int, x = y + k * d
  PROVE  x = y
<1>1. k * d \in Int /\ k * d < d /\ k * d > -d
  <2>1. k * d \in Int
    OBVIOUS
  <2>2. QED
    BY <2>1
<1>2. ~(k >= 1)
  <2>1. SUFFICES ASSUME k >= 1 PROVE FALSE
    OBVIOUS
  <2>2. k * d >= d
    BY <2>1
  <2>3. QED
    BY <1>1, <2>2
<1>3. ~(k <= -1)
  <2>1. SUFFICES ASSUME k <= -1 PROVE FALSE
    OBVIOUS
  <2>2. k * d <= -d
    BY <2>1
  <2>3. QED
    BY <1>1, <2>2
<1>4. k = 0
  BY <1>2, <1>3
<1>5. QED
  BY <1>4

\* A word without its two highest bits is a fixnum that differs by a multiple of
\* what two bits less can hold.
LEMMA Tagged ==
  ASSUME NEW w \in Int
  PROVE  /\ extract_fixnum(PS_SHIFT_LEFT(w, 2)) \in Least .. Greatest
         /\ \E j \in Int : extract_fixnum(PS_SHIFT_LEFT(w, 2)) = w + j * (2 * Limit)
<1> DEFINE x == Long(w * 4)
           r == x \div 4
<1>1. extract_fixnum(PS_SHIFT_LEFT(w, 2)) = r
  BY Sizes DEF extract_fixnum, PS_SHIFT_LEFT, PS_SHIFT_RIGHT
<1>2. x \in -(4 * Limit) .. 4 * Limit - 1
  BY LongFacts
<1>3. PICK j \in Int : x = w * 4 + j * (8 * Limit)
  BY LongFacts
<1>4. Limit \in Nat
  BY Sizes
<1> HIDE DEF x
<1>5. x = 4 * (w + j * (2 * Limit))
  BY <1>3, <1>4
<1>6. w + j * (2 * Limit) \in Int
  BY <1>4
<1>7. r = w + j * (2 * Limit)
  BY <1>5, <1>6
<1>8. r \in -Limit .. Limit - 1
  BY <1>2, <1>4
<1>9. QED
  BY <1>1, <1>7, <1>8, Sizes

\* shift-carefully to the right rounds down, also by more than the bits of a word.
LEMMA RightShiftExact ==
  ASSUME NEW m \in Least .. Greatest, NEW n \in Least .. Greatest, n < 0
  PROVE  Exact("arithmetic-shift", m, n, shift_carefully(4 * m, 4 * n))
<1> DEFINE k == -n
           T == Power(k)
           r == PS_SHIFT_RIGHT(m, k)
<1>1. m \in Int /\ n \in Int /\ k \in Nat /\ k > 0 /\ BitsPerCell \in Nat
      /\ Limit \in Nat /\ Limit > 0 /\ m \in -Limit .. Limit - 1
  BY Sizes
<1>2. shift_carefully(4 * m, 4 * n) = Value(enter_fixnum(r))
  BY FixnumFacts DEF shift_carefully
<1>3. \A i : Means("arithmetic-shift", m, n, i) <=> i * T <= m /\ m < (i + 1) * T
  BY <1>1 DEF Means
<1>4. r \in Least .. Greatest /\ r * T <= m /\ m < (r + 1) * T
  <2>1. CASE k >= BitsPerCell
    <3>1. T = 8 * Limit /\ r = (IF m < 0 THEN -1 ELSE 0)
      BY <1>1, <2>1, Sizes DEF Power, PS_SHIFT_RIGHT
    <3> HIDE DEF T, r
    <3>2. QED
      BY <1>1, <3>1, Sizes
  <2>2. CASE ~(k >= BitsPerCell)
    <3>1. T = TwoTo[k] /\ r = m \div TwoTo[k] /\ k \in 0 .. BitsPerCell
      BY <1>1, <2>2 DEF Power, PS_SHIFT_RIGHT
    <3>2. T \in Nat /\ T > 0
      BY <3>1, Powers
    <3>3. r = m \div T
      BY <3>1
    <3> HIDE DEF T, r
    <3>4. r \in Int /\ m % T \in 0 .. T - 1 /\ m = r * T + (m % T)
      BY <1>1, <3>2, <3>3, Division
    <3>5. r * T \in Int /\ (r + 1) * T = r * T + T
      BY <3>2, <3>4
    <3>6. r * T <= m /\ m < (r + 1) * T
      BY <1>1, <3>2, <3>4, <3>5
    <3>7. r <= Limit - 1
      <4>1. SUFFICES ASSUME r >= Limit PROVE FALSE
        BY <1>1, <3>4
      <4>2. r * T >= r
        BY <1>1, <3>2, <3>4, <4>1
      <4>3. QED
        BY <1>1, <3>4, <3>5, <3>6, <4>1, <4>2
    <3>8. r >= -Limit
      <4>1. SUFFICES ASSUME r + 1 <= -Limit PROVE FALSE
        BY <1>1, <3>4
      <4>2. (r + 1) * T <= r + 1
        BY <1>1, <3>2, <3>4, <4>1
      <4>3. (r + 1) * T \in Int
        BY <3>2, <3>4
      <4>4. QED
        BY <1>1, <3>4, <3>6, <4>1, <4>2, <4>3
    <3>9. QED
      BY <1>1, <3>4, <3>6, <3>7, <3>8, Sizes
  <2>3. QED
    BY <2>1, <2>2
<1> HIDE DEF r, T
<1>5. QED
  BY <1>2, <1>3, <1>4, ExactValue

\* The test of a left shift is exact.
LEMMA LeftShiftExact ==
  ASSUME NEW m \in Least .. Greatest, NEW n \in Least .. Greatest, ~(n < 0)
  PROVE  Exact("arithmetic-shift", m, n, shift_carefully(4 * m, 4 * n))
<1> DEFINE w == PS_SHIFT_LEFT(m, n)
           r == extract_fixnum(PS_SHIFT_LEFT(w, 2))
           T == Power(n)
           ok == m = PS_SHIFT_RIGHT(r, n) /\ SameSigns(m, r)
           out == shift_carefully(4 * m, 4 * n)
<1>1. m \in Int /\ n \in Nat /\ BitsPerCell \in Nat /\ BitsPerCell >= 6
      /\ Limit \in Nat /\ Limit > 0 /\ m \in -Limit .. Limit - 1
      /\ Least = -Limit /\ Greatest = Limit - 1
  BY Sizes
<1>2. out = IF ok THEN Value(enter_fixnum(r)) ELSE Overflow
  BY FixnumFacts DEF shift_carefully
<1>3. \A i : Means("arithmetic-shift", m, n, i) <=> i = m * T
  BY <1>1 DEF Means
<1>4. r \in Least .. Greatest /\ r \in Int /\ w \in Int
  <2>1. w \in Int
    <3>1. CASE n >= BitsPerCell
      BY <3>1 DEF PS_SHIFT_LEFT
    <3>2. CASE ~(n >= BitsPerCell)
      <4>1. TwoTo[n] \in Int
        BY <1>1, <3>2, Powers
      <4>2. QED
        BY <1>1, <3>2, <4>1, LongFacts DEF PS_SHIFT_LEFT
    <3>3. QED
      BY <3>1, <3>2
  <2> HIDE DEF w
  <2>2. QED
    BY <1>1, <2>1, Tagged
<1>5. PICK j \in Int : r = w + j * (2 * Limit)
  <2> HIDE DEF w
  <2>1. QED
    BY <1>4, Tagged
<1> HIDE DEF out, r, w
<1>6. (ok => r = m * T) /\ (m * T \in Least .. Greatest => ok)
  <2>1. CASE n >= BitsPerCell
    <3>1. T = 8 * Limit /\ w = 0 /\ PS_SHIFT_RIGHT(r, n) = IF r < 0 THEN -1 ELSE 0
      BY <1>1, <2>1, Sizes DEF Power, PS_SHIFT_RIGHT, PS_SHIFT_LEFT, w
    <3>2. r = 0
      <4>1. /\ r \in -Limit .. -Limit + 2 * Limit - 1 /\ 0 \in -Limit .. -Limit + 2 * Limit - 1
            /\ r = 0 + j * (2 * Limit)
        BY <1>1, <1>4, <1>5, <3>1
      <4>2. 2 * Limit \in Nat /\ 2 * Limit > 0 /\ -Limit \in Int
        BY <1>1
      <4>3. QED
        BY <4>1, <4>2, SameResidue
    <3>3. m * T \in Least .. Greatest => m = 0
      <4>1. SUFFICES ASSUME m # 0 PROVE m * T \notin Least .. Greatest
        OBVIOUS
      <4>2. m * T = 8 * (m * Limit) /\ m * Limit \in Int
        BY <1>1, <3>1
      <4>3. m * Limit >= Limit \/ m * Limit <= -Limit
        BY <1>1, <4>1
      <4>4. QED
        BY <1>1, <4>2, <4>3
    <3>4. 0 * T = 0
      BY <1>1, <3>1
    <3>5. QED
      BY <1>1, <3>1, <3>2, <3>3, <3>4 DEF SameSigns
  <2>2. CASE ~(n >= BitsPerCell)
    <3>1. /\ T = TwoTo[n] /\ w = Long(m * T) /\ PS_SHIFT_RIGHT(r, n) = r \div T
          /\ n \in 0 .. BitsPerCell - 1
      BY <1>1, <2>2 DEF Power, PS_SHIFT_RIGHT, PS_SHIFT_LEFT, w
    <3>2. T \in Nat /\ T > 0
      BY <1>1, <3>1, Powers
    <3> HIDE DEF T
    <3>3. PICK i \in Int : r = m * T + i * (2 * Limit)
      <4>1. m * T \in Int
        BY <1>1, <3>2
      <4>2. PICK k \in Int : w = m * T + k * (8 * Limit)
        BY <3>1, <4>1, LongFacts
      <4>3. r = m * T + (4 * k + j) * (2 * Limit)
        BY <1>1, <1>5, <4>1, <4>2
      <4>4. QED
        BY <4>3
    <3>4. ASSUME ok PROVE r = m * T
      <4>1. r % T \in 0 .. T - 1 /\ r = m * T + (r % T)
        BY <1>4, <3>1, <3>2, <3>4, Division
      <4> DEFINE e == r % T
      <4>2. e \in 0 .. T - 1 /\ e = i * (2 * Limit) /\ r = m * T + e
        <5>1. m * T \in Int /\ i * (2 * Limit) \in Int
          BY <1>1, <3>2
        <5>2. QED
          BY <3>3, <4>1, <5>1
      <4> HIDE DEF e
      <4>3. CASE n <= BitsPerCell - 2
        <5>1. T <= 2 * Limit
          <6> DEFINE k == BitsPerCell - 2 - n
          <6>1. k \in Nat /\ n + k = BitsPerCell - 2 /\ n + k <= BitsPerCell
            BY <1>1, <4>3
          <6> HIDE DEF k
          <6>2. TwoTo[n + k] = T * TwoTo[k] /\ TwoTo[k] \in Nat /\ TwoTo[k] > 0
            <7>1. n \in Nat /\ k \in 0 .. BitsPerCell
              BY <1>1, <6>1
            <7>2. TwoTo[n + k] = TwoTo[n] * TwoTo[k]
              BY <6>1, <7>1, PowerSum
            <7>3. TwoTo[k] \in Nat /\ TwoTo[k] > 0
              BY <7>1, Powers
            <7>4. QED
              BY <3>1, <7>2, <7>3
          <6>3. T <= T * TwoTo[k]
            BY <3>2, <6>2
          <6>4. QED
            BY <6>1, <6>2, <6>3, Sizes
        <5>2. /\ e \in 0 .. 0 + 2 * Limit - 1 /\ 0 \in 0 .. 0 + 2 * Limit - 1
              /\ e = 0 + i * (2 * Limit) /\ 2 * Limit \in Nat /\ 2 * Limit > 0
          BY <1>1, <3>2, <4>2, <5>1
        <5>3. e = 0
          BY <5>2, SameResidue
        <5>4. QED
          BY <1>1, <3>2, <4>2, <5>3
      <4>4. CASE ~(n <= BitsPerCell - 2)
        <5>1. n = BitsPerCell - 1
          BY <1>1, <3>1, <4>4
        <5>2. T = 4 * Limit
          BY <3>1, <5>1, Sizes
        <5>3. i = 0 \/ i = 1
          BY <1>1, <4>2, <5>2
        <5>4. r = (2 * m + i) * (2 * Limit)
          BY <1>1, <4>2, <5>2
        <5>5. 2 * m + i = 0
          <6> DEFINE k == 2 * m + i
          <6>1. /\ r \in -Limit .. -Limit + 2 * Limit - 1 /\ 0 \in -Limit .. -Limit + 2 * Limit - 1
                /\ k \in Int /\ r = 0 + k * (2 * Limit) /\ 2 * Limit \in Nat /\ 2 * Limit > 0 /\ -Limit \in Int
            BY <1>1, <1>4, <5>4
          <6> HIDE DEF k
          <6>2. r = 0
            BY <6>1, SameResidue
          <6>3. k = 0
            BY <1>1, <6>1, <6>2
          <6>4. QED
            BY <6>3 DEF k
        <5>6. i = 0
          BY <1>1, <5>3, <5>5
        <5>7. QED
          BY <1>1, <3>2, <3>3, <5>6
      <4>5. QED
        BY <4>3, <4>4
    <3>5. ASSUME m * T \in Least .. Greatest PROVE ok
      <4>1. /\ r \in -Limit .. -Limit + 2 * Limit - 1 /\ m * T \in -Limit .. -Limit + 2 * Limit - 1
            /\ 2 * Limit \in Nat /\ 2 * Limit > 0 /\ -Limit \in Int
        BY <1>1, <1>4, <3>5
      <4>2. r = m * T
        BY <3>3, <4>1, SameResidue
      <4>3. r = m * T + 0 /\ 0 \in 0 .. T - 1
        BY <1>1, <3>2, <4>2
      <4>4. r \div T = m
        BY <1>1, <1>4, <3>2, <4>3, Division
      <4>5. SameSigns(m, r)
        BY <1>1, <3>2, <4>2 DEF SameSigns
      <4>6. QED
        BY <3>1, <4>4, <4>5
    <3>6. QED
      BY <3>4, <3>5
  <2>3. QED
    BY <2>1, <2>2
<1> HIDE DEF ok, T
<1>7. CASE ok
  <2>1. out = Value(enter_fixnum(r))
    BY <1>2, <1>7
  <2>2. QED
    BY <1>3, <1>4, <1>6, <1>7, <2>1, ExactValue DEF out
<1>8. CASE ~ok
  <2>1. out = Overflow
    BY <1>2, <1>8
  <2>2. QED
    BY <1>3, <1>6, <1>8, <2>1, ExactOverflow DEF out
<1>9. QED
  BY <1>7, <1>8
-----------------------------------------------------------------------------
(* Operations on bits.                                                     *)

\* The bits of a number, negative ones included, are 0 or 1.
LEMMA BitFacts ==
  ASSUME NEW n \in Int, NEW i \in 0 .. BitsPerCell
  PROVE  /\ n \div TwoTo[i] \in Int /\ Bit(n, i) \in {0, 1}
<1>1. TwoTo[i] \in Nat /\ TwoTo[i] > 0
  BY Powers
<1>2. n \div TwoTo[i] \in Int
  BY <1>1, Division
<1> DEFINE q == n \div TwoTo[i]
<1>3. q % 2 \in 0 .. 1
  <2> HIDE DEF q
  <2>1. QED
    BY <1>2 DEF q
<1>4. QED
  BY <1>2, <1>3 DEF Bit

\* A multiple of a power of two does not change the bits below that power.
LEMMA LowerBits ==
  ASSUME NEW i \in 0 .. BitsPerCell, NEW j \in 0 .. i - 1, NEW n \in Int, NEW k \in Int
  PROVE  Bit(n + k * TwoTo[i], j) = Bit(n, j)
<1> DEFINE T == TwoTo[j]
           h == i - j - 1
           u == k * TwoTo[h]
           q == n \div T
           z == n + k * TwoTo[i]
<1>1. i \in Nat /\ j \in Nat /\ h \in Nat /\ BitsPerCell \in Nat /\ i <= BitsPerCell
  BY WordAssumption
<1>2. T \in Nat /\ T > 0 /\ TwoTo[h] \in Int /\ u \in Int
  BY <1>1, Powers
<1>3. TwoTo[i] = 2 * (T * TwoTo[h])
  <2>1. i - 1 = j + h /\ i \in 1 .. BitsPerCell /\ j + h <= BitsPerCell
    BY <1>1
  <2> HIDE DEF h
  <2>2. TwoTo[i] = 2 * TwoTo[i - 1]
    BY <2>1, Powers
  <2>3. TwoTo[j + h] = TwoTo[j] * TwoTo[h]
    BY <1>1, <2>1, PowerSum
  <2>4. QED
    BY <2>1, <2>2, <2>3
<1> HIDE DEF h, T
<1>4. q \in Int /\ n % T \in 0 .. T - 1 /\ n = q * T + (n % T)
  BY <1>2, Division
<1>5. z = (q + 2 * u) * T + (n % T) /\ z \in Int
  BY <1>2, <1>3, <1>4
<1> HIDE DEF u, q, z
<1>6. z \div T = q + 2 * u
  <2>1. q + 2 * u \in Int
    BY <1>2, <1>4
  <2>2. QED
    BY <1>2, <1>4, <1>5, <2>1, Division
<1>7. (q + 2 * u) % 2 = q % 2
  BY <1>2, <1>4
<1>8. QED
  BY <1>6, <1>7 DEF Bit, T, q, z

\* The word that WordOf makes of bits has these bits.
LEMMA WordFacts ==
  ASSUME NEW bits \in [0 .. BitsPerCell - 1 -> {0, 1}]
  PROVE  /\ WordOf(bits) \in 0 .. 8 * Limit - 1
         /\ \A i \in 0 .. BitsPerCell - 1 : Bit(WordOf(bits), i) = bits[i]
<1> DEFINE N == BitsPerCell
           Good(x, n) == /\ x \in Int /\ 0 <= x /\ x < TwoTo[n]
                         /\ \A i \in 0 .. n - 1 : Bit(x, i) = bits[i]
           X == [n \in 0 .. N |-> {x \in Int : Good(x, n)}]
           e(x, n) == x + bits[n - 1] * TwoTo[n - 1]
           G == [n \in 1 .. N |-> [x \in X[n - 1] |-> e(x, n)]]
           Solves(f) == f = [i \in 0 .. N |-> IF i = 0 THEN 0 ELSE f[i - 1] + bits[i - 1] * TwoTo[i - 1]]
           r == Iterates(N, X, 0, G)
<1>1. N \in Nat /\ N >= 6
  BY WordAssumption
<1>2. 0 \in X[0]
  BY <1>1, Powers
<1>3. ASSUME NEW n \in 1 .. N, NEW x \in X[n - 1]
      PROVE  e(x, n) \in X[n] /\ G[n][x] = e(x, n)
  <2>1. n - 1 \in 0 .. N /\ Good(x, n - 1) /\ n \in Nat
    BY <1>1, <1>3
  <2> DEFINE T == TwoTo[n - 1]
             b == bits[n - 1]
  <2>2. T \in Nat /\ T > 0 /\ TwoTo[n] = 2 * T /\ b \in {0, 1}
    BY <1>1, <2>1, Powers
  <2>3. e(x, n) \in Int /\ 0 <= e(x, n) /\ e(x, n) < TwoTo[n]
    <3> HIDE DEF T, b
    <3>1. x + b * T \in Int /\ 0 <= x + b * T /\ x + b * T < TwoTo[n]
      BY <2>1, <2>2 DEF T
    <3>2. QED
      BY <3>1 DEF T, b
  <2>4. ASSUME NEW i \in 0 .. n - 1 PROVE Bit(e(x, n), i) = bits[i]
    <3>1. CASE i = n - 1
      <4>1. /\ x \in Int /\ x \in 0 .. T - 1 /\ e(x, n) = b * T + x
        BY <2>1, <2>2
      <4> HIDE DEF T, b, e
      <4>2. e(x, n) \div T = b
        BY <2>2, <2>3, <4>1, Division
      <4>3. b % 2 = b
        BY <2>2
      <4>4. QED
        BY <3>1, <4>2, <4>3 DEF Bit, T, b
    <3>2. CASE i # n - 1
      <4>1. i \in 0 .. (n - 1) - 1 /\ b \in Int /\ x \in Int
        BY <2>1, <2>2, <3>2
      <4>2. Bit(x + b * TwoTo[n - 1], i) = Bit(x, i)
        BY <2>1, <4>1, LowerBits
      <4>3. Bit(x, i) = bits[i]
        BY <2>1, <4>1
      <4>4. QED
        BY <4>2, <4>3
    <3>3. QED
      BY <3>1, <3>2
  <2>5. Good(e(x, n), n)
    BY <2>3, <2>4
  <2> HIDE DEF Good, e
  <2>6. QED
    BY <1>1, <1>3, <2>3, <2>5
<1> HIDE DEF e
<1>4. \A n \in 1 .. N : \A x \in X[n - 1] : G[n][x] \in X[n]
  BY <1>3
<1>5. /\ r[0] = 0 /\ \A n \in 1 .. N : r[n] = G[n][r[n - 1]]
      /\ \A n \in 0 .. N : r[n] \in X[n]
  <2> HIDE DEF N, X, G
  <2>1. QED
    BY <1>1, <1>2, <1>4, Recursion
<1>6. ASSUME NEW n \in 1 .. N PROVE r[n] = e(r[n - 1], n)
  <2>1. n - 1 \in 0 .. N
    BY <1>1
  <2>2. r[n - 1] \in X[n - 1] /\ r[n] = G[n][r[n - 1]]
    BY <1>5, <2>1
  <2> HIDE DEF r, G, X
  <2>3. QED
    BY <1>3, <2>2
<1> DEFINE g == [n \in 0 .. N |-> r[n]]
<1>7. Solves(g)
  <2> HIDE DEF r, X, G
  <2>1. QED
    BY <1>1, <1>5, <1>6 DEF e
<1> DEFINE f == CHOOSE h : Solves(h)
<1>8. Solves(f) /\ WordOf(bits) = f[N]
  <2>1. \E h : Solves(h)
    <3> HIDE DEF Solves, g
    <3>1. QED
      BY <1>7
  <2>2. WordOf(bits) = f[N]
    BY DEF WordOf
  <2> HIDE DEF Solves
  <2>3. QED
    BY <2>1, <2>2
<1> HIDE DEF f, r
<1>9. f[0] = 0 /\ \A n \in 1 .. N : f[n] = e(f[n - 1], n)
  BY <1>1, <1>8 DEF e
<1>10. \A n \in 0 .. N : f[n] \in X[n]
  <2>1. f[0] \in X[0]
    BY <1>2, <1>9
  <2>2. ASSUME NEW n \in 1 .. N, f[n - 1] \in X[n - 1]
        PROVE  f[n] \in X[n]
    <3> DEFINE x == f[n - 1]
    <3>1. e(x, n) \in X[n] /\ f[n] = e(x, n)
      <4> HIDE DEF X, G, Solves, Good
      <4>1. QED
        BY <1>3, <1>9, <2>2
    <3> HIDE DEF X, Solves
    <3>2. QED
      BY <3>1
  <2> HIDE DEF X, N, Solves
  <2>3. QED
    BY <2>1, <2>2, <1>1, RecursionStays
<1>11. Good(WordOf(bits), N)
  <2>1. N \in 0 .. N
    BY <1>1
  <2> HIDE DEF Good, Solves
  <2>2. QED
    BY <2>1, <1>8, <1>10
<1>12. QED
  BY <1>1, <1>11, Sizes

\* The three highest bits of a long agree if and only if it is a fixnum, and then the
\* bit beyond is the same.
LEMMA SignBits ==
  ASSUME NEW z \in -(4 * Limit) .. 4 * Limit - 1
  PROVE  /\ z \in Least .. Greatest <=>
              Bit(z, BitsPerCell - 3) = Bit(z, BitsPerCell - 1) /\ Bit(z, BitsPerCell - 2) = Bit(z, BitsPerCell - 1)
         /\ Bit(z, BitsPerCell) = Bit(z, BitsPerCell - 1)
<1>1. Limit \in Nat /\ Limit > 0 /\ z \in Int /\ Least = -Limit /\ Greatest = Limit - 1
      /\ BitsPerCell \in Nat /\ BitsPerCell >= 6
  BY Sizes
<1>2. /\ TwoTo[BitsPerCell - 3] = Limit /\ TwoTo[BitsPerCell - 2] = 2 * Limit
      /\ TwoTo[BitsPerCell - 1] = 4 * Limit /\ TwoTo[BitsPerCell] = 8 * Limit
  BY Sizes DEF Limit
<1> DEFINE q == z \div Limit
           e == z % Limit
<1>3. q \in Int /\ e \in 0 .. Limit - 1 /\ z = q * Limit + e
  BY <1>1, Division
<1> HIDE DEF e
<1>4. q \in -4 .. 3
  <2> HIDE DEF q
  <2>1. ~(q >= 4)
    <3>1. SUFFICES ASSUME q >= 4 PROVE FALSE
      OBVIOUS
    <3>2. q * Limit >= 4 * Limit
      BY <1>1, <1>3, <3>1
    <3>3. QED
      BY <1>1, <1>3, <3>2
  <2>2. ~(q <= -5)
    <3>1. SUFFICES ASSUME q <= -5 PROVE FALSE
      OBVIOUS
    <3>2. q * Limit <= -(5 * Limit)
      BY <1>1, <1>3, <3>1
    <3>3. QED
      BY <1>1, <1>3, <3>2
  <2>3. QED
    BY <1>3, <2>1, <2>2
<1>5. z \in Least .. Greatest <=> q \in {-1, 0}
  <2>1. ASSUME q \in -4 .. -2 PROVE z \notin Least .. Greatest
    <3> HIDE DEF q
    <3>1. q * Limit <= -(2 * Limit)
      BY <1>1, <1>3, <2>1
    <3>2. QED
      BY <1>1, <1>3, <2>1, <3>1
  <2>2. ASSUME q \in 1 .. 3 PROVE z \notin Least .. Greatest
    <3> HIDE DEF q
    <3>1. q * Limit >= Limit
      BY <1>1, <1>3, <2>2
    <3>2. QED
      BY <1>1, <1>3, <2>2, <3>1
  <2>3. ASSUME q \in {-1, 0} PROVE z \in Least .. Greatest
    <3> HIDE DEF q
    <3>1. q * Limit = -Limit \/ q * Limit = 0
      BY <1>1, <2>3
    <3>2. QED
      BY <1>1, <1>3, <3>1
  <2> HIDE DEF q
  <2>4. QED
    BY <1>4, <2>1, <2>2, <2>3
\* The quotients by larger powers are those of q.
<1>6. ASSUME NEW k \in {2, 4, 8} PROVE z \div (k * Limit) = q \div k
  <2> DEFINE p == q \div k
             s == q % k
             M == k * Limit
  <2>1. k \in Nat /\ k > 0 /\ M \in Nat /\ M > 0
    BY <1>1
  <2> HIDE DEF q
  <2>2. p \in Int /\ s \in 0 .. k - 1 /\ q = p * k + s
    BY <1>3, <2>1, Division
  <2> HIDE DEF p, s
  <2>3. z = p * M + (s * Limit + e)
    BY <1>1, <1>3, <2>1, <2>2
  <2>4. s * Limit <= (k - 1) * Limit /\ s * Limit \in Nat
    BY <1>1, <2>1, <2>2
  <2>5. s * Limit + e \in 0 .. M - 1
    BY <1>1, <1>3, <2>1, <2>4
  <2> HIDE DEF M
  <2>6. z \div M = p
    BY <1>1, <2>1, <2>2, <2>3, <2>5, Division
  <2>7. QED
    BY <2>6 DEF M, p
<1>7. /\ Bit(z, BitsPerCell - 3) = q % 2 /\ Bit(z, BitsPerCell - 2) = (q \div 2) % 2
      /\ Bit(z, BitsPerCell - 1) = (q \div 4) % 2 /\ Bit(z, BitsPerCell) = (q \div 8) % 2
  BY <1>2, <1>6 DEF Bit
<1> HIDE DEF q
<1>8. /\ (q % 2 = (q \div 4) % 2 /\ (q \div 2) % 2 = (q \div 4) % 2) <=> q \in {-1, 0}
      /\ (q \div 8) % 2 = (q \div 4) % 2
  BY <1>4
<1>9. QED
  BY <1>5, <1>7, <1>8

\* The word with the bits that a truth table gives is that of a fixnum, with
\* its sign.
LEMMA TableExact ==
  ASSUME NEW m \in Least .. Greatest, NEW n \in Least .. Greatest,
         NEW table \in [{0, 1} -> [{0, 1} -> {0, 1}]], NEW bits,
         bits = [i \in 0 .. BitsPerCell - 1 |-> table[Bit(Unsigned(m), i)][Bit(Unsigned(n), i)]]
  PROVE  /\ Long(WordOf(bits)) \in Least .. Greatest
         /\ \A i \in 0 .. BitsPerCell : Bit(Long(WordOf(bits)), i) = table[Bit(m, i)][Bit(n, i)]
<1> DEFINE N == BitsPerCell
           r == Long(WordOf(bits))
<1>1. N \in Nat /\ N >= 6 /\ m \in Int /\ n \in Int /\ TwoTo[N] = 8 * Limit /\ Limit \in Nat /\ Limit > 0
      /\ m \in -(4 * Limit) .. 4 * Limit - 1 /\ n \in -(4 * Limit) .. 4 * Limit - 1
  BY Sizes
<1>2. ASSUME NEW x \in Int, NEW i \in 0 .. N - 1
      PROVE  Unsigned(x) \in Int /\ Bit(Unsigned(x), i) = Bit(x, i) /\ Bit(Long(x), i) = Bit(x, i)
  <2>1. Unsigned(x) \in Int /\ N \in 0 .. BitsPerCell
    BY <1>1, LongFacts
  <2>2. \E k \in Int : x = Unsigned(x) + k * TwoTo[N]
    <3> DEFINE M == TwoTo[N]
               k == x \div M
    <3>1. M \in Nat /\ M > 0
      BY <1>1
    <3> HIDE DEF M
    <3>2. k \in Int /\ x = k * M + (x % M) /\ x % M \in Int
      BY <3>1, Division
    <3>3. x = Unsigned(x) + k * M
      <4>1. Unsigned(x) = x % M
        BY DEF Unsigned, M
      <4> HIDE DEF k
      <4>2. QED
        BY <3>1, <3>2, <4>1
    <3>4. QED
      BY <3>2, <3>3 DEF M
  <2>3. Bit(x, i) = Bit(Unsigned(x), i)
    <3>1. PICK k \in Int : x = Unsigned(x) + k * TwoTo[N]
      BY <2>2
    <3>2. Bit(Unsigned(x) + k * TwoTo[N], i) = Bit(Unsigned(x), i)
      BY <2>1, LowerBits
    <3>3. QED
      BY <3>1, <3>2
  <2>4. PICK k \in Int : Long(x) = x + k * TwoTo[N]
    BY <1>1, LongFacts
  <2>5. Bit(Long(x), i) = Bit(x, i)
    <3>1. Bit(x + k * TwoTo[N], i) = Bit(x, i)
      BY <2>1, LowerBits
    <3>2. QED
      BY <2>4, <3>1
  <2>6. QED
    BY <2>1, <2>3, <2>5
<1>3. bits \in [0 .. N - 1 -> {0, 1}]
  <2>1. ASSUME NEW i \in 0 .. N - 1 PROVE table[Bit(Unsigned(m), i)][Bit(Unsigned(n), i)] \in {0, 1}
    <3>1. i \in 0 .. BitsPerCell /\ Unsigned(m) \in Int /\ Unsigned(n) \in Int
      BY <1>1, <1>2
    <3>2. Bit(Unsigned(m), i) \in {0, 1} /\ Bit(Unsigned(n), i) \in {0, 1}
      BY <3>1, BitFacts
    <3>3. QED
      BY <3>2
  <2>2. QED
    BY <2>1
<1>4. WordOf(bits) \in Int /\ \A i \in 0 .. N - 1 : Bit(WordOf(bits), i) = bits[i]
  <2>1. WordOf(bits) \in 0 .. 8 * Limit - 1 /\ \A i \in 0 .. N - 1 : Bit(WordOf(bits), i) = bits[i]
    BY <1>3, WordFacts
  <2>2. \A x \in 0 .. 8 * Limit - 1 : x \in Int
    OBVIOUS
  <2>3. QED
    BY <2>1, <2>2, Zenon
<1>5. ASSUME NEW i \in 0 .. N - 1 PROVE Bit(r, i) = table[Bit(m, i)][Bit(n, i)]
  <2>1. Bit(r, i) = bits[i]
    BY <1>2, <1>4
  <2>2. bits[i] = table[Bit(Unsigned(m), i)][Bit(Unsigned(n), i)]
    OBVIOUS
  <2>3. QED
    BY <1>1, <1>2, <2>1, <2>2
<1>6. r \in -(4 * Limit) .. 4 * Limit - 1
  BY <1>4, LongFacts
<1>7. /\ N - 3 \in 0 .. N - 1 /\ N - 2 \in 0 .. N - 1 /\ N - 1 \in 0 .. N - 1
  BY <1>1
<1>8. /\ Bit(m, N - 3) = Bit(m, N - 1) /\ Bit(m, N - 2) = Bit(m, N - 1) /\ Bit(m, N) = Bit(m, N - 1)
      /\ Bit(n, N - 3) = Bit(n, N - 1) /\ Bit(n, N - 2) = Bit(n, N - 1) /\ Bit(n, N) = Bit(n, N - 1)
  BY <1>1, SignBits
<1> HIDE DEF r
<1>9. r \in Least .. Greatest /\ Bit(r, N) = Bit(r, N - 1)
  <2>1. Bit(r, N - 3) = Bit(r, N - 1) /\ Bit(r, N - 2) = Bit(r, N - 1)
    BY <1>5, <1>7, <1>8
  <2>2. QED
    BY <1>6, <2>1, SignBits
<1>10. Bit(r, N) = table[Bit(m, N)][Bit(n, N)]
  BY <1>5, <1>7, <1>8, <1>9
<1>11. ASSUME NEW i \in 0 .. N PROVE Bit(r, i) = table[Bit(m, i)][Bit(n, i)]
  <2>1. i \in 0 .. N - 1 \/ i = N
    BY <1>1
  <2>2. QED
    BY <1>5, <1>10, <2>1
<1>12. QED
  BY <1>9, <1>11 DEF r

\* bitwise-and, bitwise-ior and bitwise-xor, from their truth tables: no tag, no overflow.
LEMMA BitwiseExact ==
  ASSUME NEW m \in Least .. Greatest, NEW n \in Least .. Greatest
  PROVE  /\ Exact("bitwise-and", m, n, bitwise_and(4 * m, 4 * n))
         /\ Exact("bitwise-ior", m, n, bitwise_ior(4 * m, 4 * n))
         /\ Exact("bitwise-xor", m, n, bitwise_xor(4 * m, 4 * n))
<1>1. /\ m \in Int /\ n \in Int /\ Bits(4 * m) = Unsigned(m) /\ Bits(4 * n) = Unsigned(n)
      /\ Unsigned(m) \in Int /\ Unsigned(n) \in Int
  <2>1. m \in Int /\ n \in Int /\ extract_fixnum(4 * m) = m /\ extract_fixnum(4 * n) = n
    BY FixnumFacts
  <2>2. Limit \in Nat
    BY Sizes
  <2>3. Unsigned(m) \in Int /\ Unsigned(n) \in Int
    BY <2>1, <2>2, LongFacts
  <2>4. QED
    BY <2>1, <2>3 DEF Bits
<1>2. \A i \in 0 .. BitsPerCell : Bit(m, i) \in {0, 1} /\ Bit(n, i) \in {0, 1}
  BY <1>1, BitFacts
<1>3. \A i \in 0 .. BitsPerCell - 1 : Bit(Unsigned(m), i) \in {0, 1} /\ Bit(Unsigned(n), i) \in {0, 1}
  BY <1>1, BitFacts, WordAssumption
<1>4. Exact("bitwise-and", m, n, bitwise_and(4 * m, 4 * n))
  <2> DEFINE bits == [i \in 0 .. BitsPerCell - 1 |-> AndBit(Bit(Unsigned(m), i), Bit(Unsigned(n), i))]
             table == [b \in {0, 1} |-> [c \in {0, 1} |-> AndBit(b, c)]]
             r == Long(WordOf(bits))
  <2>1. \A b, c \in {0, 1} : table[b][c] = AndBit(b, c) /\ AndBit(b, c) \in {0, 1}
    BY DEF AndBit
  <2>2. table \in [{0, 1} -> [{0, 1} -> {0, 1}]]
    BY <2>1
  <2>3. bits = [i \in 0 .. BitsPerCell - 1 |-> table[Bit(Unsigned(m), i)][Bit(Unsigned(n), i)]]
    BY <1>3, <2>1
  <2> HIDE DEF table, bits
  <2>4. r \in Least .. Greatest /\ \A i \in 0 .. BitsPerCell : Bit(r, i) = table[Bit(m, i)][Bit(n, i)]
    BY <2>2, <2>3, TableExact
  <2>5. bitwise_and(4 * m, 4 * n) = Value(enter_fixnum(r))
    BY <1>1 DEF bitwise_and, OnBits, bits
  <2> HIDE DEF r
  <2>6. \A i \in 0 .. BitsPerCell : IsSet(r, i) <=> IsSet(m, i) /\ IsSet(n, i)
    BY <1>2, <2>1, <2>4 DEF IsSet, AndBit
  <2>7. Means("bitwise-and", m, n, r)
    BY <2>6 DEF Means
  <2>8. QED
    BY <2>4, <2>5, <2>7, ExactValue
<1>5. Exact("bitwise-ior", m, n, bitwise_ior(4 * m, 4 * n))
  <2> DEFINE bits == [i \in 0 .. BitsPerCell - 1 |-> OrBit(Bit(Unsigned(m), i), Bit(Unsigned(n), i))]
             table == [b \in {0, 1} |-> [c \in {0, 1} |-> OrBit(b, c)]]
             r == Long(WordOf(bits))
  <2>1. \A b, c \in {0, 1} : table[b][c] = OrBit(b, c) /\ OrBit(b, c) \in {0, 1}
    BY DEF OrBit
  <2>2. table \in [{0, 1} -> [{0, 1} -> {0, 1}]]
    BY <2>1
  <2>3. bits = [i \in 0 .. BitsPerCell - 1 |-> table[Bit(Unsigned(m), i)][Bit(Unsigned(n), i)]]
    BY <1>3, <2>1
  <2> HIDE DEF table, bits
  <2>4. r \in Least .. Greatest /\ \A i \in 0 .. BitsPerCell : Bit(r, i) = table[Bit(m, i)][Bit(n, i)]
    BY <2>2, <2>3, TableExact
  <2>5. bitwise_ior(4 * m, 4 * n) = Value(enter_fixnum(r))
    BY <1>1 DEF bitwise_ior, OnBits, bits
  <2> HIDE DEF r
  <2>6. \A i \in 0 .. BitsPerCell : IsSet(r, i) <=> IsSet(m, i) \/ IsSet(n, i)
    BY <1>2, <2>1, <2>4 DEF IsSet, OrBit
  <2>7. Means("bitwise-ior", m, n, r)
    BY <2>6 DEF Means
  <2>8. QED
    BY <2>4, <2>5, <2>7, ExactValue
<1>6. Exact("bitwise-xor", m, n, bitwise_xor(4 * m, 4 * n))
  <2> DEFINE bits == [i \in 0 .. BitsPerCell - 1 |-> XorBit(Bit(Unsigned(m), i), Bit(Unsigned(n), i))]
             table == [b \in {0, 1} |-> [c \in {0, 1} |-> XorBit(b, c)]]
             r == Long(WordOf(bits))
  <2>1. \A b, c \in {0, 1} : table[b][c] = XorBit(b, c) /\ XorBit(b, c) \in {0, 1}
    BY DEF XorBit
  <2>2. table \in [{0, 1} -> [{0, 1} -> {0, 1}]]
    BY <2>1
  <2>3. bits = [i \in 0 .. BitsPerCell - 1 |-> table[Bit(Unsigned(m), i)][Bit(Unsigned(n), i)]]
    BY <1>3, <2>1
  <2> HIDE DEF table, bits
  <2>4. r \in Least .. Greatest /\ \A i \in 0 .. BitsPerCell : Bit(r, i) = table[Bit(m, i)][Bit(n, i)]
    BY <2>2, <2>3, TableExact
  <2>5. bitwise_xor(4 * m, 4 * n) = Value(enter_fixnum(r))
    BY <1>1 DEF bitwise_xor, OnBits, bits
  <2> HIDE DEF r
  <2>6. \A i \in 0 .. BitsPerCell : IsSet(r, i) <=> (IsSet(m, i) # IsSet(n, i))
    BY <1>2, <2>1, <2>4 DEF IsSet, XorBit
  <2>7. Means("bitwise-xor", m, n, r)
    BY <2>6 DEF Means
  <2>8. QED
    BY <2>4, <2>5, <2>7, ExactValue
<1>7. QED
  BY <1>4, <1>5, <1>6
-----------------------------------------------------------------------------
(* The interpreter.                                                        *)

\* Whatever an instruction enters as a fixnum is one, if not the same.
LEMMA Entered ==
  ASSUME NEW n \in Int
  PROVE  enter_fixnum(n) \in Fixnums
<1>1. Limit \in Nat /\ Limit > 0 /\ Least = -Limit /\ Greatest = Limit - 1
      /\ BitsPerCell \in Nat /\ BitsPerCell >= 6
  BY Sizes
<1>2. enter_fixnum(n) = Long(n * 4)
  BY <1>1, Sizes DEF enter_fixnum, PS_SHIFT_LEFT
<1>3. n * 4 \in Int
  OBVIOUS
<1>4. PICK k \in Int : Long(n * 4) = n * 4 + k * (8 * Limit)
  BY <1>3, LongFacts
<1>5. Long(n * 4) \in -(4 * Limit) .. 4 * Limit - 1
  BY <1>3, LongFacts
<1> DEFINE r == n + 2 * (k * Limit)
<1>6. r \in Int /\ Long(n * 4) = 4 * r
  BY <1>1, <1>4
<1> HIDE DEF r
<1>7. r \in Least .. Greatest
  BY <1>1, <1>5, <1>6
<1>8. QED
  BY <1>2, <1>6, <1>7, FixnumFacts

\* A descriptor that an instruction can meet: if it has the tag of a fixnum, it is one.
Operand(d) == d \in Int /\ (IsFixnum(d) => \E n \in Least .. Greatest : d = 4 * n)

\* Descriptors are operands, and so is what an instruction enters.
LEMMA Operands ==
  /\ \A d \in Descriptors : Operand(d)
  /\ \A n \in Int : Operand(enter_fixnum(n))
  /\ \A d \in Fixnums : Operand(d)
  /\ \A c \in 0 .. 255 : Operand(enter_char(c))
  /\ Operand(True) /\ Operand(False)
<1>1. ASSUME NEW d \in Fixnums PROVE Operand(d)
  <2>1. PICK n \in Least .. Greatest : d = enter_fixnum(n)
    BY DEF Fixnums
  <2>2. d = 4 * n /\ n \in Int
    BY <2>1, FixnumFacts
  <2>3. QED
    BY <2>2 DEF Operand
<1>2. ASSUME NEW c \in 0 .. 255 PROVE Operand(enter_char(c))
  BY DEF Operand, enter_char, IsFixnum
<1>3. Operand(True) /\ Operand(False) /\ Operand(Eof)
  BY DEF Operand, True, False, Eof, IsFixnum
<1>4. ASSUME NEW d \in Descriptors PROVE Operand(d)
  <2>1. CASE d \in {enter_char(c) : c \in Characters}
    BY <1>2, <2>1, WordAssumption
  <2>2. CASE d \in {4 * i - 1 : i \in DOMAIN StobTypes}
    <3>1. PICK i \in 1 .. 5 : d = 4 * i - 1
      BY <2>2 DEF StobTypes
    <3>2. QED
      BY <3>1 DEF Operand, IsFixnum
  <2>3. QED
    BY <1>1, <1>3, <2>1, <2>2 DEF Descriptors
<1>5. \A n \in Int : Operand(enter_fixnum(n))
  BY <1>1, Entered
<1>6. QED
  BY <1>1, <1>2, <1>3, <1>4, <1>5

\* An outcome leaves an operand in the value register.
Sound(outcome) == outcome.exception = "none" => Operand(outcome.value)

\* Exceptions, truth values and operands are such outcomes.
LEMMA Outcomes ==
  /\ \A d : Operand(d) => Sound(Value(d))
  /\ Sound(WrongType) /\ Sound(Overflow)
  /\ \A truth : Sound(Value(Enter(truth)))
  BY Operands DEF Sound, Value, WrongType, Overflow, Enter

\* Instructions with one operand.
LEMMA UnarySound ==
  ASSUME NEW op \in Unary, NEW d, Operand(d)
  PROVE  Sound(One(op, d))
<1>1. d \in Int
  BY DEF Operand
<1>2. \A n \in Int : Sound(Value(enter_fixnum(n)))
  BY Operands, Outcomes
<1>3. Sound(Value(d)) /\ Sound(Value(True)) /\ Sound(Value(False)) /\ Sound(WrongType) /\ Sound(Overflow)
  BY Operands, Outcomes
<1>4. \A outcome : Sound(outcome) => Sound(OnFixnum(d, outcome)) /\ Sound(OnChar(d, outcome))
  BY <1>3 DEF OnFixnum, OnChar
<1>5. \A types : Sound(Among(d, types))
  BY <1>3 DEF Among
<1>6. Sound(number_p(d)) /\ Sound(char_p(d)) /\ Sound(eof_object_p(d))
  BY Outcomes DEF number_p, char_p, eof_object_p
<1>7. Sound(exact_p(d)) /\ Sound(Itself(d)) /\ Sound(Convert(d)) /\ Sound(Punt(d))
  BY <1>3, <1>4 DEF exact_p, Itself, Convert, Punt
<1>8. Sound(denominator(d)) /\ Sound(imag_part(d)) /\ Sound(angle(d))
  BY <1>2, <1>3, <1>4 DEF denominator, imag_part, angle
<1>9. Sound(char_to_ascii(d))
  <2>1. d \div 256 \in Int
    BY <1>1
  <2>2. QED
    BY <1>2, <1>4, <2>1 DEF char_to_ascii
<1>10. Sound(ascii_to_char(d))
  <2>1. Sound(IF extract_fixnum(d) \in 0 .. 255 THEN Value(enter_char(extract_fixnum(d))) ELSE WrongType)
    BY <1>3, Operands, Outcomes
  <2>2. QED
    BY <1>4, <2>1 DEF ascii_to_char
<1>11. Sound(bitwise_not(d)) /\ Sound(magnitude(d))
  <2>1. CASE ~IsFixnum(d)
    BY <1>3, <2>1 DEF bitwise_not, magnitude, OnFixnum
  <2>2. CASE IsFixnum(d)
    <3>1. PICK n \in Least .. Greatest : d = 4 * n
      BY <2>2 DEF Operand
    <3>2. extract_fixnum(d) = n /\ n \in Int
      BY <3>1, FixnumFacts
    <3>3. -n - 1 \in Int /\ 0 - d \in Int
      BY <1>1, <3>2
    <3>4. Abs(d) \in Int
      <4>1. Long(0 - d) \in Int
        BY <3>3, LongFacts, Sizes
      <4>2. QED
        BY <1>1, <4>1 DEF Abs
    <3>5. Sound(abs_carefully(d))
      BY <1>2, <1>3, <3>4 DEF abs_carefully
    <3>6. QED
      BY <1>2, <1>4, <3>2, <3>3, <3>5 DEF bitwise_not, magnitude
  <2>3. QED
    BY <2>1, <2>2
<1>12. QED
  BY <1>5, <1>6, <1>7, <1>8, <1>9, <1>10, <1>11
     DEF Unary, Predicates, One, integer_p, rational_p, real_p, complex_p

\* Multiplication enters what its words hold, exact or not.
LEMMA ProductSound ==
  ASSUME NEW m \in Least .. Greatest, NEW n \in Least .. Greatest
  PROVE  Sound(multiply_carefully(4 * m, 4 * n))
<1> DEFINE a == Abs(m)
           b == Abs(n)
           lo_c == Long(LowHalf(a) * LowHalf(b))
           mid_c == Long(LowHalf(a) * HighHalf(b) + LowHalf(b) * HighHalf(a))
           shifted == PS_SHIFT_LEFT(mid_c, HalfWord)
           c == Long(lo_c + shifted)
<1>1. \A z \in Int : Long(z) \in Int
  BY LongFacts, Sizes
<1>2. LowHalf(a) \in Int /\ LowHalf(b) \in Int /\ HighHalf(a) \in Int /\ HighHalf(b) \in Int
  BY Halves, Sizes
<1>3. LowHalf(a) * LowHalf(b) \in Int /\ LowHalf(a) * HighHalf(b) + LowHalf(b) * HighHalf(a) \in Int
  BY <1>2
<1>4. lo_c \in Int /\ mid_c \in Int
  BY <1>1, <1>3
<1> HIDE DEF lo_c, mid_c
<1>5. shifted \in Int
  <2>1. mid_c * TwoTo[HalfWord] \in Int
    BY <1>4, Sizes
  <2>2. QED
    BY <1>1, <2>1 DEF PS_SHIFT_LEFT
<1>6. lo_c + shifted \in Int
  BY <1>4, <1>5
<1> HIDE DEF shifted
<1>7. c \in Int
  BY <1>1, <1>6
<1> HIDE DEF c
<1>8. 0 - c \in Int
  BY <1>7
<1>9. Long(0 - c) \in Int
  BY <1>1, <1>8
<1>10. Sound(Value(enter_fixnum(c))) /\ Sound(Value(enter_fixnum(Long(0 - c)))) /\ Sound(Overflow)
  BY <1>7, <1>9, Operands, Outcomes
<1>11. multiply_carefully(4 * m, 4 * n) =
         IF HalvesTooBig(a, b, lo_c, mid_c) THEN Overflow
         ELSE IF SameSigns(m, n) THEN IF TooBig(c) THEN Overflow ELSE Value(enter_fixnum(c))
         ELSE IF c > -Least THEN Overflow ELSE Value(enter_fixnum(Long(0 - c)))
  BY FixnumFacts DEF multiply_carefully, c, shifted, lo_c, mid_c
<1> HIDE DEF a, b
<1>12. QED
  BY <1>10, <1>11

\* The instructions of arithmetic do what they mean; all but multiplication, whatever
\* the C compiler makes of overflow.
LEMMA InstructionsExact ==
  ASSUME NEW m \in Least .. Greatest, NEW n \in Least .. Greatest,
         NEW op \in Arithmetic \cup Bitwise, op = "*" => OverflowWraps
  PROVE  Exact(op, m, n, OnFixnums(op, 4 * m, 4 * n))
<1>1. CASE op = "*"
  BY <1>1, MultiplyExact DEF OnFixnums
<1>2. CASE op = "arithmetic-shift"
  <2>1. Exact("arithmetic-shift", m, n, shift_carefully(4 * m, 4 * n))
    BY LeftShiftExact, RightShiftExact
  <2>2. QED
    BY <1>2, <2>1 DEF OnFixnums
<1>3. CASE op \in {"+", "-"}
  BY <1>3, AddExact DEF OnFixnums
<1>4. CASE op \in {"/", "quotient", "remainder"}
  BY <1>4, DivideExact, QuotientExact, RemainderExact DEF OnFixnums
<1>5. CASE op \in Bitwise
  BY <1>5, BitwiseExact DEF OnFixnums, Bitwise
<1>6. QED
  BY <1>1, <1>2, <1>3, <1>4, <1>5 DEF Arithmetic

BinaryOnFixnums == Arithmetic \cup Bitwise \cup Comparisons \cup {"atan"}

\* Instructions with two fixnums.
LEMMA BinarySound ==
  ASSUME NEW op \in BinaryOnFixnums, NEW x, NEW y, Operand(x), Operand(y), IsFixnum(x), IsFixnum(y)
  PROVE  Sound(OnFixnums(op, x, y))
<1>1. PICK m \in Least .. Greatest, n \in Least .. Greatest : x = 4 * m /\ y = 4 * n
  BY DEF Operand
<1>2. CASE op = "*"
  BY <1>1, <1>2, ProductSound DEF OnFixnums
<1>3. CASE op \in (Arithmetic \cup Bitwise) \ {"*"}
  <2>1. Exact(op, m, n, OnFixnums(op, x, y))
    BY <1>1, <1>3, InstructionsExact
  <2>2. QED
    BY <2>1, Operands DEF Exact, Sound
<1>4. CASE op \in Comparisons \cup {"atan"}
  BY <1>4, Outcomes DEF Comparisons, OnFixnums, Equal, Less, Greater, NotMore, NotLess, Punt2
<1>5. QED
  BY <1>2, <1>3, <1>4 DEF BinaryOnFixnums

\* The instruction just done.
DoneOne(op, d) ==
  last = [op |-> op, operands |-> <<d>>, outcome |-> One(op, d)]
DoneTwo(op, x, y) ==
  last = [op |-> op, operands |-> <<x, y>>,
          outcome |-> IF IsFixnum(x) /\ IsFixnum(y) THEN OnFixnums(op, x, y) ELSE WrongType]
DoneOther == last # Nothing => last.op \in {"eq?", "char=?", "char<?"}

\* The registers hold operands, and last is what an instruction did to some.
IInv ==
  /\ Operand(val)
  /\ stack = <<>> \/ \E d : Operand(d) /\ stack = <<d>>
  /\ \/ DoneOther
     \/ \E op \in Unary : \E d : Operand(d) /\ DoneOne(op, d)
     \/ \E op \in BinaryOnFixnums : \E x, y : Operand(x) /\ Operand(y) /\ DoneTwo(op, x, y)

\* At the start there is no instruction.
LEMMA InitOk == Init => IInv
  BY Operands DEF Init, IInv, DoneOther

\* Each step leaves operands in the registers.
LEMMA NextOk == IInv /\ [Next]_vars => IInv'
<1> SUFFICES ASSUME IInv, [Next]_vars
             PROVE  IInv'
  OBVIOUS
<1> USE DEF IInv
<1>1. CASE Literal
  BY <1>1, Operands DEF Literal, DoneOther
<1>2. CASE Push
  BY <1>2 DEF Push, DoneOther
<1>3. CASE Continue
  BY <1>3 DEF Continue, DoneOther
<1>4. ASSUME NEW op \in Unary, Execute(op)
      PROVE  IInv'
  <2>1. PICK d : d = val
    OBVIOUS
  <2>2. /\ val' = IF One(op, d).exception = "none" THEN One(op, d).value ELSE d
        /\ last' = [op |-> op, operands |-> <<d>>, outcome |-> One(op, d)]
        /\ stack' = stack
    BY <1>4, <2>1 DEF Execute, Finish
  <2>3. Operand(d) /\ Sound(One(op, d))
    BY <2>1, UnarySound
  <2>4. Operand(val')
    BY <2>2, <2>3 DEF Sound
  <2>5. DoneOne(op, d)'
    BY <2>2 DEF DoneOne
  <2>6. QED
    BY <2>2, <2>3, <2>4, <2>5
<1>5. ASSUME NEW op \in BinaryOnFixnums, OnTwoFixnums(op)
      PROVE  IInv'
  <2>1. PICK x, y : Operand(x) /\ stack = <<x>> /\ y = val
    BY <1>5 DEF OnTwoFixnums, Execute2
  <2> DEFINE outcome == IF IsFixnum(x) /\ IsFixnum(y) THEN OnFixnums(op, x, y) ELSE WrongType
  <2>2. /\ val' = IF outcome.exception = "none" THEN outcome.value ELSE y
        /\ last' = [op |-> op, operands |-> <<x, y>>, outcome |-> outcome]
        /\ stack' = <<>>
    BY <1>5, <2>1 DEF OnTwoFixnums, Execute2, Finish
  <2>3. Operand(x) /\ Operand(y) /\ Sound(outcome)
    BY <2>1, BinarySound, Outcomes
  <2>4. DoneTwo(op, x, y)'
    BY <2>2 DEF DoneTwo
  <2> HIDE DEF outcome
  <2>5. Operand(val')
    BY <2>2, <2>3 DEF Sound
  <2>6. QED
    BY <2>2, <2>3, <2>4, <2>5
<1>6. CASE eq_p \/ CharEq \/ CharLess
  <2>1. ASSUME NEW op \in {"eq?", "char=?", "char<?"}, NEW outcome, Sound(outcome), Execute2(op, outcome)
        PROVE  IInv'
    <3>1. Operand(val') /\ stack' = <<>> /\ DoneOther'
      BY <2>1 DEF Execute2, Finish, Sound, DoneOther
    <3>2. QED
      BY <3>1
  <2>2. CASE eq_p
    <3>1. Sound(Value(Enter(Head(stack) = val)))
      BY Outcomes
    <3>2. QED
      BY <2>1, <2>2, <3>1 DEF eq_p
  <2>3. CASE CharEq
    <3>1. Sound(char_eq(Head(stack), val))
      BY Outcomes DEF char_eq
    <3>2. QED
      BY <2>1, <2>3, <3>1 DEF CharEq
  <2>4. CASE CharLess
    <3>1. Sound(char_less(Head(stack), val))
      BY Outcomes DEF char_less
    <3>2. QED
      BY <2>1, <2>4, <3>1 DEF CharLess
  <2>5. QED
    BY <1>6, <2>2, <2>3, <2>4
<1>7. CASE UNCHANGED vars
  BY <1>7 DEF vars, DoneOther, DoneOne, DoneTwo
<1>8. QED
  BY <1>1, <1>2, <1>3, <1>4, <1>5, <1>6, <1>7 DEF Next, BinaryOnFixnums

\* An instruction done on fixnums is one of those with two.
LEMMA OnTwo ==
  ASSUME IInv, NEW ops, ops \subseteq Arithmetic \cup Bitwise \cup Comparisons, DoneOnFixnums(ops)
  PROVE  \E op \in ops, m \in Least .. Greatest, n \in Least .. Greatest :
           /\ last.op = op /\ last.outcome = OnFixnums(op, 4 * m, 4 * n)
           /\ last.operands[1] \div 4 = m /\ last.operands[2] \div 4 = n
<1>1. last # Nothing /\ last.op \in ops /\ \A i \in DOMAIN last.operands : IsFixnum(last.operands[i])
  BY DEF DoneOnFixnums
<1>2. ~DoneOther
  BY <1>1 DEF DoneOther, Arithmetic, Bitwise, Comparisons
<1>3. ASSUME NEW op \in Unary, NEW d, DoneOne(op, d) PROVE FALSE
  BY <1>1, <1>3 DEF DoneOne, Unary, Predicates, Arithmetic, Bitwise, Comparisons
<1>4. PICK op \in BinaryOnFixnums : \E x, y : Operand(x) /\ Operand(y) /\ DoneTwo(op, x, y)
  BY <1>2, <1>3 DEF IInv
<1>5. PICK x, y : Operand(x) /\ Operand(y) /\ DoneTwo(op, x, y)
  BY <1>4
<1>6. last.op = op /\ last.operands = <<x, y>>
  BY <1>5 DEF DoneTwo
<1>7. IsFixnum(x) /\ IsFixnum(y)
  <2>1. 1 \in DOMAIN <<x, y>> /\ 2 \in DOMAIN <<x, y>> /\ <<x, y>>[1] = x /\ <<x, y>>[2] = y
    OBVIOUS
  <2>2. QED
    BY <1>1, <1>6, <2>1
<1>8. PICK m \in Least .. Greatest, n \in Least .. Greatest : x = 4 * m /\ y = 4 * n
  BY <1>5, <1>7 DEF Operand
<1>9. (4 * m) \div 4 = m /\ (4 * n) \div 4 = n
  BY FixnumFacts
<1>10. last.outcome = OnFixnums(op, x, y)
  BY <1>5, <1>7 DEF DoneTwo
<1>11. QED
  BY <1>1, <1>6, <1>8, <1>9, <1>10

\* An instruction on two fixnums returns what it means, or raises an exception because no
\* fixnum is that: add-carefully, multiply-carefully and the others of arith.scm, if the
\* C compiler lets signed overflow wrap.
THEOREM InstructionsMean == ASSUME OverflowWraps PROVE Spec => []ArithmeticExact
<1>1. Init => IInv
  BY InitOk
<1>2. IInv /\ [Next]_vars => IInv'
  BY NextOk
<1>3. IInv => ArithmeticExact
  <2> SUFFICES ASSUME IInv, DoneOnFixnums(Arithmetic \cup Bitwise) PROVE ArithmeticExact
    BY DEF ArithmeticExact
  <2>1. PICK op \in Arithmetic \cup Bitwise, m \in Least .. Greatest, n \in Least .. Greatest :
           /\ last.op = op /\ last.outcome = OnFixnums(op, 4 * m, 4 * n)
           /\ last.operands[1] \div 4 = m /\ last.operands[2] \div 4 = n
    BY OnTwo
  <2>2. Exact(op, m, n, last.outcome)
    BY <2>1, InstructionsExact
  <2>3. QED
    BY <2>1, <2>2 DEF ArithmeticExact, Exact
<1>4. QED
  BY <1>1, <1>2, <1>3, PTL DEF Spec

\* Comparisons of descriptors are those of the fixnums.
LEMMA ComparisonsRight ==
  ASSUME NEW op \in Comparisons, NEW m \in Least .. Greatest, NEW n \in Least .. Greatest
  PROVE  OnFixnums(op, 4 * m, 4 * n).value = True <=> Holds(op, m, n)
<1>1. m \in Int /\ n \in Int
  BY Sizes
<1>2. CASE op = "="
  BY <1>1, <1>2 DEF OnFixnums, Holds, Value, Enter, True, False, Equal
<1>3. CASE op = "<"
  BY <1>1, <1>3 DEF OnFixnums, Holds, Value, Enter, True, False, Less
<1>4. CASE op = ">"
  BY <1>1, <1>4 DEF OnFixnums, Holds, Value, Enter, True, False, Greater
<1>5. CASE op = "<="
  BY <1>1, <1>5 DEF OnFixnums, Holds, Value, Enter, True, False, NotMore
<1>6. CASE op = ">="
  BY <1>1, <1>6 DEF OnFixnums, Holds, Value, Enter, True, False, NotLess
<1>7. QED
  BY <1>2, <1>3, <1>4, <1>5, <1>6 DEF Comparisons

\* What passes a predicate passes those above it, whatever it is.
LEMMA Tower ==
  ASSUME NEW op \in Predicates, NEW d
  PROVE  /\ One(op, d) = Value(True) =>
              \A above \in (IF op = "integer?" THEN {"rational?", "real?", "complex?", "number?"}
                                             ELSE {"number?"}) : One(above, d) = Value(True)
         /\ One(op, d) = WrongType => One("number?", d) = Value(True)
<1>1. /\ One("number?", d) = number_p(d) /\ One("integer?", d) = integer_p(d)
      /\ One("rational?", d) = rational_p(d) /\ One("real?", d) = real_p(d)
      /\ One("complex?", d) = complex_p(d)
  BY DEF One
<1>2. Value(True) # Value(False) /\ WrongType # Value(True) /\ WrongType # Value(False)
  BY DEF Value, WrongType, True, False
<1>3. \A types : /\ Among(d, types) = Value(True) <=> IsFixnum(d) \/ \E t \in types : HasType(d, t)
                 /\ Among(d, types) = WrongType => HasType(d, "extended-number")
  BY <1>2 DEF Among
<1>4. /\ number_p(d) = Value(True) <=> IsFixnum(d) \/ (d % 4 = 3 /\ ~HasType(d, "pair"))
      /\ number_p(d) # WrongType
  BY <1>2 DEF number_p, Enter
<1>5. \A t \in {"bignum", "ratnum", "double", "extended-number"} :
        HasType(d, t) => number_p(d) = Value(True)
  BY <1>4 DEF HasType
<1>6. CASE op = "number?"
  BY <1>1, <1>4, <1>6
<1>7. CASE op = "integer?"
  BY <1>1, <1>3, <1>4, <1>5, <1>7 DEF integer_p, rational_p, real_p, complex_p
<1>8. CASE op \in {"rational?", "real?", "complex?"}
  BY <1>1, <1>3, <1>4, <1>5, <1>8 DEF rational_p, real_p, complex_p
<1>9. QED
  BY <1>6, <1>7, <1>8 DEF Predicates

\* The comparisons of prim.scm order the fixnums as integers, and its predicates on numbers
\* form a tower.
THEOREM OrderAndTower == Spec => []PredicatesSound
<1>1. Init => IInv
  BY InitOk
<1>2. IInv /\ [Next]_vars => IInv'
  BY NextOk
<1>3. IInv => PredicatesSound
  <2> SUFFICES ASSUME IInv PROVE PredicatesSound
    OBVIOUS
  <2>1. ASSUME DoneOnFixnums(Comparisons)
        PROVE  last.outcome.value = True <=> Holds(last.op, last.operands[1] \div 4, last.operands[2] \div 4)
    BY <2>1, OnTwo, ComparisonsRight
  <2>2. ASSUME last # Nothing, last.op \in Predicates
        PROVE  \E d : last.operands[1] = d /\ last.outcome = One(last.op, d)
    <3>1. ~DoneOther
      BY <2>2 DEF DoneOther, Predicates
    <3>2. ASSUME NEW op \in BinaryOnFixnums, NEW x, NEW y, DoneTwo(op, x, y) PROVE FALSE
      BY <2>2, <3>2 DEF DoneTwo, BinaryOnFixnums, Predicates, Arithmetic, Bitwise, Comparisons
    <3>3. \E op \in Unary : \E d : DoneOne(op, d)
      BY <3>1, <3>2 DEF IInv
    <3>4. QED
      BY <3>3 DEF DoneOne
  <2>3. QED
    BY <2>1, <2>2, Tower DEF PredicatesSound
<1>4. QED
  BY <1>1, <1>2, <1>3, PTL DEF Spec
===============================================================================

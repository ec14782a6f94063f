------------------------------ MODULE SetInduction ------------------------------
(***************************************************************************)
(* Induction over the numbers up to a bound, stated of a set instead of a   *)
(* predicate: every claim about a recursively defined function of the       *)
(* project's modules is proved by showing that the set of the numbers for   *)
(* which it holds has 0 and, with n - 1, also n.                            *)
(***************************************************************************)
EXTENDS Lists, FiniteSetTheorems, WellFoundedInduction, TLAPS

\* The least number outside S would be 0, or follow one that is in S.
LEMMA InductionTo ==
  ASSUME NEW N \in Nat, NEW S, 0 \in S, \A n \in 1 .. N : n - 1 \in S => n \in S
  PROVE  0 .. N \subseteq S
<1> DEFINE T == (0 .. N) \ S
<1>1. SUFFICES ASSUME T # {} PROVE FALSE
  OBVIOUS
<1>2. T \subseteq Nat
  OBVIOUS
<1>3. PICK x \in T : \A y \in T : ~ (<<y, x>> \in OpToRel(<, Nat))
  <2> HIDE DEF T
  <2>1. QED
    BY <1>1, <1>2, NatLessThanWellFounded, WFMin
<1>4. \A y \in T : ~(y < x)
  BY <1>2, <1>3 DEF OpToRel
<1>5. QED
  BY <1>4

-----------------------------------------------------------------------------
(* Recursive functions.                                                    *)

\* A function that is defined by recursion over 0 .. N exists, and its value at n is
\* in X[n] when each step leads from X[n - 1] to X[n].
Iterates(N, X, start, G) ==
  CHOOSE f : /\ f[0] = start /\ \A n \in 1 .. N : f[n] = G[n][f[n - 1]]
             /\ \A n \in 0 .. N : f[n] \in X[n]

LEMMA Recursion ==
  ASSUME NEW N \in Nat, NEW X, NEW start, start \in X[0],
         NEW G, \A n \in 1 .. N : \A x \in X[n - 1] : G[n][x] \in X[n]
  PROVE  /\ Iterates(N, X, start, G)[0] = start
         /\ \A n \in 1 .. N : Iterates(N, X, start, G)[n] = G[n][Iterates(N, X, start, G)[n - 1]]
         /\ \A n \in 0 .. N : Iterates(N, X, start, G)[n] \in X[n]
<1> DEFINE Solves(f, n) == /\ f = [i \in 0 .. n |-> f[i]]
                           /\ f[0] = start /\ \A i \in 1 .. n : f[i] = G[i][f[i - 1]]
                           /\ \A i \in 0 .. n : f[i] \in X[i]
<1> DEFINE D == {n \in 0 .. N : \E f : Solves(f, n)}
<1>1. 0 \in D
  <2> DEFINE g == [i \in 0 .. 0 |-> start]
  <2>2. Solves(g, 0)
    OBVIOUS
  <2>3. \E f : Solves(f, 0)
    <3> HIDE DEF Solves, g
    <3>1. QED
      BY <2>2
  <2>4. QED
    BY <2>3
<1>2. ASSUME NEW n \in 1 .. N, n - 1 \in D
      PROVE  n \in D
  <2>1. PICK f : Solves(f, n - 1)
    BY <1>2
  <2> DEFINE g == [i \in 0 .. n |-> IF i = n THEN G[n][f[n - 1]] ELSE f[i]]
  <2>2. \A i \in 0 .. n - 1 : g[i] = f[i]
    OBVIOUS
  <2>3. Solves(g, n)
    <3>1. g = [i \in 0 .. n |-> g[i]] /\ g[0] = start
      BY <2>1, <2>2
    <3>2. f[n - 1] \in X[n - 1] /\ g[n] = G[n][g[n - 1]]
      BY <2>1, <2>2
    <3>3. ASSUME NEW i \in 1 .. n PROVE g[i] = G[i][g[i - 1]]
      <4>1. CASE i = n
        BY <3>2, <4>1
      <4>2. CASE i # n
        <5>1. i \in 1 .. n - 1 /\ i - 1 \in 0 .. n - 1 /\ i \in 0 .. n - 1
          BY <4>2
        <5>2. f[i] = G[i][f[i - 1]] /\ g[i] = f[i] /\ g[i - 1] = f[i - 1]
          BY <5>1, <2>1, <2>2
        <5>3. QED
          BY <5>2
      <4>3. QED
        BY <4>1, <4>2
    <3>4. \A i \in 1 .. n : g[i] = G[i][g[i - 1]]
      BY <3>3
    <3>5. g[n] \in X[n]
      BY <2>1, <3>2
    <3>6. \A i \in 0 .. n : g[i] \in X[i]
      BY <2>1, <2>2, <3>5
    <3> HIDE DEF g
    <3>7. QED
      BY <3>1, <3>4, <3>6
  <2>4. \E h : Solves(h, n)
    <3> HIDE DEF Solves, g
    <3>1. QED
      BY <2>3
  <2>5. QED
    <3> HIDE DEF Solves
    <3>1. QED
      BY <2>4
<1>3. 0 .. N \subseteq D
  <2> HIDE DEF D
  <2>1. QED
    BY <1>1, <1>2, InductionTo
<1>4. \E f : Solves(f, N)
  <2> HIDE DEF Solves
  <2>1. QED
    BY <1>3
<1> DEFINE Iterated(f) == /\ f[0] = start /\ \A n \in 1 .. N : f[n] = G[n][f[n - 1]]
                          /\ \A n \in 0 .. N : f[n] \in X[n]
<1>5. \E f : Iterated(f)
  BY <1>4
<1>6. Iterated(CHOOSE f : Iterated(f))
  <2> HIDE DEF Iterated
  <2>1. QED
    BY <1>5
<1>7. QED
  BY <1>6 DEF Iterates

\* Any function with that recursion has its values in X.
LEMMA RecursionStays ==
  ASSUME NEW N \in Nat, NEW X, NEW f, f[0] \in X[0],
         \A n \in 1 .. N : f[n - 1] \in X[n - 1] => f[n] \in X[n]
  PROVE  \A n \in 0 .. N : f[n] \in X[n]
<1> DEFINE D == {n \in 0 .. N : f[n] \in X[n]}
<1>1. 0 \in D
  OBVIOUS
<1>2. \A n \in 1 .. N : n - 1 \in D => n \in D
  OBVIOUS
<1>3. 0 .. N \subseteq D
  <2> HIDE DEF D
  <2>1. QED
    BY <1>1, <1>2, InductionTo
<1>4. QED
  BY <1>3

-----------------------------------------------------------------------------
(* Sums.                                                                   *)

Positive(n) == IF n > 0 THEN n ELSE 0
UnitsAt(f, x) == {x} \X (1 .. f[x])

\* The units of one value.
LEMMA UnitsOfOne ==
  ASSUME NEW f, NEW x, f[x] \in Int
  PROVE  IsFiniteSet(UnitsAt(f, x)) /\ Cardinality(UnitsAt(f, x)) = Positive(f[x])
<1> DEFINE n == f[x]
<1> HIDE DEF n
<1>1. n \in Int
  BY DEF n
<1>2. IsFiniteSet(1 .. n) /\ Cardinality(1 .. n) = Positive(n)
  BY <1>1, FS_Interval DEF Positive
<1>3. IsFiniteSet({x}) /\ Cardinality({x}) = 1
  BY FS_Singleton
<1>4. IsFiniteSet({x} \X (1 .. n)) /\ Cardinality({x} \X (1 .. n)) = 1 * Positive(n)
  BY <1>2, <1>3, FS_Product
<1>5. Positive(n) \in Int
  BY <1>1 DEF Positive
<1>6. Cardinality({x} \X (1 .. n)) = Positive(n)
  BY <1>4, <1>5
<1>7. QED
  BY <1>4, <1>6 DEF n, UnitsAt

\* A function with a finite domain has finitely many units.
LEMMA UnitsAreFinite ==
  ASSUME NEW f, IsFiniteSet(DOMAIN f), \A x \in DOMAIN f : f[x] \in Int
  PROVE  IsFiniteSet(Units(f)) /\ Total(f) \in Nat
<1> DEFINE S == {UnitsAt(f, x) : x \in DOMAIN f}
           g == [x \in DOMAIN f |-> UnitsAt(f, x)]
<1>1. g \in Surjection(DOMAIN f, S)
  BY DEF Surjection
<1>2. IsFiniteSet(S)
  <2> HIDE DEF S, g
  <2>1. QED
    BY <1>1, FS_Surjection
<1>3. \A T \in S : IsFiniteSet(T)
  BY UnitsOfOne
<1>4. IsFiniteSet(UNION S)
  <2> HIDE DEF S
  <2>1. QED
    BY <1>2, <1>3, FS_UNION
<1>5. Units(f) = UNION S
  BY DEF Units, UnitsAt
<1>6. QED
  BY <1>4, <1>5, FS_CardinalityType DEF Total

\* One value is taken out of a sum.
LEMMA TotalWithout ==
  ASSUME NEW f, IsFiniteSet(DOMAIN f), \A x \in DOMAIN f : f[x] \in Int,
         NEW y \in DOMAIN f,
         NEW h, DOMAIN h = DOMAIN f \ {y}, \A x \in DOMAIN h : h[x] = f[x]
  PROVE  Total(f) = Total(h) + Positive(f[y])
<1>1. Units(f) = Units(h) \cup UnitsAt(f, y)
  BY DEF Units, UnitsAt
<1>2. Units(h) \cap UnitsAt(f, y) = {}
  BY DEF Units, UnitsAt
<1>3. IsFiniteSet(DOMAIN h) /\ \A x \in DOMAIN h : h[x] \in Int
  BY FS_RemoveElement
<1>4. IsFiniteSet(Units(h)) /\ Total(h) \in Nat
  BY <1>3, UnitsAreFinite
<1>5. IsFiniteSet(UnitsAt(f, y)) /\ Cardinality(UnitsAt(f, y)) = Positive(f[y])
  BY UnitsOfOne
<1>6. Cardinality(Units(h) \cup UnitsAt(f, y))
        = Cardinality(Units(h)) + Cardinality(UnitsAt(f, y)) - Cardinality({})
  BY <1>2, <1>4, <1>5, FS_Union
<1>7. Positive(f[y]) \in Int /\ Cardinality({}) = 0
  BY FS_EmptySet DEF Positive
<1>8. QED
  BY <1>1, <1>4, <1>5, <1>6, <1>7 DEF Total

\* One value of a sum changes.
LEMMA TotalUpdate ==
  ASSUME NEW f, IsFiniteSet(DOMAIN f), \A x \in DOMAIN f : f[x] \in Int,
         NEW y \in DOMAIN f,
         NEW g, DOMAIN g = DOMAIN f, g[y] \in Int, \A x \in DOMAIN f \ {y} : g[x] = f[x]
  PROVE  Total(g) + Positive(f[y]) = Total(f) + Positive(g[y])
<1> DEFINE h == [x \in DOMAIN f \ {y} |-> f[x]]
<1>1. DOMAIN h = DOMAIN f \ {y} /\ \A x \in DOMAIN h : h[x] = f[x] /\ h[x] = g[x]
  OBVIOUS
<1> HIDE DEF h
<1>2. IsFiniteSet(DOMAIN h) /\ \A x \in DOMAIN h : h[x] \in Int
  BY <1>1, FS_RemoveElement
<1>3. Total(h) \in Nat
  BY <1>2, UnitsAreFinite
<1>4. Total(f) = Total(h) + Positive(f[y])
  BY <1>1, TotalWithout
<1>5. \A x \in DOMAIN g : g[x] \in Int
  OBVIOUS
<1>6. Total(g) = Total(h) + Positive(g[y])
  BY <1>1, <1>5, TotalWithout
<1>7. QED
  BY <1>3, <1>4, <1>6 DEF Positive

\* Equal positive values have the same sum.
LEMMA TotalSame ==
  ASSUME NEW f, NEW g, DOMAIN g = DOMAIN f, \A x \in DOMAIN f : g[x] = f[x]
  PROVE  Total(g) = Total(f)
BY DEF Total, Units

\* Greater values have a greater sum.
LEMMA TotalAtMost ==
  ASSUME NEW f, NEW g, IsFiniteSet(DOMAIN g), DOMAIN f \subseteq DOMAIN g,
         \A x \in DOMAIN g : g[x] \in Int,
         \A x \in DOMAIN f : f[x] \in Int /\ f[x] <= g[x]
  PROVE  Total(f) <= Total(g)
<1>1. Units(f) \subseteq Units(g)
  BY DEF Units
<1>2. QED
  BY <1>1, UnitsAreFinite, FS_Subset DEF Total

\* A sum is at least each of its values, and nothing if it has no positive value.
LEMMA TotalOfOne ==
  ASSUME NEW f, IsFiniteSet(DOMAIN f), \A x \in DOMAIN f : f[x] \in Int, NEW y \in DOMAIN f
  PROVE  Total(f) \in Nat /\ Positive(f[y]) <= Total(f)
<1> DEFINE h == [x \in DOMAIN f \ {y} |-> f[x]]
<1>1. DOMAIN h = DOMAIN f \ {y} /\ \A x \in DOMAIN h : h[x] = f[x]
  OBVIOUS
<1> HIDE DEF h
<1>2. IsFiniteSet(DOMAIN h) /\ \A x \in DOMAIN h : h[x] \in Int
  BY <1>1, FS_RemoveElement
<1>3. Total(h) \in Nat
  BY <1>2, UnitsAreFinite
<1>4. Total(f) = Total(h) + Positive(f[y])
  BY <1>1, TotalWithout
<1>5. Positive(f[y]) \in Nat
  BY DEF Positive
<1>6. QED
  BY <1>3, <1>4, <1>5

LEMMA TotalOfNone ==
  ASSUME NEW f, \A x \in DOMAIN f : f[x] \in Int /\ f[x] <= 0
  PROVE  Total(f) = 0
<1>1. \A x \in DOMAIN f : 1 .. f[x] = {}
  OBVIOUS
<1>2. Units(f) = {}
  BY <1>1 DEF Units
<1>3. QED
  BY <1>2, FS_EmptySet DEF Total

\* Two sums with no position in common are part of the third.
LEMMA TotalOfTwo ==
  ASSUME NEW f, NEW g, NEW h, IsFiniteSet(DOMAIN h), DOMAIN f = DOMAIN h, DOMAIN g = DOMAIN h,
         \A x \in DOMAIN h : /\ f[x] \in Nat /\ g[x] \in Nat /\ h[x] \in Nat
                             /\ f[x] = 0 \/ g[x] = 0
                             /\ f[x] <= h[x] /\ g[x] <= h[x]
  PROVE  Total(f) + Total(g) <= Total(h)
<1>1. Units(f) \cup Units(g) \subseteq Units(h)
  BY DEF Units
<1>2. Units(f) \cap Units(g) = {}
  <2> SUFFICES ASSUME NEW u \in Units(f), u \in Units(g) PROVE FALSE
    OBVIOUS
  <2>1. PICK x \in DOMAIN h : u \in {x} \X (1 .. f[x])
    BY DEF Units
  <2>2. PICK y \in DOMAIN h : u \in {y} \X (1 .. g[y])
    BY DEF Units
  <2>3. x = y
    BY <2>1, <2>2
  <2>4. f[x] >= 1 /\ g[x] >= 1
    BY <2>1, <2>2, <2>3
  <2>5. QED
    BY <2>4
<1>3. IsFiniteSet(Units(h)) /\ IsFiniteSet(Units(f)) /\ IsFiniteSet(Units(g))
  BY UnitsAreFinite
<1>4. Cardinality(Units(f) \cup Units(g)) = Cardinality(Units(f)) + Cardinality(Units(g)) - 0
  BY <1>2, <1>3, FS_Union, FS_EmptySet
<1>5. Cardinality(Units(f) \cup Units(g)) <= Cardinality(Units(h))
  BY <1>1, <1>3, FS_Subset
<1>6. Cardinality(Units(f)) \in Nat /\ Cardinality(Units(g)) \in Nat
  BY <1>3, FS_CardinalityType
<1>7. QED
  BY <1>4, <1>5, <1>6 DEF Total

\* A set whose fibres are no larger than the values of b is no larger than their sum.
LEMMA FibresBound ==
  ASSUME NEW W, IsFiniteSet(W), NEW b, IsFiniteSet(DOMAIN b),
         NEW F \in [W -> DOMAIN b],
         \A x \in DOMAIN b : b[x] \in Nat,
         \A x \in DOMAIN b : Cardinality({w \in W : F[w] = x}) <= b[x]
  PROVE  Cardinality(W) <= Total(b)
<1> DEFINE Fibre(x) == {w \in W : F[w] = x}
           Numbers(x) == Injection(Fibre(x), 1 .. b[x])
<1>1. ASSUME NEW x \in DOMAIN b
      PROVE  \E j : j \in Numbers(x)
  <2> DEFINE A == Fibre(x)
             n == Cardinality(A)
  <2>1. IsFiniteSet(A) /\ n <= b[x]
    <3>1. A \in SUBSET W
      OBVIOUS
    <3>2. IsFiniteSet(A)
      <4> HIDE DEF A
      <4>1. QED
        BY <3>1, FS_Subset
    <3>3. QED
      BY <3>2
  <2> HIDE DEF A
  <2>2. n \in Nat /\ ExistsBijection(1 .. n, A)
    BY <2>1, FS_CardinalityType
  <2>3. PICK i \in Bijection(1 .. n, A) : TRUE
    BY <2>2 DEF ExistsBijection
  <2>4. i \in [1 .. n -> A] /\ \A w \in A : \E k \in 1 .. n : i[k] = w
    BY <2>3 DEF Bijection, Surjection
  <2> DEFINE j == [w \in A |-> CHOOSE k \in 1 .. n : i[k] = w]
  <2>5. \A w \in A : j[w] \in 1 .. n /\ i[j[w]] = w
    BY <2>4
  <2>6. j \in Injection(A, 1 .. b[x])
    <3>1. \A w \in A : j[w] \in 1 .. b[x]
      <4>1. b[x] \in Nat
        OBVIOUS
      <4>2. 1 .. n \subseteq 1 .. b[x]
        BY <2>1, <2>2, <4>1
      <4>3. QED
        BY <2>5, <4>2
    <3>2. j \in [A -> 1 .. b[x]]
      BY <3>1
    <3>3. \A v, w \in A : j[v] = j[w] => v = w
      BY <2>5
    <3>4. QED
      BY <3>2, <3>3 DEF Injection, IsInjective
  <2>7. QED
    BY <2>6 DEF A
<1> DEFINE inj == [x \in DOMAIN b |-> CHOOSE j : j \in Numbers(x)]
<1>2. \A x \in DOMAIN b : inj[x] \in Numbers(x)
  BY <1>1
<1> HIDE DEF inj
<1>3. \A w \in W : /\ F[w] \in DOMAIN b /\ inj[F[w]][w] \in 1 .. b[F[w]]
                   /\ \A v \in W : F[v] = F[w] /\ inj[F[w]][v] = inj[F[w]][w] => v = w
  <2> SUFFICES ASSUME NEW w \in W
               PROVE  /\ F[w] \in DOMAIN b /\ inj[F[w]][w] \in 1 .. b[F[w]]
                      /\ \A v \in W : F[v] = F[w] /\ inj[F[w]][v] = inj[F[w]][w] => v = w
    OBVIOUS
  <2>1. F[w] \in DOMAIN b
    OBVIOUS
  <2>2. inj[F[w]] \in Injection({v \in W : F[v] = F[w]}, 1 .. b[F[w]])
    BY <1>2, <2>1
  <2>3. QED
    BY <2>1, <2>2 DEF Injection, IsInjective
<1> DEFINE g == [w \in W |-> <<F[w], inj[F[w]][w]>>]
<1>4. g \in Injection(W, Units(b))
  <2>1. \A w \in W : g[w] \in Units(b)
    BY <1>3 DEF Units
  <2>2. \A v, w \in W : g[v] = g[w] => v = w
    BY <1>3
  <2>3. QED
    BY <2>1, <2>2 DEF Injection, IsInjective
<1>5. IsFiniteSet(Units(b))
  <2>1. \A x \in DOMAIN b : b[x] \in Int
    OBVIOUS
  <2>2. QED
    BY <2>1, UnitsAreFinite
<1>6. QED
  <2> HIDE DEF g
  <2>1. QED
    BY <1>4, <1>5, FS_Injection DEF Total

\* The positions of a sum are moved by one.
LEMMA TotalShift ==
  ASSUME NEW n \in Nat, NEW f, DOMAIN f = 1 .. n, \A i \in 1 .. n : f[i] \in Int,
         NEW g, DOMAIN g = 2 .. n + 1, \A i \in 1 .. n : g[i + 1] = f[i]
  PROVE  Total(g) = Total(f)
<1> DEFINE S == Units(f)
           T == Units(g)
           move == [u \in S |-> <<u[1] + 1, u[2]>>]
<1>1. \A u \in S : /\ u[1] \in 1 .. n /\ u[2] \in 1 .. f[u[1]] /\ u = <<u[1], u[2]>>
                   /\ <<u[1] + 1, u[2]>> \in T
  <2> SUFFICES ASSUME NEW u \in S
               PROVE  /\ u[1] \in 1 .. n /\ u[2] \in 1 .. f[u[1]] /\ u = <<u[1], u[2]>>
                      /\ <<u[1] + 1, u[2]>> \in T
    OBVIOUS
  <2>1. PICK x \in 1 .. n : u \in {x} \X (1 .. f[x])
    BY DEF Units
  <2>2. x + 1 \in DOMAIN g /\ g[x + 1] = f[x] /\ u[1] = x /\ u[2] \in 1 .. f[x] /\ u = <<u[1], u[2]>>
    BY <2>1
  <2>3. <<x + 1, u[2]>> \in {x + 1} \X (1 .. g[x + 1])
    BY <2>2
  <2>4. <<x + 1, u[2]>> \in T
    BY <2>2, <2>3 DEF Units
  <2>5. QED
    BY <2>2, <2>4
<1>2. \A t \in T : \E u \in S : t = <<u[1] + 1, u[2]>>
  <2> SUFFICES ASSUME NEW t \in T PROVE \E u \in S : t = <<u[1] + 1, u[2]>>
    OBVIOUS
  <2>1. PICK y \in 2 .. n + 1 : t \in {y} \X (1 .. g[y])
    BY DEF Units
  <2>2. PICK x \in 1 .. n : y = x + 1
    <3>1. y - 1 \in 1 .. n /\ y = (y - 1) + 1
      OBVIOUS
    <3>2. QED
      BY <3>1
  <2>3. t = <<x + 1, t[2]>> /\ t[2] \in 1 .. f[x]
    BY <2>1, <2>2
  <2>4. <<x, t[2]>> \in S
    BY <2>3 DEF Units
  <2>5. QED
    BY <2>3, <2>4
<1>3. move \in Surjection(S, T)
  <2>1. move \in [S -> T]
    BY <1>1
  <2>2. \A t \in T : \E u \in S : move[u] = t
    BY <1>2
  <2>3. QED
    BY <2>1, <2>2 DEF Surjection
<1>4. move \in Injection(S, T)
  <2>1. move \in [S -> T]
    BY <1>1
  <2>2. ASSUME NEW u \in S, NEW v \in S, move[u] = move[v]
        PROVE  u = v
    <3>1. u[1] + 1 = v[1] + 1 /\ u[2] = v[2]
      BY <2>2
    <3>2. u[1] = v[1]
      <4>1. u[1] \in 1 .. n /\ v[1] \in 1 .. n
        BY <1>1
      <4>2. QED
        BY <3>1, <4>1
    <3>3. u = <<u[1], u[2]>> /\ v = <<v[1], v[2]>>
      BY <1>1
    <3>4. QED
      BY <3>1, <3>2, <3>3
  <2>3. DOMAIN move = S
    OBVIOUS
  <2> HIDE DEF move
  <2>4. IsInjective(move)
    BY <2>2, <2>3 DEF IsInjective
  <2>5. QED
    BY <2>1, <2>4 DEF Injection
<1>5. IsFiniteSet(S)
  <2>1. IsFiniteSet(DOMAIN f)
    BY FS_Interval
  <2>2. QED
    BY <2>1, UnitsAreFinite
<1>6. Cardinality(T) = Cardinality(S)
  <2> HIDE DEF S, T, move
  <2>1. QED
    BY <1>3, <1>4, <1>5, FS_Surjection
<1>7. QED
  BY <1>6 DEF Total

-----------------------------------------------------------------------------
(* Lists of the elements of a set.                                         *)

LEMMA ListOfSet ==
  ASSUME NEW S, IsFiniteSet(S)
  PROVE  /\ ListOf(S) \in Seq(S) /\ DOMAIN ListOf(S) = 1 .. Cardinality(S)
         /\ Cardinality(S) \in Nat /\ Len(ListOf(S)) = Cardinality(S)
         /\ \A x \in S : \E i \in DOMAIN ListOf(S) : ListOf(S)[i] = x
         /\ \A i, j \in DOMAIN ListOf(S) : ListOf(S)[i] = ListOf(S)[j] => i = j
<1> DEFINE n == Cardinality(S)
           Lists(xs) == xs \in [1 .. n -> S] /\ \A x \in S : \E i \in DOMAIN xs : xs[i] = x
<1>1. n \in Nat /\ ExistsBijection(1 .. n, S)
  BY FS_CardinalityType
<1>2. PICK b \in Bijection(1 .. n, S) : TRUE
  BY <1>1 DEF ExistsBijection
<1>3. b \in [1 .. n -> S] /\ \A x \in S : \E i \in DOMAIN b : b[i] = x
  BY <1>2 DEF Bijection, Surjection
<1>4. Lists(ListOf(S))
  <2>1. \E xs : Lists(xs)
    BY <1>3
  <2>2. QED
    BY <2>1 DEF ListOf
<1> DEFINE l == ListOf(S)
<1>5. l \in [1 .. n -> S] /\ \A x \in S : \E i \in 1 .. n : l[i] = x
  BY <1>4
<1> HIDE DEF l, n
<1>6. l \in Surjection(1 .. n, S)
  BY <1>5 DEF Surjection
<1>7. IsFiniteSet(1 .. n) /\ Cardinality(1 .. n) = n
  BY <1>1, FS_Interval
<1>8. l \in Injection(1 .. n, S)
  BY <1>6, <1>7, FS_SurjSameCardinalityImpliesInj DEF n
<1>9. \A i, j \in 1 .. n : l[i] = l[j] => i = j
  BY <1>5, <1>8 DEF Injection, IsInjective
<1>10. l \in Seq(S) /\ Len(l) = n /\ DOMAIN l = 1 .. n
  BY <1>1, <1>5
<1>11. QED
  BY <1>1, <1>5, <1>9, <1>10 DEF l, n
================================================================================

---------------------------- MODULE ProxyCountsProofs ----------------------------
(***************************************************************************)
(* Proofs about the counts of ProxyCounts: the owner of a proxy frees it    *)
(* only when nothing refers to it any more, and no count is ever made.      *)
(*                                                                         *)
(* The argument is a potential.  The counts of a proxy, wherever they are,  *)
(* are at most those the owner started with and those it owes: a sender     *)
(* whose message found a proxy-data with its last count puts one count too  *)
(* many into the message, and owes that count until a waiter for it is      *)
(* released.  The bound is strict while any reference is without a count of *)
(* its own, so when the owner finds all counts at home, there is none.      *)
(*                                                                         *)
(* The folds over the items of a message are treated one step at            *)
(* a time: for each, a predicate says what has been done after n items.     *)
(***************************************************************************)
EXTENDS ProxyCounts, SetInduction

-----------------------------------------------------------------------------
(* The counts in a message.                                                *)

CountAt(body, p) == [i \in DOMAIN body |-> IF body[i][1] = p THEN body[i][2] ELSE 0]
CountOf(item, p) == IF item[1] = p THEN Positive(item[2]) ELSE 0

\* The counts of p in a message are a number: what encode and decode add up.
LEMMA SumIsNumber ==
  ASSUME NEW body \in Body, NEW p
  PROVE  /\ SumOf(body, p) \in Nat
         /\ IsFiniteSet(DOMAIN CountAt(body, p))
         /\ \A i \in DOMAIN body : CountAt(body, p)[i] \in Int
<1>1. DOMAIN body = 1 .. Len(body) /\ Len(body) \in Nat /\ \A i \in DOMAIN body : body[i] \in Proxy \X Int \X (0 .. 3)
  BY DEF Body
<1>2. \A i \in DOMAIN body : body[i][2] \in Int
  BY <1>1
<1>3. \A i \in DOMAIN body : CountAt(body, p)[i] \in Int
  BY <1>2 DEF CountAt
<1>4. IsFiniteSet(DOMAIN body)
  BY <1>1, FS_Interval
<1>5. DOMAIN CountAt(body, p) = DOMAIN body
  BY DEF CountAt
<1>6. Total(CountAt(body, p)) \in Nat
  BY <1>3, <1>4, <1>5, UnitsAreFinite
<1>7. QED
  BY <1>3, <1>4, <1>5, <1>6 DEF SumOf, CountAt

\* One more item.
LEMMA SumAppended ==
  ASSUME NEW body \in Body, NEW item \in Proxy \X Int \X (0 .. 3), NEW p
  PROVE  SumOf(Append(body, item), p) = SumOf(body, p) + CountOf(item, p)
<1> DEFINE b == Append(body, item)
           n == Len(body) + 1
<1>1. /\ DOMAIN body = 1 .. Len(body) /\ Len(body) \in Nat /\ DOMAIN b = 1 .. n
      /\ b[n] = item /\ \A i \in DOMAIN body : b[i] = body[i]
      /\ b \in Body
  BY DEF Body
<1> HIDE DEF b
<1>2. DOMAIN CountAt(b, p) = DOMAIN b /\ DOMAIN CountAt(body, p) = DOMAIN body
  BY DEF CountAt
<1>3. DOMAIN CountAt(body, p) = DOMAIN CountAt(b, p) \ {n} /\ n \in DOMAIN b
  BY <1>1, <1>2
<1>4. \A i \in DOMAIN body : i \in DOMAIN b /\ CountAt(body, p)[i] = CountAt(b, p)[i]
  BY <1>1 DEF CountAt
<1>5. /\ IsFiniteSet(DOMAIN CountAt(b, p)) /\ \A i \in DOMAIN b : CountAt(b, p)[i] \in Int
      /\ n \in DOMAIN CountAt(b, p) /\ \A i \in DOMAIN CountAt(body, p) : CountAt(body, p)[i] = CountAt(b, p)[i]
  BY <1>1, <1>2, <1>3, <1>4, SumIsNumber
<1>6. Total(CountAt(b, p)) = Total(CountAt(body, p)) + Positive(CountAt(b, p)[n])
  <2> HIDE DEF n
  <2>1. QED
    BY <1>2, <1>3, <1>5, TotalWithout
<1>7. Positive(CountAt(b, p)[n]) = CountOf(item, p)
  BY <1>1, <1>3 DEF CountAt, CountOf, Positive
<1>8. QED
  BY <1>6, <1>7 DEF SumOf, CountAt, b

\* An empty message has no counts.
LEMMA SumOfEmpty ==
  ASSUME NEW p
  PROVE  SumOf(<<>>, p) = 0
<1>1. DOMAIN CountAt(<<>>, p) = {}
  BY DEF CountAt
<1>2. Total(CountAt(<<>>, p)) = 0
  BY <1>1, TotalOfNone
<1>3. QED
  BY <1>2 DEF SumOf, CountAt

\* A message that mentions p only with positive counts has some.
LEMMA SumOfMentioned ==
  ASSUME NEW body \in Body, NEW p, Mentions(body, p),
         \A i \in DOMAIN body : body[i][1] = p => body[i][2] >= 1
  PROVE  SumOf(body, p) >= 1
<1>1. PICK i \in DOMAIN body : body[i][1] = p
  BY DEF Mentions
<1>2. CountAt(body, p)[i] \in Int /\ CountAt(body, p)[i] >= 1
  BY <1>1, SumIsNumber DEF CountAt
<1>3. Positive(CountAt(body, p)[i]) <= Total(CountAt(body, p)) /\ Total(CountAt(body, p)) \in Nat
  <2>1. i \in DOMAIN CountAt(body, p) /\ \A j \in DOMAIN CountAt(body, p) : CountAt(body, p)[j] \in Int
    BY SumIsNumber DEF CountAt
  <2>2. QED
    BY <2>1, SumIsNumber, TotalOfOne
<1>4. Total(CountAt(body, p)) >= 1
  BY <1>2, <1>3 DEF Positive
<1>5. QED
  BY <1>4 DEF SumOf, CountAt

\* How often the cells of p are in the list of those that had too few counts.
LoserAt(h, ls, p) == [i \in DOMAIN ls |-> IF h[ls[i]].proxy = p THEN 1 ELSE 0]
LosersIn(h, ls, p) == Total(LoserAt(h, ls, p))
LoserOf(h, d, p) == IF h[d].proxy = p THEN 1 ELSE 0

\* How many of the losers of a message are data of p is a number.
LEMMA LosersAreNumber ==
  ASSUME NEW h, NEW ls \in Seq(Cell), NEW p
  PROVE  /\ LosersIn(h, ls, p) \in Nat
         /\ IsFiniteSet(DOMAIN LoserAt(h, ls, p)) /\ DOMAIN LoserAt(h, ls, p) = DOMAIN ls
         /\ \A i \in DOMAIN ls : LoserAt(h, ls, p)[i] \in Nat
<1>1. DOMAIN ls = 1 .. Len(ls) /\ Len(ls) \in Nat
  OBVIOUS
<1>2. IsFiniteSet(DOMAIN ls) /\ DOMAIN LoserAt(h, ls, p) = DOMAIN ls
  BY <1>1, FS_Interval DEF LoserAt
<1>3. \A i \in DOMAIN ls : LoserAt(h, ls, p)[i] \in Nat
  BY DEF LoserAt
<1>4. \A i \in DOMAIN LoserAt(h, ls, p) : LoserAt(h, ls, p)[i] \in Int
  BY <1>2, <1>3
<1>5. QED
  BY <1>2, <1>3, <1>4, UnitsAreFinite DEF LosersIn

\* One more loser.
LEMMA LosersAppended ==
  ASSUME NEW h, NEW ls \in Seq(Cell), NEW d \in Cell, NEW p
  PROVE  LosersIn(h, Append(ls, d), p) = LosersIn(h, ls, p) + LoserOf(h, d, p)
<1> DEFINE b == Append(ls, d)
           n == Len(ls) + 1
<1>1. /\ DOMAIN ls = 1 .. Len(ls) /\ Len(ls) \in Nat /\ DOMAIN b = 1 .. n
      /\ b[n] = d /\ \A i \in DOMAIN ls : b[i] = ls[i]
      /\ b \in Seq(Cell)
  OBVIOUS
<1> HIDE DEF b
<1>2. DOMAIN LoserAt(h, b, p) = DOMAIN b /\ DOMAIN LoserAt(h, ls, p) = DOMAIN ls
  BY DEF LoserAt
<1>3. DOMAIN LoserAt(h, ls, p) = DOMAIN LoserAt(h, b, p) \ {n} /\ n \in DOMAIN b
  BY <1>1, <1>2
<1>4. \A i \in DOMAIN ls : i \in DOMAIN b /\ LoserAt(h, ls, p)[i] = LoserAt(h, b, p)[i]
  BY <1>1 DEF LoserAt
<1>5. /\ IsFiniteSet(DOMAIN LoserAt(h, b, p)) /\ \A i \in DOMAIN LoserAt(h, b, p) : LoserAt(h, b, p)[i] \in Int
      /\ n \in DOMAIN LoserAt(h, b, p) /\ \A i \in DOMAIN LoserAt(h, ls, p) : LoserAt(h, ls, p)[i] = LoserAt(h, b, p)[i]
  BY <1>1, <1>2, <1>3, <1>4, LosersAreNumber
<1>6. Total(LoserAt(h, b, p)) = Total(LoserAt(h, ls, p)) + Positive(LoserAt(h, b, p)[n])
  <2> HIDE DEF n
  <2>1. QED
    BY <1>2, <1>3, <1>5, TotalWithout
<1>7. Positive(LoserAt(h, b, p)[n]) = LoserOf(h, d, p)
  BY <1>1, <1>3 DEF LoserAt, LoserOf, Positive
<1>8. QED
  BY <1>6, <1>7 DEF LosersIn, b

\* A message without losers lacks nothing.
LEMMA LosersOfEmpty ==
  ASSUME NEW h, NEW p
  PROVE  LosersIn(h, <<>>, p) = 0
<1>1. DOMAIN LoserAt(h, <<>>, p) = {}
  BY DEF LoserAt
<1>2. QED
  BY <1>1, TotalOfNone DEF LosersIn

\* Only the proxies of the losers matter.
LEMMA LosersSame ==
  ASSUME NEW h, NEW g, NEW ls, NEW p, \A i \in DOMAIN ls : g[ls[i]].proxy = h[ls[i]].proxy
  PROVE  LosersIn(g, ls, p) = LosersIn(h, ls, p)
<1>1. LoserAt(g, ls, p) = LoserAt(h, ls, p)
  BY DEF LoserAt
<1>2. QED
  BY <1>1 DEF LosersIn

-----------------------------------------------------------------------------
(* Encoding.                                                               *)

\* y is the proxy-data x with another count.
Refilled(x, y) == y = [x EXCEPT !.count = y.count, !.tag = y.tag]

\* Everything but the count is what it was.
LEMMA RefilledIs ==
  ASSUME NEW x \in ProxyData
  PROVE  /\ Refilled(x, x)
         /\ \A y : Refilled(x, y) => /\ y.proxy = x.proxy /\ y.waiters = x.waiters
                                    /\ y.asked = x.asked /\ y.self = x.self
BY DEF Refilled, ProxyData

\* debit-proxy-count! gives at least one count, and less than all of two or more.
LEMMA DebitBounds ==
  ASSUME NEW n \in Int
  PROVE  /\ Debit(n) \in Int /\ Debit(n) >= 1
         /\ n >= 2 => Debit(n) <= n - 1
         /\ n <= 1 => Debit(n) = 1
<1>1. MaxDebit \in Int /\ MaxDebit >= 1
  BY ProxyCountsAssumption
<1>2. CASE n <= 1
  BY <1>2 DEF Debit
<1>3. CASE n >= 2 /\ n < 2 * MaxDebit
  BY <1>1, <1>3 DEF Debit
<1>4. CASE n >= 2 /\ ~(n < 2 * MaxDebit)
  BY <1>1, <1>4 DEF Debit
<1>5. QED
  BY <1>1, <1>2, <1>3, <1>4

Encoding == [heap : [Cell -> ProxyData], body : Body, losers : Seq(Cell)]

\* The counts that were in cell c are in the cell or in the message, where each loser
\* accounts for one that came from nowhere.
EncodedCounts(h, e, p, c) ==
  /\ Positive(e.heap[c].count) + SumOf(e.body, p)
       <= Positive(h[c].count) + LosersIn(h, e.losers, p)
  /\ h[c].count >= 1 /\ e.heap[c].count < 1 =>
       Positive(e.heap[c].count) + SumOf(e.body, p) + 1
         <= Positive(h[c].count) + LosersIn(h, e.losers, p)
  /\ LosersIn(h, e.losers, p) <= SumOf(e.body, p)

\* e is what became of the heap h when the first n of the cells ds were encoded.
EncodedTo(h, ds, e, n) ==
  /\ e \in Encoding
  /\ \A c \in Cell : /\ Refilled(h[c], e.heap[c])
                     /\ e.heap[c].count <= h[c].count
                     /\ (\A i \in 1 .. n : ds[i] # c) => e.heap[c].count = h[c].count
  /\ Len(e.body) = n
  /\ \A i \in 1 .. n : e.body[i][1] = h[ds[i]].proxy /\ e.body[i][2] >= 1
  /\ \A i \in DOMAIN e.losers : /\ \E j \in 1 .. n : e.losers[i] = ds[j]
                                /\ e.heap[e.losers[i]].count < 1
  /\ \A p \in Proxy, c \in Cell :
       h[c].proxy = p /\ (\A i \in 1 .. Len(ds) : h[ds[i]].proxy = p => ds[i] = c)
         => EncodedCounts(h, e, p, c)

\* What debit-proxy-count! takes from a proxy-data, the message gets, or is owed.
LEMMA DebitArithmetic ==
  ASSUME NEW n \in Int, NEW k \in Int, NEW b \in Nat, NEW l \in Nat, NEW d \in Int,
         d >= 1, n >= 2 => d <= n - 1, n <= 1 => d = 1,
         Positive(n) + b <= Positive(k) + l,
         k >= 1 /\ n < 1 => Positive(n) + b + 1 <= Positive(k) + l,
         l <= b
  PROVE  LET m == IF n <= 1 THEN l + 1 ELSE l IN
         /\ Positive(n - d) + (b + Positive(d)) <= Positive(k) + m
         /\ k >= 1 /\ n - d < 1 => Positive(n - d) + (b + Positive(d)) + 1 <= Positive(k) + m
         /\ m <= b + Positive(d)
BY DEF Positive

\* One step of the fold.
LEMMA DebitStep ==
  ASSUME NEW h \in [Cell -> ProxyData], NEW ds \in Seq(Cell), NEW n \in 1 .. Len(ds),
         \A i \in 1 .. Len(ds) : h[ds[i]].proxy \in Proxy,
         NEW e, EncodedTo(h, ds, e, n - 1)
  PROVE  EncodedTo(h, ds, DebitProxyCount(e, ds[n]), n)
<1> DEFINE d == ds[n]
           k == e.heap[d].count
           q == h[d].proxy
           item == <<e.heap[d].proxy, Debit(k), 0>>
           r == DebitProxyCount(e, d)
<1>1. d \in Cell /\ q \in Proxy /\ k \in Int /\ e \in Encoding /\ h[d] \in ProxyData
      /\ e.heap[d] \in ProxyData /\ e.heap[d].proxy = q
  <2>1. d \in Cell
    OBVIOUS
  <2>2. e \in Encoding /\ Refilled(h[d], e.heap[d])
    BY <2>1 DEF EncodedTo
  <2>3. e.heap[d] \in ProxyData /\ h[d] \in ProxyData
    BY <2>1, <2>2 DEF Encoding
  <2>4. e.heap[d].proxy = q
    BY <2>2, <2>3, RefilledIs
  <2>5. QED
    BY <2>1, <2>2, <2>3, <2>4 DEF ProxyData
<1>2. Debit(k) \in Int /\ Debit(k) >= 1 /\ (k >= 2 => Debit(k) <= k - 1) /\ (k <= 1 => Debit(k) = 1)
  BY <1>1, DebitBounds
<1>3. /\ r.heap = [e.heap EXCEPT ![d].count = k - Debit(k), ![d].tag = 0]
      /\ r.body = Append(e.body, item) /\ item = <<q, Debit(k), 0>>
      /\ r.losers = IF k <= 1 THEN Append(e.losers, d) ELSE e.losers
      /\ r = [heap |-> r.heap, body |-> r.body, losers |-> r.losers]
  BY <1>1 DEF DebitProxyCount
<1>4. item \in Proxy \X Int \X (0 .. 3)
  BY <1>1, <1>2, <1>3
<1> HIDE DEF r, item, k
<1>5. /\ e.heap \in [Cell -> ProxyData] /\ e.body \in Body /\ e.losers \in Seq(Cell)
  BY <1>1 DEF Encoding
<1>7. /\ r.heap[d].count = k - Debit(k) /\ r.heap[d] \in ProxyData
      /\ Refilled(h[d], r.heap[d])
      /\ \A c \in Cell \ {d} : r.heap[c] = e.heap[c]
      /\ r.heap = [e.heap EXCEPT ![d] = r.heap[d]]
  <2> DEFINE z == [e.heap[d] EXCEPT !.count = k - Debit(k), !.tag = 0]
  <2>1. Refilled(h[d], e.heap[d])
    BY <1>1 DEF EncodedTo
  <2>2. r.heap = [e.heap EXCEPT ![d] = z]
    BY <1>3
  <2>3. k - Debit(k) \in Int /\ 0 \in 0 .. 3 /\ h[d] \in ProxyData /\ e.heap[d] \in ProxyData
    BY <1>1, <1>2
  <2>4. z \in ProxyData /\ Refilled(h[d], z) /\ z.count = k - Debit(k)
    <3>1. z \in ProxyData /\ z.count = k - Debit(k)
      BY <2>3 DEF ProxyData
    <3>2. Refilled(h[d], z)
      BY <2>1, <2>3, <3>1 DEF Refilled, ProxyData
    <3>3. QED
      BY <3>1, <3>2
  <2> HIDE DEF z
  <2>5. r.heap[d] = z /\ \A c \in Cell \ {d} : r.heap[c] = e.heap[c]
    BY <1>1, <1>5, <2>2
  <2>6. QED
    BY <2>2, <2>4, <2>5
<1>6. r \in Encoding
  <2>1. r.heap \in [Cell -> ProxyData]
    BY <1>1, <1>5, <1>7
  <2>2. r.body \in Body
    BY <1>3, <1>4, <1>5 DEF Body
  <2>3. r.losers \in Seq(Cell)
    BY <1>1, <1>3, <1>5
  <2>4. QED
    BY <1>3, <2>1, <2>2, <2>3 DEF Encoding
<1>8. ASSUME NEW c \in Cell
      PROVE  /\ Refilled(h[c], r.heap[c])
             /\ r.heap[c].count <= h[c].count
             /\ (\A i \in 1 .. n : ds[i] # c) => r.heap[c].count = h[c].count
  <2>1. /\ Refilled(h[c], e.heap[c])
        /\ e.heap[c].count <= h[c].count
        /\ (\A i \in 1 .. n - 1 : ds[i] # c) => e.heap[c].count = h[c].count
    BY DEF EncodedTo
  <2>2. CASE c = d
    <3>1. h[c].count \in Int
      BY DEF ProxyData
    <3>2. r.heap[c].count = k - Debit(k) /\ Refilled(h[c], r.heap[c])
      BY <1>7, <2>2
    <3>3. k <= h[c].count
      BY <2>1, <2>2 DEF k
    <3>4. k - Debit(k) <= h[c].count
      BY <1>1, <1>2, <3>1, <3>3
    <3>5. \E i \in 1 .. n : ds[i] = c
      <4>1. n \in 1 .. n
        OBVIOUS
      <4>2. QED
        BY <2>2, <4>1
    <3>6. QED
      BY <3>2, <3>4, <3>5
  <2>3. CASE c # d
    BY <1>7, <2>1, <2>3
  <2>4. QED
    BY <2>2, <2>3
<1>9. Len(e.body) = n - 1 /\ Len(r.body) = n /\ r.body[n] = item
      /\ \A i \in 1 .. n - 1 : r.body[i] = e.body[i]
  <2>1. Len(e.body) = n - 1
    BY DEF EncodedTo
  <2>2. QED
    BY <2>1, <1>3, <1>4, <1>5 DEF Body
<1>10. \A i \in 1 .. n : r.body[i][1] = h[ds[i]].proxy /\ r.body[i][2] >= 1
  <2>1. \A i \in 1 .. n - 1 : e.body[i][1] = h[ds[i]].proxy /\ e.body[i][2] >= 1
    BY DEF EncodedTo
  <2>2. QED
    BY <2>1, <1>2, <1>3, <1>9
<1>11. \A i \in DOMAIN r.losers : (\E j \in 1 .. n : r.losers[i] = ds[j]) /\ r.heap[r.losers[i]].count < 1
  <2>1. \A i \in DOMAIN e.losers : (\E j \in 1 .. n : e.losers[i] = ds[j]) /\ e.heap[e.losers[i]].count < 1
                                   /\ e.losers[i] \in Cell
    BY <1>5 DEF EncodedTo
  <2>2. \A c \in Cell : e.heap[c].count < 1 => r.heap[c].count < 1
    <3>1. ASSUME NEW c \in Cell, e.heap[c].count < 1 PROVE r.heap[c].count < 1
      <4>1. CASE c = d
        <5>1. k < 1 /\ k \in Int /\ Debit(k) \in Int /\ Debit(k) >= 1
          BY <1>1, <1>2, <3>1, <4>1 DEF k
        <5>2. k - Debit(k) < 1
          BY <5>1
        <5>3. QED
          BY <1>7, <4>1, <5>2
      <4>2. CASE c # d
        BY <1>7, <3>1, <4>2
      <4>3. QED
        BY <4>1, <4>2
    <3>2. QED
      BY <3>1
  <2>3. \A i \in DOMAIN e.losers : (\E j \in 1 .. n : e.losers[i] = ds[j]) /\ r.heap[e.losers[i]].count < 1
    BY <2>1, <2>2
  <2>4. CASE k <= 1
    <3>1. r.heap[d].count < 1
      BY <1>1, <1>2, <1>7, <2>4
    <3>2. ASSUME NEW i \in DOMAIN r.losers PROVE (i \in DOMAIN e.losers /\ r.losers[i] = e.losers[i]) \/ r.losers[i] = d
      BY <1>1, <1>3, <1>5, <2>4
    <3>3. QED
      BY <2>3, <3>1, <3>2
  <2>5. CASE ~(k <= 1)
    <3>1. r.losers = e.losers
      BY <1>3, <2>5
    <3>2. QED
      BY <2>3, <3>1
  <2>6. QED
    BY <2>4, <2>5
<1>12. ASSUME NEW p \in Proxy, NEW c \in Cell, h[c].proxy = p,
              \A i \in 1 .. Len(ds) : h[ds[i]].proxy = p => ds[i] = c
       PROVE  EncodedCounts(h, r, p, c)
  <2>1. EncodedCounts(h, e, p, c)
    BY <1>12 DEF EncodedTo
  <2>2. SumOf(r.body, p) = SumOf(e.body, p) + CountOf(item, p)
    BY <1>3, <1>4, <1>5, SumAppended
  <2>3. LosersIn(h, r.losers, p) = IF k <= 1 THEN LosersIn(h, e.losers, p) + LoserOf(h, d, p)
                                   ELSE LosersIn(h, e.losers, p)
    BY <1>1, <1>3, <1>5, LosersAppended
  <2>4. CASE q = p
    <3>1. c = d
      BY <1>12, <2>4
    <3>2. CountOf(item, p) = Positive(Debit(k)) /\ LoserOf(h, d, p) = 1
      BY <1>3, <2>4 DEF CountOf, LoserOf
    <3>3. SumOf(e.body, p) \in Nat /\ LosersIn(h, e.losers, p) \in Nat /\ h[c].count \in Int
      BY <1>5, SumIsNumber, LosersAreNumber DEF ProxyData
    <3>4. e.heap[c].count = k /\ r.heap[c].count = k - Debit(k)
      BY <1>7, <3>1 DEF k
    <3>5. LosersIn(h, r.losers, p) = IF k <= 1 THEN LosersIn(h, e.losers, p) + 1 ELSE LosersIn(h, e.losers, p)
      BY <2>3, <3>2
    <3>6. SumOf(r.body, p) = SumOf(e.body, p) + Positive(Debit(k))
      BY <2>2, <3>2
    <3>7. LET m == IF k <= 1 THEN LosersIn(h, e.losers, p) + 1 ELSE LosersIn(h, e.losers, p) IN
          /\ Positive(k - Debit(k)) + (SumOf(e.body, p) + Positive(Debit(k))) <= Positive(h[c].count) + m
          /\ h[c].count >= 1 /\ k - Debit(k) < 1 =>
               Positive(k - Debit(k)) + (SumOf(e.body, p) + Positive(Debit(k))) + 1 <= Positive(h[c].count) + m
          /\ m <= SumOf(e.body, p) + Positive(Debit(k))
      <4>1. /\ Positive(k) + SumOf(e.body, p) <= Positive(h[c].count) + LosersIn(h, e.losers, p)
            /\ h[c].count >= 1 /\ k < 1 =>
                 Positive(k) + SumOf(e.body, p) + 1 <= Positive(h[c].count) + LosersIn(h, e.losers, p)
            /\ LosersIn(h, e.losers, p) <= SumOf(e.body, p)
        BY <2>1, <3>4 DEF EncodedCounts
      <4>2. QED
        BY <1>1, <1>2, <3>3, <4>1, DebitArithmetic
    <3>8. QED
      BY <3>4, <3>5, <3>6, <3>7 DEF EncodedCounts
  <2>5. CASE q # p
    <3>1. c # d /\ r.heap[c] = e.heap[c]
      BY <1>7, <1>12, <2>5
    <3>2. CountOf(item, p) = 0 /\ LoserOf(h, d, p) = 0
      BY <1>3, <2>5 DEF CountOf, LoserOf
    <3>3. SumOf(e.body, p) \in Nat /\ LosersIn(h, e.losers, p) \in Nat
      BY <1>5, SumIsNumber, LosersAreNumber
    <3>4. SumOf(r.body, p) = SumOf(e.body, p) /\ LosersIn(h, r.losers, p) = LosersIn(h, e.losers, p)
      BY <2>2, <2>3, <3>2, <3>3
    <3>5. QED
      BY <2>1, <3>1, <3>4 DEF EncodedCounts
  <2>6. QED
    BY <2>4, <2>5
<1>13. QED
  <2>1. EncodedTo(h, ds, r, n)
    BY <1>6, <1>8, <1>9, <1>10, <1>11, <1>12 DEF EncodedTo
  <2>2. QED
    BY <2>1 DEF r

\* The whole fold.
LEMMA EncodeFold ==
  ASSUME NEW h \in [Cell -> ProxyData], NEW ds \in Seq(Cell),
         \A i \in 1 .. Len(ds) : h[ds[i]].proxy \in Proxy
  PROVE  EncodedTo(h, ds, EncodeFrom(h, ds), Len(ds))
<1> DEFINE N == Len(ds)
           start == [heap |-> h, body |-> <<>>, losers |-> <<>>]
           X == [n \in 0 .. N |-> {e \in Encoding : EncodedTo(h, ds, e, n)}]
           G == [n \in 1 .. N |-> [e \in X[n - 1] |-> DebitProxyCount(e, ds[n])]]
           Solves(f) == f = [n \in 0 .. N |-> IF n = 0 THEN start ELSE DebitProxyCount(f[n - 1], ds[n])]
<1>1. N \in Nat
  OBVIOUS
<1>2. start \in X[0]
  <2>1. start \in Encoding
    BY DEF Encoding, Body
  <2>2. \A p \in Proxy, c \in Cell : EncodedCounts(h, start, p, c)
    <3>1. \A p : SumOf(<<>>, p) = 0 /\ LosersIn(h, <<>>, p) = 0
      BY SumOfEmpty, LosersOfEmpty
    <3>2. \A c \in Cell : Positive(h[c].count) \in Nat
      BY DEF Positive, ProxyData
    <3>3. \A c \in Cell : h[c].count \in Int
      BY DEF ProxyData
    <3>4. start.heap = h /\ start.body = <<>> /\ start.losers = <<>>
      OBVIOUS
    <3> HIDE DEF start
    <3>5. QED
      BY <3>1, <3>2, <3>3, <3>4 DEF EncodedCounts
  <2>3. \A c \in Cell : Refilled(h[c], h[c]) /\ h[c].count <= h[c].count
    <3>1. \A c \in Cell : h[c] \in ProxyData /\ h[c].count \in Int
      BY DEF ProxyData
    <3>2. QED
      BY <3>1, RefilledIs
  <2>4. EncodedTo(h, ds, start, 0)
    BY <2>1, <2>2, <2>3 DEF EncodedTo
  <2>5. QED
    BY <2>1, <2>4
<1>3. ASSUME NEW n \in 1 .. N, NEW e \in X[n - 1]
      PROVE  DebitProxyCount(e, ds[n]) \in X[n] /\ G[n][e] = DebitProxyCount(e, ds[n])
  <2>1. EncodedTo(h, ds, e, n - 1)
    OBVIOUS
  <2>2. EncodedTo(h, ds, DebitProxyCount(e, ds[n]), n)
    BY <2>1, DebitStep
  <2>3. DebitProxyCount(e, ds[n]) \in Encoding
    BY <2>2 DEF EncodedTo
  <2>4. QED
    BY <2>2, <2>3
<1> HIDE DEF N, X, G, start
<1>14. \A n \in 1 .. N : \A e \in X[n - 1] : G[n][e] \in X[n]
  BY <1>3
<1> DEFINE f == Iterates(N, X, start, G)
<1>4. /\ f[0] = start /\ \A n \in 1 .. N : f[n] = G[n][f[n - 1]]
      /\ \A n \in 0 .. N : f[n] \in X[n]
  BY <1>1, <1>2, <1>14, Recursion
<1> HIDE DEF f
<1>5. ASSUME NEW n \in 1 .. N PROVE f[n] = DebitProxyCount(f[n - 1], ds[n])
  <2>1. n - 1 \in 0 .. N
    BY <1>1
  <2>2. f[n - 1] \in X[n - 1] /\ f[n] = G[n][f[n - 1]]
    BY <1>4, <2>1
  <2>3. QED
    BY <1>3, <2>2
<1> DEFINE e == [n \in 0 .. N |-> f[n]]
<1>6. Solves(e)
  <2>1. e[0] = start /\ \A n \in 1 .. N : e[n] = f[n] /\ e[n - 1] = f[n - 1]
    BY <1>1, <1>4
  <2>2. \A n \in 0 .. N : e[n] = IF n = 0 THEN start ELSE DebitProxyCount(e[n - 1], ds[n])
    BY <1>1, <1>5, <2>1
  <2>3. QED
    BY <2>2
<1> DEFINE g == CHOOSE g : Solves(g)
<1>7. Solves(g)
  <2>1. \E x : Solves(x)
    BY <1>6
  <2>2. QED
    BY <2>1
<1>8. EncodeFrom(h, ds) = g[N]
  BY DEF EncodeFrom, Fold, start, N
<1> HIDE DEF g
<1>9. g[0] = start /\ \A n \in 1 .. N : g[n] = DebitProxyCount(g[n - 1], ds[n])
  BY <1>1, <1>7
<1>10. \A n \in 1 .. N : g[n - 1] \in X[n - 1] => g[n] \in X[n]
  BY <1>3, <1>9
<1>11. g[N] \in X[N]
  <2>1. g[0] \in X[0]
    BY <1>2, <1>9
  <2>2. \A n \in 0 .. N : g[n] \in X[n]
    BY <1>1, <1>10, <2>1, RecursionStays
  <2>3. QED
    BY <1>1, <2>2
<1>12. QED
  BY <1>1, <1>8, <1>11 DEF X, N

-----------------------------------------------------------------------------
(* The parts of the state, with the variables that they are read from.      *)

LocalIn(s, h, a, p) == IF s[a][p] = 0 THEN 0 ELSE h[s[a][p]].count
VectorAt(s, h, p) == [a \in Aspace |-> LocalIn(s, h, a, p)]
WireAt(w, p) == [m \in DOMAIN w |-> w[m] * SumOf(m.body, p)]
ThreadAt(o, p) == [t \in Thread |-> SumOf(o[t].body, p)]
LowAt(h, low, p) == [i \in DOMAIN low |-> IF h[low[i].data].proxy = p THEN low[i].more ELSE 0]
LowSum(h, low, p) == Total(LowAt(h, low, p))
BusyIn(h, d, p) == IF d.kind = "return" THEN SumOf(d.body, p) ELSE LowSum(h, d.low, p)
DispAt(h, k, p) == [x \in Aspace \X Aspace |-> BusyIn(h, k[x[1]][x[2]], p)]
WaitingAt(h, p) == [c \in Cell |-> IF h[c].proxy = p THEN Len(h[c].waiters) ELSE 0]
LosingIn(h, o, t, p) == IF o[t].stage = "encoded" THEN LosersIn(h, o[t].losers, p) ELSE 0
LosingAt(h, o, p) == [t \in Thread |-> LosingIn(h, o, t, p)]

Counts(s, h, w, o, k, p) ==
  Total(VectorAt(s, h, p)) + Total(WireAt(w, p)) + Total(ThreadAt(o, p)) + Total(DispAt(h, k, p))

\* The counts that are promised to blocked senders: the places in the lists of waiters,
\* and those that a thread is about to take.
Owed(h, o, p) == Total(WaitingAt(h, p)) + Total(LosingAt(h, o, p))

\* The sum that NoInventedCounts is about, with the state as arguments.
LEMMA CountsAre ==
  ASSUME NEW p
  PROVE  CountsOf(p) = Counts(slot, heap, wire, out, disp, p)
BY DEF CountsOf, Counts, InVectors, OnWire, InThreads, InDispatchers, Local, Busy, VectorAt, WireAt,
       ThreadAt, DispAt, BusyIn, LowSum, LowAt, LocalIn

-----------------------------------------------------------------------------
(* The inductive invariant.                                                *)

\* A slot refers to the proxy-data of its proxy, and the address spaces share none.
SlotsSound(s, h) ==
  /\ \A a \in Aspace, p \in Proxy : s[a][p] # 0 => h[s[a][p]].proxy = p
  /\ \A a, b \in Aspace, p, q \in Proxy : s[a][p] # 0 /\ s[a][p] = s[b][q] => a = b

\* The program of a, or a message that a is working on, refers to p.
HeldIn(l, k, a, p) ==
  p \in l[a] \/ \E b \in Aspace : k[a][b].kind \in {"run", "counts"} /\ Mentions(k[a][b].body, p)

\* A proxy that is referred to has its proxy-data, and is not yet collected.
HeldSound(s, h, l, k) ==
  \A a \in Aspace, p \in Proxy : HeldIn(l, k, a, p) => s[a][p] # 0 /\ h[s[a][p]].self

\* Where the messages go, and with how many counts.
Routed(kind, from, to) ==
  /\ kind \in {"request", "return"} => to = Owner
  /\ kind = "counts" => from = Owner
Counted(kind, body) == kind \in {"run", "counts"} => \A i \in DOMAIN body : body[i][2] >= 1
MessageSound(m) == Routed(m.kind, m.from, m.to) /\ Counted(m.kind, m.body)

\* The bad proxies of a message are among those it mentions.
BadFound(s, a, c, body) == \E p \in Proxy : Mentions(body, p) /\ s[a][p] = c
DispatchSound(s, d, a, b) ==
  /\ Routed(d.kind, b, a)
  /\ d.stage \in {"idle", "dead"} => d.body = <<>> /\ d.low = <<>> /\ d.high = <<>> /\ d.kind = "run"
  /\ d.kind \notin {"run", "counts"} => d.low = <<>> /\ d.high = <<>>
  /\ \A i \in DOMAIN d.low : BadFound(s, a, d.low[i].data, d.body)
  /\ \A i \in DOMAIN d.high : BadFound(s, a, d.high[i], d.body)

\* A blocked sender waits once for every count it lacks, and its message has at least
\* as many items of a proxy as counts of it are missing.
PlacesIn(h, c, t) == Cardinality({i \in DOMAIN h[c].waiters : h[c].waiters[i] = t})
PlacesAt(h, t) == [c \in Cell |-> PlacesIn(h, c, t)]
PlacesFor(h, t, p) == [c \in Cell |-> IF h[c].proxy = p THEN PlacesIn(h, c, t) ELSE 0]
ThreadSound(h, o, t) ==
  /\ o[t].stage = "free" => o[t].body = <<>> /\ o[t].losers = <<>>
  /\ \A i \in DOMAIN o[t].body : o[t].body[i][2] >= 1
  /\ \A i \in DOMAIN o[t].losers : h[o[t].losers[i]].proxy \in Proxy
  /\ o[t].stage = "encoded" => o[t].count = Len(o[t].losers)
  /\ o[t].stage = "waiting" => o[t].count = Total(PlacesAt(h, t))
  /\ \A p \in Proxy : LosingIn(h, o, t, p) <= SumOf(o[t].body, p)
  /\ \A p \in Proxy : o[t].stage # "encoded" => Total(PlacesFor(h, t, p)) <= SumOf(o[t].body, p)

\* Only blocked senders are on lists of waiters, and they hold the proxy-data.
WaiterSound(o, t, c) == o[t].stage = "waiting" /\ \E j \in DOMAIN o[t].losers : o[t].losers[j] = c
WaitersSound(h, o) ==
  \A c \in Cell : \A i \in DOMAIN h[c].waiters : WaiterSound(o, h[c].waiters[i], c)

\* Nothing lets the counts of p fall below their number: every reference has one, or
\* promises one.
Fine(kind, body, p) ==
  \A i \in DOMAIN body : body[i][1] = p => kind # "request" /\ (kind = "return" => body[i][2] >= 1)
Clean(s, h, w, o, k, p) ==
  /\ \A a \in Aspace : s[a][p] # 0 => h[s[a][p]].count >= 1
  /\ \A t \in Thread : \A i \in DOMAIN o[t].losers : h[o[t].losers[i]].proxy # p
  /\ \A m \in DOMAIN w : Fine(m.kind, m.body, p)
  /\ \A a, b \in Aspace : Fine(k[a][b].kind, k[a][b].body, p)

\* The potential: a reference without a count of its own is paid for.
CountsSound(s, h, w, o, k, p) ==
  /\ Counts(s, h, w, o, k, p) <= BaseCount + Owed(h, o, p)
  /\ ~Clean(s, h, w, o, k, p) => Counts(s, h, w, o, k, p) < BaseCount + Owed(h, o, p)

\* A proxy that was freed is not referred to.
FreeSound(s, l, w, o, k, p) ==
  s[Owner][p] = 0 =>
    /\ p \notin l[Owner]
    /\ \A a \in Aspace : s[a][p] = 0
    /\ \A m \in DOMAIN w : ~Mentions(m.body, p)
    /\ \A t \in Thread : ~Mentions(o[t].body, p)
    /\ \A a, b \in Aspace : ~Mentions(k[a][b].body, p)

-----------------------------------------------------------------------------
(* The sums, when one part of the state changes.                           *)

Slots == [Aspace -> [Proxy -> Cell \cup {0}]]
Heaps == [Cell -> ProxyData]
WireOK(w) == IsABag(w) /\ IsFiniteSet(DOMAIN w) /\ DOMAIN w \subseteq Message
Outs == [Thread -> Blocked]
Disps == [Aspace -> [Aspace -> Dispatcher]]

\* The sets that are summed over are finite.
LEMMA FiniteSets ==
  /\ IsFiniteSet(Aspace) /\ IsFiniteSet(Proxy) /\ IsFiniteSet(Thread)
  /\ IsFiniteSet(Cell) /\ IsFiniteSet(Aspace \X Aspace) /\ Owner \in Aspace
<1>1. NCells \in Nat
  BY ProxyCountsAssumption
<1>2. IsFiniteSet(Cell)
  BY <1>1, FS_Interval DEF Cell
<1>3. IsFiniteSet(Aspace) /\ IsFiniteSet(Proxy) /\ IsFiniteSet(Thread) /\ Owner \in Aspace
  BY ProxyCountsAssumption
<1>4. IsFiniteSet(Aspace \X Aspace)
  BY <1>3, FS_Product
<1>5. QED
  BY <1>2, <1>3, <1>4

\* A sum of which one term changes.
LEMMA OneChanged ==
  ASSUME NEW S, IsFiniteSet(S), NEW f, NEW g, DOMAIN f = S, DOMAIN g = S,
         \A x \in S : f[x] \in Int, \A x \in S : g[x] \in Int,
         NEW y \in S, \A x \in S \ {y} : g[x] = f[x]
  PROVE  /\ Total(g) + Positive(f[y]) = Total(f) + Positive(g[y])
         /\ Total(f) \in Nat /\ Total(g) \in Nat
<1>1. Total(f) \in Nat /\ Total(g) \in Nat
  BY UnitsAreFinite
<1>2. y \in DOMAIN f /\ g[y] \in Int
  OBVIOUS
<1>3. QED
  BY <1>1, <1>2, TotalUpdate

\* The elements of a list.
LEMMA ListElements ==
  ASSUME NEW S, NEW xs \in Seq(S)
  PROVE  DOMAIN xs = 1 .. Len(xs) /\ Len(xs) \in Nat /\ \A i \in DOMAIN xs : xs[i] \in S
OBVIOUS

\* A list of members of S is one of members of a larger set.
LEMMA ListWiden ==
  ASSUME NEW S, NEW T, S \subseteq T, NEW xs \in Seq(S)
  PROVE  xs \in Seq(T)
OBVIOUS

\* The count that a has of p is a number; the vector of proxies may have no entry.
LEMMA LocalIsInt ==
  ASSUME NEW s \in Slots, NEW h \in Heaps, NEW a \in Aspace, NEW p \in Proxy
  PROVE  LocalIn(s, h, a, p) \in Int
<1>1. s[a][p] \in Cell \cup {0}
  BY DEF Slots
<1>2. QED
  BY <1>1 DEF LocalIn, Heaps, ProxyData

\* The counts of p in the vectors of all address spaces are a number.
LEMMA VectorsNat ==
  ASSUME NEW s \in Slots, NEW h \in Heaps, NEW p \in Proxy
  PROVE  Total(VectorAt(s, h, p)) \in Nat
<1>1. DOMAIN VectorAt(s, h, p) = Aspace /\ \A a \in Aspace : VectorAt(s, h, p)[a] \in Int
  BY LocalIsInt DEF VectorAt
<1>2. QED
  BY <1>1, FiniteSets, UnitsAreFinite

\* They change by what one address space gets or gives.
LEMMA VectorsChange ==
  ASSUME NEW s \in Slots, NEW h \in Heaps, NEW s2 \in Slots, NEW h2 \in Heaps, NEW p \in Proxy,
         NEW a \in Aspace, \A b \in Aspace \ {a} : LocalIn(s2, h2, b, p) = LocalIn(s, h, b, p)
  PROVE  Total(VectorAt(s2, h2, p)) + Positive(LocalIn(s, h, a, p))
           = Total(VectorAt(s, h, p)) + Positive(LocalIn(s2, h2, a, p))
<1> DEFINE f == VectorAt(s, h, p)
           g == VectorAt(s2, h2, p)
<1>1. DOMAIN f = Aspace /\ DOMAIN g = Aspace
  BY DEF VectorAt
<1>2. \A b \in Aspace : f[b] = LocalIn(s, h, b, p) /\ g[b] = LocalIn(s2, h2, b, p)
  BY DEF VectorAt
<1>3. \A b \in Aspace : f[b] \in Int
  BY <1>2, LocalIsInt
<1>4. \A b \in Aspace : g[b] \in Int
  BY <1>2, LocalIsInt
<1>5. \A b \in Aspace \ {a} : g[b] = f[b]
  BY <1>2
<1> HIDE DEF f, g
<1>6. Total(g) + Positive(f[a]) = Total(f) + Positive(g[a])
  BY <1>1, <1>3, <1>4, <1>5, FiniteSets, OneChanged
<1>7. QED
  BY <1>2, <1>6 DEF f, g

\* They do not change when no entry does.
LEMMA VectorsSame ==
  ASSUME NEW s, NEW h, NEW s2, NEW h2, NEW p,
         \A b \in Aspace : LocalIn(s2, h2, b, p) = LocalIn(s, h, b, p)
  PROVE  Total(VectorAt(s2, h2, p)) = Total(VectorAt(s, h, p))
<1>1. VectorAt(s2, h2, p) = VectorAt(s, h, p)
  BY DEF VectorAt
<1>2. QED
  BY <1>1

\* The counts of p in the messages of the blocked senders are a number.
LEMMA ThreadsNat ==
  ASSUME NEW o \in Outs, NEW p
  PROVE  Total(ThreadAt(o, p)) \in Nat /\ \A t \in Thread : SumOf(o[t].body, p) \in Nat
<1>1. \A t \in Thread : SumOf(o[t].body, p) \in Nat
  BY SumIsNumber DEF Outs, Blocked
<1>2. DOMAIN ThreadAt(o, p) = Thread /\ \A t \in Thread : ThreadAt(o, p)[t] \in Int
  BY <1>1 DEF ThreadAt
<1>3. QED
  BY <1>1, <1>2, FiniteSets, UnitsAreFinite

\* They change by the message of one sender.
LEMMA ThreadsChange ==
  ASSUME NEW o \in Outs, NEW o2 \in Outs, NEW p, NEW t \in Thread,
         \A u \in Thread \ {t} : o2[u].body = o[u].body
  PROVE  Total(ThreadAt(o2, p)) + SumOf(o[t].body, p) = Total(ThreadAt(o, p)) + SumOf(o2[t].body, p)
<1> DEFINE f == ThreadAt(o, p)
           g == ThreadAt(o2, p)
<1>1. DOMAIN f = Thread /\ DOMAIN g = Thread
  BY DEF ThreadAt
<1>2. \A u \in Thread : f[u] = SumOf(o[u].body, p) /\ g[u] = SumOf(o2[u].body, p)
  BY DEF ThreadAt
<1>3. \A u \in Thread : f[u] \in Nat
  BY <1>2, ThreadsNat
<1>4. \A u \in Thread : g[u] \in Nat
  BY <1>2, ThreadsNat
<1>5. \A u \in Thread \ {t} : g[u] = f[u]
  BY <1>2
<1> HIDE DEF f, g
<1>6. Total(g) + Positive(f[t]) = Total(f) + Positive(g[t])
  BY <1>1, <1>3, <1>4, <1>5, FiniteSets, OneChanged
<1>7. Positive(f[t]) = SumOf(o[t].body, p) /\ Positive(g[t]) = SumOf(o2[t].body, p)
  BY <1>2, <1>3, <1>4 DEF Positive
<1>8. QED
  BY <1>6, <1>7 DEF f, g

\* They do not change when no message does.
LEMMA ThreadsSame ==
  ASSUME NEW o, NEW o2, NEW p, \A u \in Thread : o2[u].body = o[u].body
  PROVE  Total(ThreadAt(o2, p)) = Total(ThreadAt(o, p))
<1>1. ThreadAt(o2, p) = ThreadAt(o, p)
  BY DEF ThreadAt
<1>2. QED
  BY <1>1

\* What a dispatcher has of p, in its message and in its list low, is a number.
LEMMA BusyIsNat ==
  ASSUME NEW h, NEW d \in Dispatcher, NEW p
  PROVE  BusyIn(h, d, p) \in Nat
<1>1. d.body \in Body /\ d.low \in Seq([data : Cell, more : Nat \ {0}])
  BY DEF Dispatcher
<1>2. IsFiniteSet(DOMAIN d.low)
  BY <1>1, FS_Interval
<1>3. DOMAIN LowAt(h, d.low, p) = DOMAIN d.low /\ \A i \in DOMAIN d.low : LowAt(h, d.low, p)[i] \in Int
  <2>1. \A i \in DOMAIN d.low : d.low[i].more \in Nat
    <3>1. \A i \in DOMAIN d.low : d.low[i] \in [data : Cell, more : Nat \ {0}]
      BY <1>1, ListElements
    <3>2. QED
      BY <3>1
  <2>2. QED
    BY <2>1 DEF LowAt
<1>4. LowSum(h, d.low, p) \in Nat
  BY <1>2, <1>3, UnitsAreFinite DEF LowSum
<1>5. QED
  BY <1>1, <1>4, SumIsNumber DEF BusyIn

\* So is what all dispatchers have.
LEMMA DispNat ==
  ASSUME NEW h, NEW k \in Disps, NEW p
  PROVE  Total(DispAt(h, k, p)) \in Nat /\ \A x \in Aspace \X Aspace : BusyIn(h, k[x[1]][x[2]], p) \in Nat
<1>1. \A x \in Aspace \X Aspace : BusyIn(h, k[x[1]][x[2]], p) \in Nat
  BY BusyIsNat DEF Disps
<1>2. DOMAIN DispAt(h, k, p) = Aspace \X Aspace /\ \A x \in Aspace \X Aspace : DispAt(h, k, p)[x] \in Int
  BY <1>1 DEF DispAt
<1>3. QED
  BY <1>1, <1>2, FiniteSets, UnitsAreFinite

\* It changes by what one dispatcher gets or gives.
LEMMA DispChange ==
  ASSUME NEW h, NEW h2, NEW k \in Disps, NEW k2 \in Disps, NEW p, NEW a \in Aspace, NEW b \in Aspace,
         \A c, d \in Aspace : c # a \/ d # b => BusyIn(h2, k2[c][d], p) = BusyIn(h, k[c][d], p)
  PROVE  Total(DispAt(h2, k2, p)) + BusyIn(h, k[a][b], p) = Total(DispAt(h, k, p)) + BusyIn(h2, k2[a][b], p)
<1> DEFINE f == DispAt(h, k, p)
           g == DispAt(h2, k2, p)
           S == Aspace \X Aspace
           y == <<a, b>>
<1>1. DOMAIN f = S /\ DOMAIN g = S /\ y \in S
  BY DEF DispAt
<1>2. \A x \in S : f[x] = BusyIn(h, k[x[1]][x[2]], p) /\ g[x] = BusyIn(h2, k2[x[1]][x[2]], p)
  BY DEF DispAt
<1>3. \A x \in S : f[x] \in Nat
  BY <1>2, DispNat
<1>4. \A x \in S : g[x] \in Nat
  <2>1. \A x \in S : BusyIn(h2, k2[x[1]][x[2]], p) \in Nat
    BY DispNat
  <2> HIDE DEF f, g, S
  <2>2. QED
    BY <1>2, <2>1
<1>5. \A x \in S \ {y} : g[x] = f[x]
  BY <1>2
<1>6. f[y] = BusyIn(h, k[a][b], p) /\ g[y] = BusyIn(h2, k2[a][b], p)
  BY <1>1, <1>2
<1> HIDE DEF f, g, S, y
<1>7. IsFiniteSet(S)
  BY FiniteSets DEF S
<1>8. Total(g) + Positive(f[y]) = Total(f) + Positive(g[y])
  BY <1>1, <1>3, <1>4, <1>5, <1>7, OneChanged
<1>9. Positive(f[y]) = f[y] /\ Positive(g[y]) = g[y]
  BY <1>1, <1>3, <1>4 DEF Positive
<1>10. QED
  BY <1>6, <1>8, <1>9 DEF f, g

\* It does not change when no dispatcher gets or gives any.
LEMMA DispSame ==
  ASSUME NEW h, NEW h2, NEW k, NEW k2, NEW p,
         \A c, d \in Aspace : BusyIn(h2, k2[c][d], p) = BusyIn(h, k[c][d], p)
  PROVE  Total(DispAt(h2, k2, p)) = Total(DispAt(h, k, p))
<1>1. DispAt(h2, k2, p) = DispAt(h, k, p)
  BY DEF DispAt
<1>2. QED
  BY <1>1

\* The places on the lists of waiters for p are a number.
LEMMA WaitingNat ==
  ASSUME NEW h \in Heaps, NEW p
  PROVE  /\ Total(WaitingAt(h, p)) \in Nat /\ DOMAIN WaitingAt(h, p) = Cell
         /\ \A c \in Cell : WaitingAt(h, p)[c] \in Nat /\ Len(h[c].waiters) \in Nat
<1>1. \A c \in Cell : Len(h[c].waiters) \in Nat
  BY DEF Heaps, ProxyData
<1>2. DOMAIN WaitingAt(h, p) = Cell /\ \A c \in Cell : WaitingAt(h, p)[c] \in Nat
  BY <1>1 DEF WaitingAt
<1>3. \A c \in DOMAIN WaitingAt(h, p) : WaitingAt(h, p)[c] \in Int
  BY <1>2
<1>4. QED
  BY <1>1, <1>2, <1>3, FiniteSets, UnitsAreFinite

\* They change with one list.
LEMMA WaitingChange ==
  ASSUME NEW h \in Heaps, NEW h2 \in Heaps, NEW p, NEW c \in Cell,
         \A d \in Cell \ {c} : h2[d].proxy = h[d].proxy /\ h2[d].waiters = h[d].waiters
  PROVE  Total(WaitingAt(h2, p)) + WaitingAt(h, p)[c] = Total(WaitingAt(h, p)) + WaitingAt(h2, p)[c]
<1> DEFINE f == WaitingAt(h, p)
           g == WaitingAt(h2, p)
<1>1. DOMAIN f = Cell /\ \A d \in Cell : f[d] \in Nat
  BY WaitingNat
<1>2. DOMAIN g = Cell /\ \A d \in Cell : g[d] \in Nat
  BY WaitingNat
<1>3. \A d \in Cell \ {c} : g[d] = f[d]
  BY DEF WaitingAt
<1> HIDE DEF f, g
<1>4. Total(g) + Positive(f[c]) = Total(f) + Positive(g[c])
  BY <1>1, <1>2, <1>3, FiniteSets, OneChanged
<1>5. Positive(f[c]) = f[c] /\ Positive(g[c]) = g[c]
  BY <1>1, <1>2 DEF Positive
<1>6. QED
  BY <1>4, <1>5 DEF f, g

\* The losers of p in the messages of the blocked senders are a number.
LEMMA LosingNat ==
  ASSUME NEW h, NEW o \in Outs, NEW p
  PROVE  /\ Total(LosingAt(h, o, p)) \in Nat /\ DOMAIN LosingAt(h, o, p) = Thread
         /\ \A t \in Thread : LosingIn(h, o, t, p) \in Nat /\ LosingAt(h, o, p)[t] = LosingIn(h, o, t, p)
<1>1. \A t \in Thread : o[t].losers \in Seq(Cell)
  BY DEF Outs, Blocked
<1>2. \A t \in Thread : LosingIn(h, o, t, p) \in Nat
  BY <1>1, LosersAreNumber DEF LosingIn
<1>3. DOMAIN LosingAt(h, o, p) = Thread /\ \A t \in Thread : LosingAt(h, o, p)[t] = LosingIn(h, o, t, p)
  BY DEF LosingAt
<1>4. \A t \in DOMAIN LosingAt(h, o, p) : LosingAt(h, o, p)[t] \in Int
  BY <1>2, <1>3
<1>5. QED
  BY <1>2, <1>3, <1>4, FiniteSets, UnitsAreFinite

\* They change with the losers of one sender.
LEMMA LosingChange ==
  ASSUME NEW h, NEW h2, NEW o \in Outs, NEW o2 \in Outs, NEW p, NEW t \in Thread,
         \A u \in Thread \ {t} : LosingIn(h2, o2, u, p) = LosingIn(h, o, u, p)
  PROVE  Total(LosingAt(h2, o2, p)) + LosingIn(h, o, t, p) = Total(LosingAt(h, o, p)) + LosingIn(h2, o2, t, p)
<1> DEFINE f == LosingAt(h, o, p)
           g == LosingAt(h2, o2, p)
<1>1. DOMAIN f = Thread /\ \A u \in Thread : f[u] = LosingIn(h, o, u, p) /\ LosingIn(h, o, u, p) \in Nat
  BY LosingNat
<1>2. DOMAIN g = Thread /\ \A u \in Thread : g[u] = LosingIn(h2, o2, u, p) /\ LosingIn(h2, o2, u, p) \in Nat
  BY LosingNat
<1>3. \A u \in Thread \ {t} : g[u] = f[u]
  BY <1>1, <1>2
<1> HIDE DEF f, g
<1>4. Total(g) + Positive(f[t]) = Total(f) + Positive(g[t])
  BY <1>1, <1>2, <1>3, FiniteSets, OneChanged
<1>5. Positive(f[t]) = f[t] /\ Positive(g[t]) = g[t]
  BY <1>1, <1>2 DEF Positive
<1>6. QED
  BY <1>1, <1>2, <1>4, <1>5 DEF f, g

\* They do not change when no losers do.
LEMMA LosingSame ==
  ASSUME NEW h, NEW h2, NEW o, NEW o2, NEW p,
         \A u \in Thread : LosingIn(h2, o2, u, p) = LosingIn(h, o, u, p)
  PROVE  Total(LosingAt(h2, o2, p)) = Total(LosingAt(h, o, p))
<1>1. LosingAt(h2, o2, p) = LosingAt(h, o, p)
  BY DEF LosingAt
<1>2. QED
  BY <1>1

\* The counts of p in the messages on the wire are a number.
LEMMA WireNat ==
  ASSUME NEW w, WireOK(w), NEW p
  PROVE  /\ Total(WireAt(w, p)) \in Nat /\ DOMAIN WireAt(w, p) = DOMAIN w
         /\ \A m \in DOMAIN w : /\ w[m] \in Nat /\ w[m] >= 1 /\ SumOf(m.body, p) \in Nat
                                /\ WireAt(w, p)[m] \in Nat /\ WireAt(w, p)[m] = w[m] * SumOf(m.body, p)
<1>1. \A m \in DOMAIN w : w[m] \in Nat /\ w[m] >= 1
  BY DEF WireOK, IsABag
<1>2. \A m \in DOMAIN w : SumOf(m.body, p) \in Nat
  <2>1. \A m \in DOMAIN w : m.body \in Body
    BY DEF WireOK, Message
  <2>2. QED
    BY <2>1, SumIsNumber
<1>3. DOMAIN WireAt(w, p) = DOMAIN w /\ \A m \in DOMAIN w : WireAt(w, p)[m] = w[m] * SumOf(m.body, p)
  BY DEF WireAt
<1>4. \A i, j \in Nat : i * j \in Nat
  OBVIOUS
<1>5. \A m \in DOMAIN w : w[m] * SumOf(m.body, p) \in Nat
  BY <1>1, <1>2, <1>4
<1>6. \A m \in DOMAIN WireAt(w, p) : WireAt(w, p)[m] \in Int
  BY <1>3, <1>5
<1>7. IsFiniteSet(DOMAIN WireAt(w, p))
  BY <1>3 DEF WireOK
<1>8. QED
  BY <1>1, <1>2, <1>3, <1>5, <1>6, <1>7, UnitsAreFinite

\* A product of which a factor changes by one.
LEMMA OneMore ==
  ASSUME NEW i \in Int, NEW j \in Int
  PROVE  (i + 1) * j = i * j + j /\ 1 * j = j /\ (i - 1) * j = i * j - j /\ i * j \in Int
OBVIOUS

\* A message is put on the wire.
LEMMA Posted ==
  ASSUME NEW w, WireOK(w), NEW m \in Message
  PROVE  /\ WireOK(Post(w, m))
         /\ DOMAIN Post(w, m) = DOMAIN w \cup {m}
         /\ \A p : Total(WireAt(Post(w, m), p)) = Total(WireAt(w, p)) + SumOf(m.body, p)
<1> DEFINE v == Post(w, m)
<1>1. DOMAIN v = DOMAIN w \cup {m}
  BY DEF Post, SetToBag, (+)
<1>2. /\ \A n \in DOMAIN w \ {m} : v[n] = w[n] + 0
      /\ v[m] = IF m \in DOMAIN w THEN w[m] + 1 ELSE 0 + 1
      /\ v = [n \in DOMAIN v |-> v[n]]
  BY DEF Post, SetToBag, (+)
<1>3. \A n \in DOMAIN w : w[n] \in Nat /\ w[n] > 0
  BY DEF WireOK, IsABag
<1>4. /\ \A n \in DOMAIN w \ {m} : v[n] = w[n]
      /\ v[m] = IF m \in DOMAIN w THEN w[m] + 1 ELSE 1
  BY <1>2, <1>3
<1> HIDE DEF v
<1>5. IsABag(v)
  <2>1. \A n \in DOMAIN v : v[n] \in {i \in Nat : i > 0}
    BY <1>1, <1>3, <1>4
  <2>2. QED
    BY <1>2, <2>1 DEF IsABag
<1>6. IsFiniteSet(DOMAIN v) /\ DOMAIN v \subseteq Message
  BY <1>1, FS_AddElement DEF WireOK
<1>7. WireOK(v)
  BY <1>5, <1>6 DEF WireOK
<1>8. ASSUME NEW p
      PROVE  Total(WireAt(v, p)) = Total(WireAt(w, p)) + SumOf(m.body, p)
  <2> DEFINE f == WireAt(w, p)
             g == WireAt(v, p)
             k == SumOf(m.body, p)
  <2>1. /\ DOMAIN f = DOMAIN w /\ Total(f) \in Nat
        /\ \A n \in DOMAIN w : f[n] \in Nat /\ f[n] = w[n] * SumOf(n.body, p)
    BY WireNat
  <2>2. /\ DOMAIN g = DOMAIN v /\ Total(g) \in Nat
        /\ \A n \in DOMAIN v : g[n] \in Nat /\ g[n] = v[n] * SumOf(n.body, p)
    BY <1>7, WireNat
  <2>3. k \in Nat
    BY <1>1, <1>7, WireNat
  <2>4. \A n \in DOMAIN w \ {m} : g[n] = f[n]
    BY <1>1, <1>4, <2>1, <2>2
  <2>5. CASE m \in DOMAIN w
    <3>1. DOMAIN g = DOMAIN f /\ m \in DOMAIN f
      BY <1>1, <2>1, <2>2, <2>5
    <3>2. f[m] = w[m] * k /\ g[m] = (w[m] + 1) * k /\ w[m] \in Int
      BY <1>1, <1>3, <1>4, <2>1, <2>2, <2>5
    <3>3. g[m] = f[m] + k
      BY <2>3, <3>2, OneMore
    <3> HIDE DEF f, g, k
    <3>4. Total(g) + Positive(f[m]) = Total(f) + Positive(g[m])
      <4>1. IsFiniteSet(DOMAIN f) /\ \A n \in DOMAIN f : f[n] \in Int
        BY <2>1 DEF WireOK
      <4>2. \A n \in DOMAIN f : g[n] \in Int
        BY <2>2, <3>1
      <4>3. \A n \in DOMAIN f \ {m} : g[n] = f[n]
        BY <2>1, <2>4
      <4>4. QED
        BY <3>1, <4>1, <4>2, <4>3, OneChanged
    <3>5. f[m] \in Nat /\ g[m] \in Nat
      BY <2>1, <2>2, <3>1
    <3>6. QED
      BY <2>1, <2>2, <2>3, <3>3, <3>4, <3>5 DEF Positive, f, g, k
  <2>6. CASE m \notin DOMAIN w
    <3>1. DOMAIN f = DOMAIN g \ {m} /\ m \in DOMAIN g
      BY <1>1, <2>1, <2>2, <2>6
    <3>2. g[m] = 1 * k
      BY <1>4, <2>2, <2>6, <3>1
    <3>3. g[m] = k
      BY <2>3, <3>2, OneMore
    <3>4. IsFiniteSet(DOMAIN g)
      BY <1>6, <2>2
    <3> HIDE DEF f, g, k
    <3>5. \A n \in DOMAIN g : g[n] \in Int
      BY <2>2
    <3>6. \A n \in DOMAIN f : f[n] = g[n]
      BY <2>1, <2>4, <2>6
    <3>7. Total(g) = Total(f) + Positive(g[m])
      BY <3>1, <3>4, <3>5, <3>6, TotalWithout
    <3>8. QED
      BY <2>3, <3>3, <3>7 DEF Positive, f, g, k
  <2>7. QED
    BY <2>5, <2>6
<1>9. QED
  BY <1>1, <1>7, <1>8 DEF v

\* A message is taken from the wire.
LEMMA Taken ==
  ASSUME NEW w, WireOK(w), NEW m \in DOMAIN w
  PROVE  /\ WireOK(w (-) SetToBag({m}))
         /\ DOMAIN (w (-) SetToBag({m})) \subseteq DOMAIN w
         /\ \A p : Total(WireAt(w (-) SetToBag({m}), p)) + SumOf(m.body, p) = Total(WireAt(w, p))
<1> DEFINE v == w (-) SetToBag({m})
<1>1. \A n \in DOMAIN w : w[n] \in Nat /\ w[n] > 0
  BY DEF WireOK, IsABag
<1>2. DOMAIN v = {n \in DOMAIN w : (IF n = m THEN w[n] - 1 ELSE w[n]) > 0}
  BY DEF SetToBag, (-)
<1>3. /\ \A n \in DOMAIN v : v[n] = IF n = m THEN w[n] - 1 ELSE w[n]
      /\ v = [n \in DOMAIN v |-> v[n]]
  BY DEF SetToBag, (-)
<1> HIDE DEF v
<1>4. IsABag(v)
  <2>1. \A n \in DOMAIN v : v[n] \in {i \in Nat : i > 0}
    BY <1>1, <1>2, <1>3
  <2>2. QED
    BY <1>3, <2>1 DEF IsABag
<1>5. DOMAIN v \subseteq DOMAIN w /\ IsFiniteSet(DOMAIN w) /\ DOMAIN w \subseteq Message
  BY <1>2 DEF WireOK
<1>6. IsFiniteSet(DOMAIN v) /\ DOMAIN v \subseteq Message
  BY <1>5, FS_Subset
<1>7. WireOK(v)
  BY <1>4, <1>6 DEF WireOK
<1>8. ASSUME NEW p
      PROVE  Total(WireAt(v, p)) + SumOf(m.body, p) = Total(WireAt(w, p))
  <2> DEFINE f == WireAt(w, p)
             g == WireAt(v, p)
             k == SumOf(m.body, p)
  <2>1. /\ DOMAIN f = DOMAIN w /\ Total(f) \in Nat
        /\ \A n \in DOMAIN w : f[n] \in Nat /\ f[n] = w[n] * SumOf(n.body, p)
        /\ k \in Nat
    BY WireNat
  <2>2. /\ DOMAIN g = DOMAIN v /\ Total(g) \in Nat
        /\ \A n \in DOMAIN v : g[n] \in Nat /\ g[n] = v[n] * SumOf(n.body, p)
    BY <1>7, WireNat
  <2>3. \A n \in DOMAIN v \ {m} : g[n] = f[n]
    BY <1>2, <1>3, <2>1, <2>2
  <2>4. CASE w[m] > 1
    <3>1. DOMAIN v = DOMAIN w
      BY <1>1, <1>2, <2>4
    <3>2. f[m] = w[m] * k /\ g[m] = (w[m] - 1) * k /\ w[m] \in Int
      BY <1>1, <1>3, <2>1, <2>2, <3>1
    <3>3. g[m] = f[m] - k
      BY <2>1, <3>2, OneMore
    <3> HIDE DEF f, g, k
    <3>4. Total(g) + Positive(f[m]) = Total(f) + Positive(g[m])
      <4>1. \A n \in DOMAIN w : f[n] \in Int
        BY <2>1
      <4>2. \A n \in DOMAIN w : g[n] \in Int
        BY <2>2, <3>1
      <4>3. \A n \in DOMAIN w \ {m} : g[n] = f[n]
        BY <2>3, <3>1
      <4>4. DOMAIN f = DOMAIN w /\ DOMAIN g = DOMAIN w
        BY <2>1, <2>2, <3>1
      <4>5. QED
        BY <1>5, <4>1, <4>2, <4>3, <4>4, OneChanged
    <3>5. f[m] \in Nat /\ g[m] \in Nat
      BY <2>1, <2>2, <3>1
    <3>6. QED
      BY <2>1, <2>2, <3>3, <3>4, <3>5 DEF Positive, f, g, k
  <2>5. CASE ~(w[m] > 1)
    <3>1. w[m] = 1 /\ DOMAIN v = DOMAIN w \ {m}
      BY <1>1, <1>2, <2>5
    <3>2. f[m] = k
      BY <2>1, <3>1, OneMore
    <3> HIDE DEF f, g, k
    <3>3. Total(f) = Total(g) + Positive(f[m])
      <4>1. IsFiniteSet(DOMAIN f) /\ m \in DOMAIN f /\ DOMAIN g = DOMAIN f \ {m}
        BY <1>5, <2>1, <2>2, <3>1
      <4>2. \A n \in DOMAIN f : f[n] \in Int
        BY <2>1
      <4>3. \A n \in DOMAIN g : g[n] = f[n]
        BY <2>2, <2>3, <3>1
      <4>4. QED
        BY <4>1, <4>2, <4>3, TotalWithout
    <3>4. QED
      BY <2>1, <3>2, <3>3 DEF Positive, f, g, k
  <2>6. QED
    BY <1>1, <2>4, <2>5
<1>9. QED
  BY <1>5, <1>7, <1>8 DEF v

-----------------------------------------------------------------------------
(* Places in the lists of waiters.                                         *)

\* How often t is on one list of waiters is a number.
LEMMA PlacesAre ==
  ASSUME NEW h \in Heaps, NEW t, NEW c \in Cell
  PROVE  /\ PlacesIn(h, c, t) \in Nat
         /\ IsFiniteSet({i \in DOMAIN h[c].waiters : h[c].waiters[i] = t})
         /\ h[c].waiters \in Seq(Thread) /\ DOMAIN h[c].waiters = 1 .. Len(h[c].waiters)
         /\ Len(h[c].waiters) \in Nat /\ \A i \in DOMAIN h[c].waiters : h[c].waiters[i] \in Thread
<1>1. h[c].waiters \in Seq(Thread)
  BY DEF Heaps, ProxyData
<1>2. /\ DOMAIN h[c].waiters = 1 .. Len(h[c].waiters) /\ Len(h[c].waiters) \in Nat
      /\ \A i \in DOMAIN h[c].waiters : h[c].waiters[i] \in Thread
  BY <1>1, ListElements
<1>3. IsFiniteSet(DOMAIN h[c].waiters)
  BY <1>2, FS_Interval
<1> DEFINE S == {i \in DOMAIN h[c].waiters : h[c].waiters[i] = t}
<1>4. S \subseteq DOMAIN h[c].waiters
  OBVIOUS
<1>5. IsFiniteSet(S)
  <2> HIDE DEF S
  <2>1. QED
    BY <1>3, <1>4, FS_Subset
<1>6. Cardinality(S) \in Nat
  <2> HIDE DEF S
  <2>1. QED
    BY <1>5, FS_CardinalityType
<1>7. QED
  BY <1>1, <1>2, <1>5, <1>6 DEF PlacesIn

\* So is how often it is on all lists, or on all those for p.
LEMMA PlacesNat ==
  ASSUME NEW h \in Heaps, NEW t, NEW p
  PROVE  /\ Total(PlacesAt(h, t)) \in Nat /\ DOMAIN PlacesAt(h, t) = Cell
         /\ \A c \in Cell : PlacesAt(h, t)[c] = PlacesIn(h, c, t) /\ PlacesIn(h, c, t) \in Nat
         /\ Total(PlacesFor(h, t, p)) \in Nat /\ DOMAIN PlacesFor(h, t, p) = Cell
         /\ \A c \in Cell : /\ PlacesFor(h, t, p)[c] \in Nat
                            /\ PlacesFor(h, t, p)[c] = IF h[c].proxy = p THEN PlacesIn(h, c, t) ELSE 0
<1>1. \A c \in Cell : PlacesIn(h, c, t) \in Nat
  BY PlacesAre
<1>2. DOMAIN PlacesAt(h, t) = Cell /\ \A c \in Cell : PlacesAt(h, t)[c] = PlacesIn(h, c, t)
  BY DEF PlacesAt
<1>3. /\ DOMAIN PlacesFor(h, t, p) = Cell
      /\ \A c \in Cell : PlacesFor(h, t, p)[c] = IF h[c].proxy = p THEN PlacesIn(h, c, t) ELSE 0
  BY DEF PlacesFor
<1>4. \A c \in Cell : PlacesFor(h, t, p)[c] \in Nat
  BY <1>1, <1>3
<1>5. \A c \in DOMAIN PlacesAt(h, t) : PlacesAt(h, t)[c] \in Int
  BY <1>1, <1>2
<1>6. Total(PlacesAt(h, t)) \in Nat
  BY <1>2, <1>5, FiniteSets, UnitsAreFinite
<1>7. \A c \in DOMAIN PlacesFor(h, t, p) : PlacesFor(h, t, p)[c] \in Int
  BY <1>3, <1>4
<1>8. Total(PlacesFor(h, t, p)) \in Nat
  BY <1>3, <1>7, FiniteSets, UnitsAreFinite
<1>9. QED
  BY <1>1, <1>2, <1>3, <1>4, <1>6, <1>8

\* The places of t change with one list of waiters.
LEMMA PlacesChange ==
  ASSUME NEW h \in Heaps, NEW h2 \in Heaps, NEW t, NEW c \in Cell,
         \A d \in Cell : d # c => h2[d].waiters = h[d].waiters
  PROVE  Total(PlacesAt(h2, t)) + PlacesIn(h, c, t) = Total(PlacesAt(h, t)) + PlacesIn(h2, c, t)
<1> DEFINE f == PlacesAt(h, t)
           g == PlacesAt(h2, t)
<1>1. DOMAIN f = Cell /\ \A d \in Cell : f[d] = PlacesIn(h, d, t) /\ f[d] \in Nat
  <2>1. \A d \in Cell : PlacesIn(h, d, t) \in Nat
    BY PlacesAre
  <2>2. QED
    BY <2>1 DEF PlacesAt
<1>2. DOMAIN g = Cell /\ \A d \in Cell : g[d] = PlacesIn(h2, d, t) /\ g[d] \in Nat
  <2>1. \A d \in Cell : PlacesIn(h2, d, t) \in Nat
    BY PlacesAre
  <2>2. QED
    BY <2>1 DEF PlacesAt
<1> HIDE DEF f, g
<1>3. \A d \in Cell \ {c} : g[d] = f[d]
  <2>1. \A d \in Cell \ {c} : PlacesIn(h2, d, t) = PlacesIn(h, d, t)
    BY DEF PlacesIn
  <2>2. QED
    BY <1>1, <1>2, <2>1
<1>4. Total(g) + Positive(f[c]) = Total(f) + Positive(g[c])
  BY <1>1, <1>2, <1>3, FiniteSets, OneChanged
<1>5. Positive(f[c]) = PlacesIn(h, c, t) /\ Positive(g[c]) = PlacesIn(h2, c, t)
  BY <1>1, <1>2 DEF Positive
<1>6. QED
  BY <1>4, <1>5 DEF f, g

\* The promised counts are in the messages of the blocked senders.
LEMMA OwedIsCarried ==
  ASSUME NEW h \in Heaps, NEW o \in Outs, NEW p \in Proxy,
         \A t \in Thread : ThreadSound(h, o, t), WaitersSound(h, o)
  PROVE  Owed(h, o, p) <= Total(ThreadAt(o, p)) /\ Owed(h, o, p) \in Nat
<1> DEFINE wait == WaitingAt(h, p)
           W == Units(wait)
           F == [w \in W |-> h[w[1]].waiters[w[2]]]
           g == [t \in Thread |-> IF o[t].stage # "encoded" THEN Total(PlacesFor(h, t, p)) ELSE 0]
           f == LosingAt(h, o, p)
           b == ThreadAt(o, p)
<1>1. /\ DOMAIN wait = Cell /\ \A c \in Cell : wait[c] \in Nat
      /\ \A c \in Cell : wait[c] = IF h[c].proxy = p THEN Len(h[c].waiters) ELSE 0
  BY WaitingNat DEF WaitingAt
<1>2. IsFiniteSet(W)
  <2>1. \A c \in DOMAIN wait : wait[c] \in Int
    BY <1>1
  <2>2. QED
    BY <1>1, <2>1, FiniteSets, UnitsAreFinite
<1>3. \A w \in W : /\ w = <<w[1], w[2]>> /\ w[1] \in Cell /\ h[w[1]].proxy = p
                   /\ w[2] \in DOMAIN h[w[1]].waiters /\ F[w] = h[w[1]].waiters[w[2]] /\ F[w] \in Thread
                   /\ o[F[w]].stage = "waiting"
  <2> SUFFICES ASSUME NEW w \in W
               PROVE  /\ w = <<w[1], w[2]>> /\ w[1] \in Cell /\ h[w[1]].proxy = p
                      /\ w[2] \in DOMAIN h[w[1]].waiters /\ F[w] = h[w[1]].waiters[w[2]] /\ F[w] \in Thread
                      /\ o[F[w]].stage = "waiting"
    OBVIOUS
  <2>1. PICK c \in Cell : w \in {c} \X (1 .. wait[c])
    BY <1>1 DEF Units
  <2>2. w = <<w[1], w[2]>> /\ w[1] = c /\ w[2] \in 1 .. wait[c]
    BY <2>1
  <2>3. h[c].proxy = p /\ w[2] \in 1 .. Len(h[c].waiters)
    BY <1>1, <2>2
  <2>4. h[c].waiters \in Seq(Thread) /\ DOMAIN h[c].waiters = 1 .. Len(h[c].waiters)
    BY PlacesAre
  <2>5. h[c].waiters[w[2]] \in Thread /\ o[h[c].waiters[w[2]]].stage = "waiting"
    BY <2>3, <2>4 DEF WaitersSound, WaiterSound
  <2>6. QED
    BY <2>2, <2>3, <2>4, <2>5
<1>4. F \in [W -> Thread]
  BY <1>3
<1>5. DOMAIN g = Thread /\ \A t \in Thread : g[t] \in Nat
  BY PlacesNat
<1>6. ASSUME NEW t \in Thread
      PROVE  Cardinality({w \in W : F[w] = t}) <= g[t]
  <2> DEFINE V == {w \in W : F[w] = t}
             q == PlacesFor(h, t, p)
             G == [w \in V |-> w[1]]
  <2>1. IsFiniteSet(V)
    <3>1. V \subseteq W
      OBVIOUS
    <3> HIDE DEF V, W
    <3>2. QED
      BY <1>2, <3>1, FS_Subset
  <2>2. /\ DOMAIN q = Cell /\ Total(q) \in Nat /\ \A c \in Cell : q[c] \in Nat
        /\ \A c \in Cell : q[c] = IF h[c].proxy = p THEN PlacesIn(h, c, t) ELSE 0
    BY PlacesNat
  <2>3. G \in [V -> Cell]
    BY <1>3
  <2>4. ASSUME NEW c \in Cell PROVE Cardinality({w \in V : G[w] = c}) <= q[c]
    <3> DEFINE A == {w \in V : G[w] = c}
               B == {i \in DOMAIN h[c].waiters : h[c].waiters[i] = t}
               j == [w \in A |-> w[2]]
    <3>1. IsFiniteSet(B) /\ Cardinality(B) = PlacesIn(h, c, t)
      BY PlacesAre DEF PlacesIn
    <3>2. \A w \in A : w = <<c, w[2]>> /\ w[2] \in B /\ h[c].proxy = p
      BY <1>3
    <3>3. j \in Injection(A, B)
      <4>1. \A w \in A : j[w] = w[2]
        OBVIOUS
      <4>2. \A v, w \in A : j[v] = j[w] => v = w
        BY <3>2, <4>1
      <4>3. j \in [A -> B]
        BY <3>2
      <4>4. DOMAIN j = A
        OBVIOUS
      <4> HIDE DEF j, A, B
      <4>5. IsInjective(j)
        BY <4>2, <4>4 DEF IsInjective
      <4>6. QED
        BY <4>3, <4>5 DEF Injection
    <3>4. CASE A = {}
      <4>1. Cardinality(A) = 0
        BY <3>4, FS_EmptySet
      <4>2. QED
        BY <2>2, <4>1
    <3>5. CASE A # {}
      <4>1. q[c] = PlacesIn(h, c, t)
        BY <2>2, <3>2, <3>5
      <4>2. Cardinality(A) <= Cardinality(B)
        <5> HIDE DEF A, B, j
        <5>1. QED
          BY <3>1, <3>3, FS_Injection
      <4>3. QED
        BY <3>1, <4>1, <4>2
    <3>6. QED
      BY <3>4, <3>5
  <2>5. Cardinality(V) <= Total(q)
    <3> HIDE DEF V, q, G
    <3>1. QED
      BY <2>1, <2>2, <2>3, <2>4, FiniteSets, FibresBound
  <2>6. CASE o[t].stage # "encoded"
    BY <2>5, <2>6
  <2>7. CASE o[t].stage = "encoded"
    <3>1. V = {}
      BY <1>3, <2>7
    <3>2. Cardinality(V) = 0
      BY <3>1, FS_EmptySet
    <3>3. QED
      BY <1>5, <3>2
  <2>8. QED
    BY <2>6, <2>7
<1>7. Cardinality(W) <= Total(g)
  <2> HIDE DEF W, F, g
  <2>1. QED
    BY <1>2, <1>4, <1>5, <1>6, FiniteSets, FibresBound
<1>8. Total(f) + Total(g) <= Total(b)
  <2>1. DOMAIN f = Thread /\ \A t \in Thread : f[t] \in Nat /\ f[t] = LosingIn(h, o, t, p)
    BY LosingNat
  <2>2. DOMAIN b = Thread /\ \A t \in Thread : b[t] \in Nat /\ b[t] = SumOf(o[t].body, p)
    BY ThreadsNat DEF ThreadAt
  <2>3. \A t \in Thread : f[t] <= b[t] /\ g[t] <= b[t]
    BY <2>1, <2>2, <1>5 DEF ThreadSound
  <2>4. \A t \in Thread : f[t] = 0 \/ g[t] = 0
    BY <2>1 DEF LosingIn
  <2> HIDE DEF f, g, b
  <2>5. QED
    BY <1>5, <2>1, <2>2, <2>3, <2>4, FiniteSets, TotalOfTwo
<1>9. Total(wait) = Cardinality(W) /\ Total(wait) \in Nat /\ Total(f) \in Nat /\ Total(g) \in Nat
  <2>1. Total(wait) \in Nat
    BY WaitingNat
  <2>2. Total(f) \in Nat
    BY LosingNat
  <2>3. \A t \in DOMAIN g : g[t] \in Int
    BY <1>5
  <2>4. Total(g) \in Nat
    <3> HIDE DEF g
    <3>1. QED
      BY <1>5, <2>3, FiniteSets, UnitsAreFinite
  <2>5. QED
    BY <2>1, <2>2, <2>4 DEF Total
<1>10. Total(b) \in Nat
  BY ThreadsNat
<1> HIDE DEF wait, W, f, g, b
<1>11. Total(wait) + Total(f) <= Total(b) /\ Total(wait) + Total(f) \in Nat
  BY <1>7, <1>8, <1>9, <1>10
<1>12. QED
  BY <1>11 DEF Owed, wait, f, b

-----------------------------------------------------------------------------
(* Steps that leave the lists of waiters alone.                            *)

\* The proxy-datas in U keep their proxies, and nobody waits at the others.
Retains(h, h2, U) ==
  \A c \in Cell : /\ h2[c].waiters = h[c].waiters
                  /\ c \in U => h2[c].proxy = h[c].proxy
                  /\ c \notin U => h[c].waiters = <<>>
LosersWithin(o, U) == \A t \in Thread : \A i \in DOMAIN o[t].losers : o[t].losers[i] \in U
LowWithin(d, U) == \A i \in DOMAIN d.low : d.low[i].data \in U

\* What a dispatcher has of p depends only on the proxies of its data.
LEMMA RetainsBusy ==
  ASSUME NEW h, NEW h2, NEW U, U \subseteq Cell, Retains(h, h2, U), NEW d, LowWithin(d, U), NEW p
  PROVE  BusyIn(h2, d, p) = BusyIn(h, d, p)
<1>1. \A i \in DOMAIN d.low : h2[d.low[i].data].proxy = h[d.low[i].data].proxy
  BY DEF Retains, LowWithin
<1>2. LowAt(h2, d.low, p) = LowAt(h, d.low, p)
  BY <1>1 DEF LowAt
<1>3. QED
  BY <1>2 DEF BusyIn, LowSum

\* What a sender lacks of p depends only on the proxies of its data.
LEMMA RetainsLosing ==
  ASSUME NEW h, NEW h2, NEW U, U \subseteq Cell, Retains(h, h2, U), NEW o, LosersWithin(o, U),
         NEW t \in Thread, NEW p
  PROVE  LosingIn(h2, o, t, p) = LosingIn(h, o, t, p)
<1>1. \A i \in DOMAIN o[t].losers : h2[o[t].losers[i]].proxy = h[o[t].losers[i]].proxy
  BY DEF Retains, LosersWithin
<1>2. QED
  BY <1>1, LosersSame DEF LosingIn

\* What is owed of p depends only on the proxies and the waiters of the data in use.
LEMMA RetainsOwed ==
  ASSUME NEW h \in Heaps, NEW h2 \in Heaps, NEW U, U \subseteq Cell, Retains(h, h2, U),
         NEW o, LosersWithin(o, U), NEW p
  PROVE  Owed(h2, o, p) = Owed(h, o, p)
<1>1. Total(LosingAt(h2, o, p)) = Total(LosingAt(h, o, p))
  BY RetainsLosing, LosingSame
<1>2. \A c \in Cell : (IF h2[c].proxy = p THEN Len(h2[c].waiters) ELSE 0)
                        = IF h[c].proxy = p THEN Len(h[c].waiters) ELSE 0
  <2>1. Len(<<>>) = 0
    OBVIOUS
  <2>2. QED
    BY <2>1 DEF Retains
<1>3. WaitingAt(h2, p) = WaitingAt(h, p)
  BY <1>2 DEF WaitingAt
<1>4. QED
  BY <1>1, <1>3 DEF Owed

\* A blocked sender is sound as long as the data in use keep their proxies and waiters.
LEMMA RetainsThread ==
  ASSUME NEW h \in Heaps, NEW h2 \in Heaps, NEW U, U \subseteq Cell, Retains(h, h2, U),
         NEW o, LosersWithin(o, U), NEW t \in Thread, ThreadSound(h, o, t)
  PROVE  ThreadSound(h2, o, t)
<1>1. \A c \in Cell : PlacesIn(h2, c, t) = PlacesIn(h, c, t)
  BY DEF Retains, PlacesIn
<1>2. PlacesAt(h2, t) = PlacesAt(h, t)
  BY <1>1 DEF PlacesAt
<1>3. \A c \in Cell : c \notin U => PlacesIn(h, c, t) = 0
  <2> SUFFICES ASSUME NEW c \in Cell, c \notin U PROVE PlacesIn(h, c, t) = 0
    OBVIOUS
  <2>1. {i \in DOMAIN h[c].waiters : h[c].waiters[i] = t} = {}
    BY DEF Retains
  <2>2. QED
    BY <2>1, FS_EmptySet DEF PlacesIn
<1>4. ASSUME NEW p PROVE PlacesFor(h2, t, p) = PlacesFor(h, t, p)
  <2>1. \A c \in Cell : (IF h2[c].proxy = p THEN PlacesIn(h2, c, t) ELSE 0)
                          = IF h[c].proxy = p THEN PlacesIn(h, c, t) ELSE 0
    BY <1>1, <1>3 DEF Retains
  <2>2. QED
    BY <2>1 DEF PlacesFor
<1>5. \A p : LosingIn(h2, o, t, p) = LosingIn(h, o, t, p)
  BY RetainsLosing
<1>6. \A i \in DOMAIN o[t].losers : h2[o[t].losers[i]].proxy = h[o[t].losers[i]].proxy
  BY DEF Retains, LosersWithin
<1>7. QED
  BY <1>2, <1>4, <1>5, <1>6 DEF ThreadSound

\* The lists of waiters are sound as long as their data keep them.
LEMMA RetainsWaiters ==
  ASSUME NEW h, NEW h2, NEW U, Retains(h, h2, U), NEW o, WaitersSound(h, o)
  PROVE  WaitersSound(h2, o)
BY DEF Retains, WaitersSound

\* When only counts, and whether something was collected or asked for, change.
Recounted(h, h2) == \A c \in Cell : h2[c].proxy = h[c].proxy /\ h2[c].waiters = h[c].waiters

\* A change of counts leaves everything that does not speak of them.
LEMMA RecountedFrame ==
  ASSUME NEW h \in Heaps, NEW h2 \in Heaps, Recounted(h, h2), NEW o \in Outs
  PROVE  /\ \A s \in Slots : SlotsSound(s, h) => SlotsSound(s, h2)
         /\ \A t \in Thread : ThreadSound(h, o, t) => ThreadSound(h2, o, t)
         /\ WaitersSound(h, o) => WaitersSound(h2, o)
         /\ \A p : Owed(h2, o, p) = Owed(h, o, p)
         /\ \A d \in Dispatcher : \A p : BusyIn(h2, d, p) = BusyIn(h, d, p)
<1>1. Retains(h, h2, Cell)
  BY DEF Recounted, Retains
<1>2. LosersWithin(o, Cell)
  <2>1. \A t \in Thread : o[t].losers \in Seq(Cell)
    BY DEF Outs, Blocked
  <2>2. QED
    BY <2>1, ListElements DEF LosersWithin
<1>3. \A d \in Dispatcher : LowWithin(d, Cell)
  <2> SUFFICES ASSUME NEW d \in Dispatcher PROVE LowWithin(d, Cell)
    OBVIOUS
  <2>1. d.low \in Seq([data : Cell, more : Nat \ {0}])
    BY DEF Dispatcher
  <2>2. \A i \in DOMAIN d.low : d.low[i] \in [data : Cell, more : Nat \ {0}]
    BY <2>1, ListElements
  <2>3. QED
    BY <2>2 DEF LowWithin
<1>4. \A s \in Slots : SlotsSound(s, h) => SlotsSound(s, h2)
  <2> SUFFICES ASSUME NEW s \in Slots, SlotsSound(s, h) PROVE SlotsSound(s, h2)
    OBVIOUS
  <2>1. \A a \in Aspace, p \in Proxy : s[a][p] # 0 => s[a][p] \in Cell
    BY DEF Slots
  <2>2. QED
    BY <2>1 DEF SlotsSound, Recounted
<1>5. QED
  BY <1>1, <1>2, <1>3, <1>4, RetainsBusy, RetainsOwed, RetainsThread, RetainsWaiters

-----------------------------------------------------------------------------
(* Freeing a proxy.                                                        *)

StateOK(s, h, w, o, k) ==
  s \in Slots /\ h \in Heaps /\ WireOK(w) /\ o \in Outs /\ k \in Disps
Sound(s, h, l, w, o, k) ==
  /\ SlotsSound(s, h)
  /\ HeldSound(s, h, l, k)
  /\ \A m \in DOMAIN w : MessageSound(m)
  /\ \A a, b \in Aspace : DispatchSound(s, k[a][b], a, b)
  /\ \A t \in Thread : ThreadSound(h, o, t)
  /\ WaitersSound(h, o)

\* Two terms of a sum.
LEMMA TotalOfPair ==
  ASSUME NEW f, IsFiniteSet(DOMAIN f), \A x \in DOMAIN f : f[x] \in Int,
         NEW y \in DOMAIN f, NEW z \in DOMAIN f, y # z
  PROVE  Positive(f[y]) + Positive(f[z]) <= Total(f)
<1> DEFINE g == [x \in DOMAIN f \ {y} |-> f[x]]
<1>1. DOMAIN g = DOMAIN f \ {y} /\ \A x \in DOMAIN g : g[x] = f[x]
  OBVIOUS
<1> HIDE DEF g
<1>2. IsFiniteSet(DOMAIN g) /\ \A x \in DOMAIN g : g[x] \in Int
  BY <1>1, FS_RemoveElement
<1>3. Total(f) = Total(g) + Positive(f[y])
  BY <1>1, TotalWithout
<1>4. z \in DOMAIN g /\ g[z] = f[z]
  BY <1>1
<1>5. Positive(g[z]) <= Total(g) /\ Total(g) \in Nat
  BY <1>2, <1>4, TotalOfOne
<1>6. Positive(f[y]) \in Int /\ Positive(f[z]) \in Int
  BY DEF Positive
<1>7. QED
  BY <1>3, <1>4, <1>5, <1>6

\* A product of positive numbers is positive.
LEMMA ProductPositive ==
  ASSUME NEW i \in Nat, NEW j \in Nat, i >= 1, j >= 1
  PROVE  i * j >= 1
<1>1. PICK n \in Nat : i = n + 1
  <2>1. i - 1 \in Nat /\ i = (i - 1) + 1
    OBVIOUS
  <2>2. QED
    BY <2>1
<1>2. (n + 1) * j = n * j + j /\ n * j \in Nat
  <2>1. n * j \in Nat
    OBVIOUS
  <2>2. QED
    BY <2>1, OneMore
<1>3. QED
  BY <1>1, <1>2

\* When nothing of p is missing nobody waits for counts of it.
LEMMA CleanOwesNothing ==
  ASSUME NEW s, NEW h, NEW w, NEW o, NEW k, NEW p, StateOK(s, h, w, o, k), WaitersSound(h, o),
         Clean(s, h, w, o, k, p)
  PROVE  Owed(h, o, p) = 0
<1>1. h \in Heaps /\ o \in Outs
  BY DEF StateOK
<1>2. ASSUME NEW t \in Thread PROVE LosingIn(h, o, t, p) = 0
  <2>1. \A i \in DOMAIN o[t].losers : h[o[t].losers[i]].proxy # p
    BY DEF Clean
  <2>2. DOMAIN LoserAt(h, o[t].losers, p) = DOMAIN o[t].losers
    BY DEF LoserAt
  <2>3. \A i \in DOMAIN o[t].losers : LoserAt(h, o[t].losers, p)[i] = 0
    BY <2>1 DEF LoserAt
  <2>4. Total(LoserAt(h, o[t].losers, p)) = 0
    BY <2>2, <2>3, TotalOfNone
  <2>5. QED
    BY <2>4 DEF LosingIn, LosersIn
<1>3. Total(LosingAt(h, o, p)) = 0
  <2>1. DOMAIN LosingAt(h, o, p) = Thread /\ \A t \in Thread : LosingAt(h, o, p)[t] = 0
    BY <1>2 DEF LosingAt
  <2>2. QED
    BY <2>1, TotalOfNone
<1>4. ASSUME NEW c \in Cell PROVE WaitingAt(h, p)[c] = 0
  <2>1. CASE h[c].proxy = p /\ Len(h[c].waiters) # 0
    <3>1. 1 \in DOMAIN h[c].waiters /\ h[c].waiters[1] \in Thread
      <4>1. h[c].waiters \in Seq(Thread)
        BY <1>1, PlacesAre
      <4>2. QED
        BY <2>1, <4>1
    <3>2. WaiterSound(o, h[c].waiters[1], c)
      BY <3>1 DEF WaitersSound
    <3>3. QED
      BY <2>1, <3>1, <3>2 DEF WaiterSound, Clean
  <2>2. CASE ~(h[c].proxy = p /\ Len(h[c].waiters) # 0)
    BY <2>2 DEF WaitingAt
  <2>3. QED
    BY <2>1, <2>2
<1>5. Total(WaitingAt(h, p)) = 0
  <2>1. DOMAIN WaitingAt(h, p) = Cell
    BY DEF WaitingAt
  <2>2. QED
    BY <1>4, <2>1, TotalOfNone
<1>6. QED
  BY <1>3, <1>5 DEF Owed

\* An item of p in a message counts.
LEMMA FineIsPositive ==
  ASSUME NEW kind, NEW body \in Body, NEW p, kind \in {"run", "request", "counts", "return"},
         Fine(kind, body, p), Counted(kind, body), Mentions(body, p)
  PROVE  SumOf(body, p) >= 1 /\ kind # "request"
<1>1. PICK i \in DOMAIN body : body[i][1] = p
  BY DEF Mentions
<1>2. kind # "request"
  BY <1>1 DEF Fine
<1>3. \A j \in DOMAIN body : body[j][1] = p => body[j][2] >= 1
  BY <1>2 DEF Fine, Counted
<1>4. QED
  BY <1>2, <1>3, SumOfMentioned

\* If the owner has all counts of p, except those of a message that was decoded, then
\* there are no others.  (Positive is used as in the sums.)
LEMMA AllAtHome ==
  ASSUME NEW s, NEW h, NEW l, NEW w, NEW o, NEW k, NEW p \in Proxy,
         StateOK(s, h, w, o, k), Sound(s, h, l, w, o, k), CountsSound(s, h, w, o, k, p),
         s[Owner][p] # 0, ~h[s[Owner][p]].self, NEW x \in Aspace, NEW y \in Aspace,
         BaseCount <= Positive(LocalIn(s, h, Owner, p)) + BusyIn(h, k[x][y], p)
  PROVE  /\ Clean(s, h, w, o, k, p)
         /\ Positive(LocalIn(s, h, Owner, p)) + BusyIn(h, k[x][y], p) = BaseCount
         /\ p \notin l[Owner]
         /\ \A a \in Aspace \ {Owner} : s[a][p] = 0
         /\ \A m \in DOMAIN w : ~Mentions(m.body, p)
         /\ \A t \in Thread : ~Mentions(o[t].body, p)
         /\ \A a, b \in Aspace : <<a, b>> # <<x, y>> => ~Mentions(k[a][b].body, p)
         /\ k[x][y].kind # "return" \/ BusyIn(h, k[x][y], p) = 0 => ~Mentions(k[x][y].body, p)
<1> DEFINE V == VectorAt(s, h, p)
           W == WireAt(w, p)
           T == ThreadAt(o, p)
           D == DispAt(h, k, p)
           home == Positive(LocalIn(s, h, Owner, p))
           busy == BusyIn(h, k[x][y], p)
<1>0. s \in Slots /\ h \in Heaps /\ WireOK(w) /\ o \in Outs /\ k \in Disps /\ Owner \in Aspace /\ BaseCount \in Nat
  BY ProxyCountsAssumption DEF StateOK
<1>1. DOMAIN V = Aspace /\ \A a \in Aspace : V[a] = LocalIn(s, h, a, p) /\ V[a] \in Int
  BY <1>0, LocalIsInt DEF VectorAt
<1>2. DOMAIN T = Thread /\ \A t \in Thread : T[t] = SumOf(o[t].body, p) /\ T[t] \in Nat
  BY <1>0, ThreadsNat DEF ThreadAt
<1>3. DOMAIN D = Aspace \X Aspace /\ \A z \in Aspace \X Aspace : D[z] = BusyIn(h, k[z[1]][z[2]], p) /\ D[z] \in Nat
  BY <1>0, DispNat DEF DispAt
<1>4. DOMAIN W = DOMAIN w /\ \A m \in DOMAIN w : /\ W[m] = w[m] * SumOf(m.body, p) /\ W[m] \in Nat
                                                /\ w[m] \in Nat /\ w[m] >= 1 /\ SumOf(m.body, p) \in Nat
  BY <1>0, WireNat
<1>5. Total(V) \in Nat /\ Total(W) \in Nat /\ Total(T) \in Nat /\ Total(D) \in Nat
  BY <1>0, VectorsNat, WireNat, ThreadsNat, DispNat
<1>6. Owed(h, o, p) <= Total(T) /\ Owed(h, o, p) \in Nat
  BY <1>0, OwedIsCarried DEF Sound
<1>7. home \in Nat /\ home <= Total(V)
  <2>1. IsFiniteSet(DOMAIN V) /\ \A a \in DOMAIN V : V[a] \in Int
    BY <1>1, FiniteSets
  <2> HIDE DEF V
  <2>2. Positive(V[Owner]) <= Total(V)
    BY <1>0, <1>1, <2>1, TotalOfOne
  <2>3. V[Owner] = LocalIn(s, h, Owner, p) /\ V[Owner] \in Int
    BY <1>0, <1>1
  <2>4. QED
    BY <2>2, <2>3 DEF Positive
<1>8. busy \in Nat /\ busy <= Total(D)
  <2>1. IsFiniteSet(DOMAIN D) /\ \A z \in DOMAIN D : D[z] \in Int
    BY <1>3, FiniteSets
  <2>2. <<x, y>> \in DOMAIN D /\ D[<<x, y>>] = busy
    BY <1>3
  <2> HIDE DEF D
  <2>3. Positive(D[<<x, y>>]) <= Total(D)
    BY <2>1, <2>2, TotalOfOne
  <2>4. busy \in Nat
    BY <1>3, <2>2
  <2> HIDE DEF busy
  <2>5. QED
    BY <2>2, <2>3, <2>4 DEF Positive
<1>9. Total(V) + Total(W) + Total(T) + Total(D) <= BaseCount + Owed(h, o, p)
  BY DEF CountsSound, Counts
<1>10. Clean(s, h, w, o, k, p)
  <2>1. SUFFICES ASSUME ~Clean(s, h, w, o, k, p) PROVE FALSE
    OBVIOUS
  <2>2. Total(V) + Total(W) + Total(T) + Total(D) < BaseCount + Owed(h, o, p)
    BY <2>1 DEF CountsSound, Counts
  <2> HIDE DEF V, W, T, D, home, busy
  <2>3. BaseCount <= home + busy
    BY DEF home, busy
  <2>4. QED
    BY <1>0, <1>5, <1>6, <1>7, <1>8, <2>2, <2>3
<1>11. Owed(h, o, p) = 0
  BY <1>10, CleanOwesNothing DEF Sound
<1>12. home + busy = BaseCount /\ Total(W) = 0 /\ Total(T) = 0 /\ Total(V) = home /\ Total(D) = busy
  <2>1. BaseCount <= home + busy
    OBVIOUS
  <2> HIDE DEF V, W, T, D, home, busy
  <2>2. QED
    BY <1>0, <1>5, <1>7, <1>8, <1>9, <1>11, <2>1
<1>13. ASSUME NEW a \in Aspace \ {Owner} PROVE s[a][p] = 0
  <2>1. SUFFICES ASSUME s[a][p] # 0 PROVE FALSE
    OBVIOUS
  <2>2. LocalIn(s, h, a, p) >= 1 /\ LocalIn(s, h, a, p) \in Int
    BY <1>0, <1>10, <2>1, LocalIsInt DEF Clean, LocalIn
  <2>3. IsFiniteSet(DOMAIN V) /\ \A b \in DOMAIN V : V[b] \in Int
    BY <1>1, FiniteSets
  <2>4. V[a] = LocalIn(s, h, a, p) /\ V[Owner] = LocalIn(s, h, Owner, p) /\ a \in DOMAIN V /\ Owner \in DOMAIN V
    BY <1>0, <1>1
  <2> HIDE DEF V
  <2>5. Positive(V[a]) + Positive(V[Owner]) <= Total(V)
    BY <2>3, <2>4, TotalOfPair
  <2>6. Positive(V[a]) >= 1 /\ Positive(V[a]) \in Int
    BY <2>2, <2>4 DEF Positive
  <2> HIDE DEF home
  <2>7. Positive(V[Owner]) = home
    BY <2>4 DEF home
  <2>8. QED
    BY <1>7, <1>12, <2>5, <2>6, <2>7
<1>14. ASSUME NEW m \in DOMAIN w PROVE ~Mentions(m.body, p)
  <2>1. SUFFICES ASSUME Mentions(m.body, p) PROVE FALSE
    OBVIOUS
  <2>2. m.body \in Body /\ m.kind \in {"run", "request", "counts", "return"}
    BY <1>0 DEF WireOK, Message
  <2>3. Fine(m.kind, m.body, p) /\ Counted(m.kind, m.body)
    BY <1>10 DEF Clean, Sound, MessageSound
  <2>4. SumOf(m.body, p) >= 1
    BY <2>1, <2>2, <2>3, FineIsPositive
  <2>5. W[m] >= 1
    BY <1>4, <2>4, ProductPositive
  <2>6. IsFiniteSet(DOMAIN W) /\ \A n \in DOMAIN W : W[n] \in Int
    BY <1>0, <1>4 DEF WireOK
  <2>7. m \in DOMAIN W
    BY <1>4
  <2> HIDE DEF W
  <2>8. Positive(W[m]) <= Total(W)
    BY <2>6, <2>7, TotalOfOne
  <2>9. QED
    BY <1>4, <1>12, <2>5, <2>6, <2>7, <2>8 DEF Positive
<1>15. ASSUME NEW t \in Thread PROVE ~Mentions(o[t].body, p)
  <2>1. SUFFICES ASSUME Mentions(o[t].body, p) PROVE FALSE
    OBVIOUS
  <2>2. o[t].body \in Body
    BY <1>0 DEF Outs, Blocked
  <2>3. \A i \in DOMAIN o[t].body : o[t].body[i][2] >= 1
    BY DEF Sound, ThreadSound
  <2>4. SumOf(o[t].body, p) >= 1
    BY <2>1, <2>2, <2>3, SumOfMentioned
  <2>5. T[t] >= 1 /\ t \in DOMAIN T
    BY <1>2, <2>4
  <2>6. IsFiniteSet(DOMAIN T) /\ \A u \in DOMAIN T : T[u] \in Int
    BY <1>2, FiniteSets
  <2> HIDE DEF T
  <2>7. Positive(T[t]) <= Total(T)
    BY <2>5, <2>6, TotalOfOne
  <2>8. QED
    BY <1>12, <2>5, <2>6, <2>7 DEF Positive
<1>16. ASSUME NEW a \in Aspace, NEW b \in Aspace, Mentions(k[a][b].body, p)
       PROVE  k[a][b].kind = "return" /\ SumOf(k[a][b].body, p) >= 1
  <2>1. k[a][b].body \in Body /\ k[a][b].kind \in {"run", "request", "counts", "return"}
    BY <1>0 DEF Disps, Dispatcher
  <2>2. Fine(k[a][b].kind, k[a][b].body, p)
    BY <1>10 DEF Clean
  <2>3. k[a][b].kind \notin {"run", "counts"}
    <3>1. SUFFICES ASSUME k[a][b].kind \in {"run", "counts"} PROVE FALSE
      OBVIOUS
    <3>2. HeldIn(l, k, a, p)
      BY <1>16, <3>1 DEF HeldIn
    <3>3. s[a][p] # 0 /\ h[s[a][p]].self
      BY <3>2 DEF Sound, HeldSound
    <3>4. QED
      BY <1>13, <3>3
  <2>4. Counted(k[a][b].kind, k[a][b].body)
    BY <2>3 DEF Counted
  <2>5. QED
    BY <1>16, <2>1, <2>2, <2>3, <2>4, FineIsPositive
<1>17. ASSUME NEW a \in Aspace, NEW b \in Aspace, <<a, b>> # <<x, y>> PROVE ~Mentions(k[a][b].body, p)
  <2>1. SUFFICES ASSUME Mentions(k[a][b].body, p) PROVE FALSE
    OBVIOUS
  <2>2. BusyIn(h, k[a][b], p) >= 1
    BY <1>16, <2>1 DEF BusyIn
  <2>3. IsFiniteSet(DOMAIN D) /\ \A z \in DOMAIN D : D[z] \in Int
    BY <1>3, FiniteSets
  <2>4. <<x, y>> \in DOMAIN D /\ <<a, b>> \in DOMAIN D /\ D[<<x, y>>] = busy /\ D[<<a, b>>] = BusyIn(h, k[a][b], p)
    BY <1>3
  <2> HIDE DEF D
  <2>5. Positive(D[<<a, b>>]) + Positive(D[<<x, y>>]) <= Total(D)
    BY <1>17, <2>3, <2>4, TotalOfPair
  <2>6. D[<<a, b>>] >= 1 /\ D[<<a, b>>] \in Int /\ D[<<x, y>>] = busy
    BY <2>2, <2>3, <2>4
  <2> HIDE DEF busy
  <2>7. QED
    BY <1>8, <1>12, <2>5, <2>6 DEF Positive
<1>18. ASSUME k[x][y].kind # "return" \/ busy = 0 PROVE ~Mentions(k[x][y].body, p)
  <2>1. SUFFICES ASSUME Mentions(k[x][y].body, p) PROVE FALSE
    OBVIOUS
  <2>2. k[x][y].kind = "return" /\ SumOf(k[x][y].body, p) >= 1
    BY <1>16, <2>1
  <2>3. busy >= 1
    BY <2>2 DEF BusyIn
  <2>4. QED
    BY <1>18, <2>2, <2>3
<1>19. p \notin l[Owner]
  <2>1. SUFFICES ASSUME p \in l[Owner] PROVE FALSE
    OBVIOUS
  <2>2. HeldIn(l, k, Owner, p)
    BY <2>1 DEF HeldIn
  <2>3. QED
    BY <1>0, <2>2 DEF Sound, HeldSound
<1>20. QED
  BY <1>10, <1>12, <1>13, <1>14, <1>15, <1>17, <1>18, <1>19

-----------------------------------------------------------------------------
(* The steps.                                                              *)

IInv ==
  /\ TypeOK
  /\ Sound(slot, heap, live, wire, out, disp)
  /\ \A p \in Proxy : CountsSound(slot, heap, wire, out, disp, p)
  /\ \A p \in Proxy : FreeSound(slot, live, wire, out, disp, p)

\* The type invariant, with the state as arguments.
LEMMA TypesAre ==
  TypeOK <=> /\ StateOK(slot, heap, wire, out, disp)
             /\ live \in [Aspace -> SUBSET Proxy] /\ sends \in [Aspace -> Nat]
BY DEF TypeOK, StateOK, Slots, Heaps, WireOK, Outs, Disps

\* The program loses a proxy: no count moves.
LEMMA DropKeeps ==
  ASSUME IInv, NEW a \in Aspace, NEW p \in Proxy, Drop(a, p)
  PROVE  IInv'
<1>1. /\ live \in [Aspace -> SUBSET Proxy] /\ live' = [live EXCEPT ![a] = @ \ {p}]
      /\ UNCHANGED <<slot, heap, wire, out, disp, sends>>
  BY DEF Drop, IInv, TypeOK
<1>2. live' \in [Aspace -> SUBSET Proxy] /\ \A b \in Aspace : live'[b] \subseteq live[b]
  BY <1>1
<1>3. TypeOK'
  BY <1>1, <1>2 DEF IInv, TypeOK
<1>4. Sound(slot', heap', live', wire', out', disp')
  <2>1. HeldSound(slot, heap, live', disp)
    BY <1>2 DEF IInv, Sound, HeldSound, HeldIn
  <2>2. Sound(slot, heap, live', wire, out, disp)
    BY <2>1 DEF IInv, Sound
  <2>3. QED
    BY <1>1, <2>2
<1>5. ASSUME NEW q \in Proxy
      PROVE  CountsSound(slot', heap', wire', out', disp', q) /\ FreeSound(slot', live', wire', out', disp', q)
  <2>1. FreeSound(slot, live', wire, out, disp, q)
    BY <1>2, FiniteSets DEF IInv, FreeSound
  <2>2. CountsSound(slot, heap, wire, out, disp, q)
    BY DEF IInv
  <2>3. QED
    BY <1>1, <2>1, <2>2
<1>6. QED
  BY <1>3, <1>4, <1>5 DEF IInv

\* All the sums of the potential are numbers.
LEMMA SumsAreNumbers ==
  ASSUME NEW s, NEW h, NEW w, NEW o, NEW k, NEW p \in Proxy, StateOK(s, h, w, o, k)
  PROVE  /\ Total(VectorAt(s, h, p)) \in Nat /\ Total(WireAt(w, p)) \in Nat
         /\ Total(ThreadAt(o, p)) \in Nat /\ Total(DispAt(h, k, p)) \in Nat
         /\ Counts(s, h, w, o, k, p) \in Nat
         /\ Owed(h, o, p) \in Nat
         /\ Total(WaitingAt(h, p)) \in Nat /\ Total(LosingAt(h, o, p)) \in Nat
<1>1. Total(VectorAt(s, h, p)) \in Nat /\ Total(WireAt(w, p)) \in Nat
  BY VectorsNat, WireNat DEF StateOK
<1>2. Total(ThreadAt(o, p)) \in Nat /\ Total(DispAt(h, k, p)) \in Nat
  BY ThreadsNat, DispNat DEF StateOK
<1>3. Total(WaitingAt(h, p)) \in Nat /\ Total(LosingAt(h, o, p)) \in Nat
  BY WaitingNat, LosingNat DEF StateOK
<1>4. QED
  BY <1>1, <1>2, <1>3 DEF Counts, Owed

\* The potential does not grow, and is smaller when something is missing.
LEMMA CountsCarried ==
  ASSUME NEW s, NEW h, NEW w, NEW o, NEW k, NEW p \in Proxy, StateOK(s, h, w, o, k),
         NEW s2, NEW h2, NEW w2, NEW o2, NEW k2, StateOK(s2, h2, w2, o2, k2),
         CountsSound(s, h, w, o, k, p),
         Counts(s2, h2, w2, o2, k2, p) + Owed(h, o, p) <= Counts(s, h, w, o, k, p) + Owed(h2, o2, p),
         Clean(s, h, w, o, k, p) => Clean(s2, h2, w2, o2, k2, p) \/
           Counts(s2, h2, w2, o2, k2, p) + Owed(h, o, p) < Counts(s, h, w, o, k, p) + Owed(h2, o2, p)
  PROVE  CountsSound(s2, h2, w2, o2, k2, p)
<1> DEFINE C == Counts(s, h, w, o, k, p)
           C2 == Counts(s2, h2, w2, o2, k2, p)
           O == Owed(h, o, p)
           O2 == Owed(h2, o2, p)
           ok == Clean(s, h, w, o, k, p)
           ok2 == Clean(s2, h2, w2, o2, k2, p)
<1>1. C \in Nat /\ C2 \in Nat /\ O \in Nat /\ O2 \in Nat /\ BaseCount \in Nat
  BY SumsAreNumbers, ProxyCountsAssumption
<1>2. C <= BaseCount + O /\ (~ok => C < BaseCount + O)
  BY DEF CountsSound
<1>3. C2 + O <= C + O2 /\ (ok => ok2 \/ C2 + O < C + O2)
  OBVIOUS
<1> HIDE DEF C, C2, O, O2, ok, ok2
<1>4. C2 <= BaseCount + O2
  BY <1>1, <1>2, <1>3
<1>5. ASSUME ~ok2 PROVE C2 < BaseCount + O2
  <2>1. CASE ok
    BY <1>1, <1>2, <1>3, <1>5, <2>1
  <2>2. CASE ~ok
    BY <1>1, <1>2, <1>3, <2>2
  <2>3. QED
    BY <2>1, <2>2
<1>6. QED
  BY <1>4, <1>5 DEF CountsSound, C2, O2, ok2

\* The potential does not notice what is not a count, a proxy or a waiter.
LEMMA SameCounts ==
  ASSUME NEW s, NEW h, NEW w, NEW o, NEW k, NEW p \in Proxy, StateOK(s, h, w, o, k),
         NEW h2 \in Heaps, Recounted(h, h2), \A c \in Cell : h2[c].count = h[c].count
  PROVE  /\ Counts(s, h2, w, o, k, p) = Counts(s, h, w, o, k, p)
         /\ Owed(h2, o, p) = Owed(h, o, p)
         /\ Clean(s, h2, w, o, k, p) <=> Clean(s, h, w, o, k, p)
<1>1. s \in Slots /\ h \in Heaps /\ o \in Outs /\ k \in Disps
  BY DEF StateOK
<1>2. \A a \in Aspace : s[a][p] # 0 => s[a][p] \in Cell
  BY <1>1 DEF Slots
<1>3. \A a \in Aspace : LocalIn(s, h2, a, p) = LocalIn(s, h, a, p)
  BY <1>2 DEF LocalIn
<1>4. Total(VectorAt(s, h2, p)) = Total(VectorAt(s, h, p))
  BY <1>3, VectorsSame
<1>5. \A a, b \in Aspace : BusyIn(h2, k[a][b], p) = BusyIn(h, k[a][b], p)
  BY <1>1, RecountedFrame DEF Disps
<1>6. Total(DispAt(h2, k, p)) = Total(DispAt(h, k, p))
  BY <1>5, DispSame
<1>7. Owed(h2, o, p) = Owed(h, o, p)
  BY <1>1, RecountedFrame
<1>8. \A t \in Thread : \A i \in DOMAIN o[t].losers : o[t].losers[i] \in Cell
  BY <1>1, ListElements DEF Outs, Blocked
<1>9. Clean(s, h2, w, o, k, p) <=> Clean(s, h, w, o, k, p)
  BY <1>2, <1>8 DEF Clean, Recounted
<1>10. QED
  BY <1>4, <1>6, <1>7, <1>9 DEF Counts

\* The condition of the collector, with the state as arguments.
LEMMA HeldIs ==
  ASSUME NEW a, NEW p
  PROVE  Held(a, p) <=> HeldIn(live, disp, a, p)
BY DEF Held, HeldIn

\* A collection clears the weak pointers of the proxies that nothing refers to, no counts.
LEMMA CollectKeeps ==
  ASSUME IInv, NEW a \in Aspace, Collect(a)
  PROVE  IInv'
<1> DEFINE Lost(d) == \E p \in Proxy : slot[a][p] = d /\ ~HeldIn(live, disp, a, p)
<1>1. /\ heap' = [d \in Cell |-> IF Lost(d) THEN [heap[d] EXCEPT !.self = FALSE] ELSE heap[d]]
      /\ UNCHANGED <<slot, live, wire, out, disp, sends>>
  BY HeldIs DEF Collect
<1>2. StateOK(slot, heap, wire, out, disp)
  BY TypesAre DEF IInv
<1>3. \A d \in Cell : heap[d] \in ProxyData
  BY <1>2 DEF StateOK, Heaps
<1>4. \A d \in Cell : /\ heap'[d] \in ProxyData /\ heap'[d].count = heap[d].count
                      /\ heap'[d].proxy = heap[d].proxy /\ heap'[d].waiters = heap[d].waiters
                      /\ heap'[d].self = (heap[d].self /\ ~Lost(d))
  <2> SUFFICES ASSUME NEW d \in Cell
               PROVE  /\ heap'[d] \in ProxyData /\ heap'[d].count = heap[d].count
                      /\ heap'[d].proxy = heap[d].proxy /\ heap'[d].waiters = heap[d].waiters
                      /\ heap'[d].self = (heap[d].self /\ ~Lost(d))
    OBVIOUS
  <2>1. heap'[d] = IF Lost(d) THEN [heap[d] EXCEPT !.self = FALSE] ELSE heap[d]
    BY <1>1
  <2> HIDE DEF Lost
  <2>2. CASE Lost(d)
    BY <1>3, <2>1, <2>2 DEF ProxyData
  <2>3. CASE ~Lost(d)
    BY <1>3, <2>1, <2>3 DEF ProxyData
  <2>4. QED
    BY <2>2, <2>3
<1>5. heap' \in Heaps
  <2>1. heap' = [d \in Cell |-> heap'[d]]
    BY <1>1
  <2> HIDE DEF Lost
  <2>2. QED
    BY <1>4, <2>1 DEF Heaps
<1>6. Recounted(heap, heap')
  BY <1>4 DEF Recounted
<1>7. StateOK(slot, heap', wire, out, disp)
  BY <1>2, <1>5 DEF StateOK
<1>8. TypeOK'
  BY <1>1, <1>5 DEF IInv, TypeOK, Heaps
<1>9. HeldSound(slot, heap', live, disp)
  <2> SUFFICES ASSUME NEW b \in Aspace, NEW p \in Proxy, HeldIn(live, disp, b, p)
               PROVE  slot[b][p] # 0 /\ heap'[slot[b][p]].self
    BY DEF HeldSound
  <2>1. slot[b][p] # 0 /\ heap[slot[b][p]].self
    BY DEF IInv, Sound, HeldSound
  <2>2. slot[b][p] \in Cell
    BY <1>2, <2>1 DEF StateOK, Slots
  <2>3. ~Lost(slot[b][p])
    <3>1. SUFFICES ASSUME NEW q \in Proxy, slot[a][q] = slot[b][p], ~HeldIn(live, disp, a, q)
                   PROVE  FALSE
      OBVIOUS
    <3>2. a = b /\ heap[slot[b][p]].proxy = p /\ heap[slot[a][q]].proxy = q
      BY <2>1, <3>1 DEF IInv, Sound, SlotsSound
    <3>3. QED
      BY <3>1, <3>2
  <2> HIDE DEF Lost
  <2>4. QED
    BY <1>4, <2>1, <2>2, <2>3
<1>10. Sound(slot, heap', live, wire, out, disp)
  BY <1>2, <1>5, <1>6, <1>9, RecountedFrame DEF IInv, Sound, StateOK
<1>11. ASSUME NEW p \in Proxy
       PROVE  CountsSound(slot, heap', wire, out, disp, p)
  <2>1. CountsSound(slot, heap, wire, out, disp, p)
    BY DEF IInv
  <2>2. /\ Counts(slot, heap', wire, out, disp, p) = Counts(slot, heap, wire, out, disp, p)
        /\ Owed(heap', out, p) = Owed(heap, out, p)
        /\ Clean(slot, heap', wire, out, disp, p) <=> Clean(slot, heap, wire, out, disp, p)
    BY <1>2, <1>4, <1>5, <1>6, SameCounts
  <2>3. QED
    BY <2>1, <2>2 DEF CountsSound
<1>12. QED
  BY <1>1, <1>8, <1>10, <1>11 DEF IInv

\* What one dispatcher does.
Assigned(k, a, b, x) == [k EXCEPT ![a][b] = x]

\* The dispatchers, after one of them changed.
LEMMA DispatcherSet ==
  ASSUME NEW k \in Disps, NEW a \in Aspace, NEW b \in Aspace, NEW x \in Dispatcher
  PROVE  /\ Assigned(k, a, b, x) \in Disps /\ Assigned(k, a, b, x)[a][b] = x
         /\ \A c, d \in Aspace : c # a \/ d # b => Assigned(k, a, b, x)[c][d] = k[c][d]
         /\ \A c, d \in Aspace : k[c][d] \in Dispatcher /\ Assigned(k, a, b, x)[c][d] \in Dispatcher
<1> DEFINE k2 == Assigned(k, a, b, x)
<1>1. k \in [Aspace -> [Aspace -> Dispatcher]] /\ k[a] \in [Aspace -> Dispatcher]
  BY DEF Disps
<1>2. [k[a] EXCEPT ![b] = x] \in [Aspace -> Dispatcher]
  BY <1>1
<1>3. k2 = [k EXCEPT ![a] = [k[a] EXCEPT ![b] = x]]
  BY <1>1 DEF Assigned
<1>4. k2 \in Disps
  BY <1>1, <1>2, <1>3 DEF Disps
<1>5. k2[a] = [k[a] EXCEPT ![b] = x] /\ \A c \in Aspace : c # a => k2[c] = k[c]
  BY <1>1, <1>3
<1>6. k2[a][b] = x /\ \A d \in Aspace : d # b => k2[a][d] = k[a][d]
  BY <1>1, <1>5
<1>7. \A c, d \in Aspace : c # a \/ d # b => k2[c][d] = k[c][d]
  BY <1>5, <1>6
<1>8. \A c, d \in Aspace : k[c][d] \in Dispatcher /\ k2[c][d] \in Dispatcher
  BY <1>1, <1>4 DEF Disps
<1>9. QED
  BY <1>4, <1>6, <1>7, <1>8

\* An idle dispatcher has no message.
LEMMA IdleIs ==
  /\ Idle \in Dispatcher
  /\ \A a, b \in Aspace : \A s : DispatchSound(s, Idle, a, b)
  /\ \A h, p : BusyIn(h, Idle, p) = 0
  /\ \A p : ~Mentions(Idle.body, p) /\ Fine(Idle.kind, Idle.body, p)
<1>1. /\ Idle.stage = "idle" /\ Idle.body = <<>> /\ Idle.kind = "run" /\ Idle.low = <<>> /\ Idle.high = <<>>
      /\ Idle = [stage |-> Idle.stage, body |-> Idle.body, kind |-> Idle.kind, low |-> Idle.low, high |-> Idle.high]
  BY DEF Idle
<1>2. <<>> \in Body /\ <<>> \in Seq(Cell) /\ <<>> \in Seq([data : Cell, more : Nat \ {0}])
  BY DEF Body
<1>3. Idle \in Dispatcher
  BY <1>1, <1>2 DEF Dispatcher
<1>4. \A a, b \in Aspace : \A s : DispatchSound(s, Idle, a, b)
  BY <1>1 DEF DispatchSound, Routed
<1>5. ASSUME NEW h, NEW p PROVE BusyIn(h, Idle, p) = 0
  <2>1. DOMAIN LowAt(h, <<>>, p) = {}
    BY DEF LowAt
  <2>2. Total(LowAt(h, <<>>, p)) = 0
    BY <2>1, TotalOfNone
  <2>3. QED
    BY <1>1, <2>2 DEF BusyIn, LowSum
<1>6. \A p : ~Mentions(Idle.body, p) /\ Fine(Idle.kind, Idle.body, p)
  BY <1>1 DEF Mentions, Fine
<1>7. QED
  BY <1>3, <1>4, <1>5, <1>6

\* A dispatcher goes on with its message, or with none.
Resumes(d, x) == (x.kind = d.kind /\ x.body = d.body) \/ (x.kind = "run" /\ x.body = <<>>)

\* The dispatcher of an error.
Dead == [Idle EXCEPT !.stage = "dead"]

\* A dispatcher that an error killed has no message.
LEMMA DeadIs ==
  /\ Dead \in Dispatcher
  /\ \A a, b \in Aspace : \A s : DispatchSound(s, Dead, a, b)
  /\ \A h, p : BusyIn(h, Dead, p) = 0
  /\ \A d : Resumes(d, Dead)
<1>1. /\ Dead.stage = "dead" /\ Dead.body = <<>> /\ Dead.kind = "run" /\ Dead.low = <<>> /\ Dead.high = <<>>
      /\ Dead = [stage |-> Dead.stage, body |-> Dead.body, kind |-> Dead.kind, low |-> Dead.low, high |-> Dead.high]
  BY DEF Idle, Dead
<1>2. <<>> \in Body /\ <<>> \in Seq(Cell) /\ <<>> \in Seq([data : Cell, more : Nat \ {0}])
  BY DEF Body
<1>3. Dead \in Dispatcher
  BY <1>1, <1>2 DEF Dispatcher
<1>4. \A a, b \in Aspace : \A s : DispatchSound(s, Dead, a, b)
  BY <1>1 DEF DispatchSound, Routed
<1>5. ASSUME NEW h, NEW p PROVE BusyIn(h, Dead, p) = 0
  <2>1. DOMAIN LowAt(h, <<>>, p) = {}
    BY DEF LowAt
  <2>2. Total(LowAt(h, <<>>, p)) = 0
    BY <2>1, TotalOfNone
  <2>3. QED
    BY <1>1, <2>2 DEF BusyIn, LowSum
<1>6. \A d : Resumes(d, Dead)
  BY <1>1 DEF Resumes
<1>7. QED
  BY <1>3, <1>4, <1>5, <1>6

\* A dispatcher without a message, after its work or after an error.
LEMMA EndedIs ==
  ASSUME NEW x \in {Idle, Dead}
  PROVE  /\ x \in Dispatcher
         /\ \A a, b \in Aspace : \A s : DispatchSound(s, x, a, b)
         /\ \A h, p : BusyIn(h, x, p) = 0
         /\ \A p : ~Mentions(x.body, p) /\ Fine(x.kind, x.body, p)
<1>1. CASE x = Idle
  BY <1>1, IdleIs
<1>2. CASE x = Dead
  <2>1. x.body = <<>> /\ x.kind = "run"
    BY <1>2 DEF Dead, Idle
  <2>2. \A p : ~Mentions(x.body, p) /\ Fine(x.kind, x.body, p)
    BY <2>1 DEF Mentions, Fine
  <2>3. QED
    BY <1>2, <2>2, DeadIs
<1>3. QED
  BY <1>1, <1>2

\* A dispatcher is done with its message.
Finished(k, k2, a, b) ==
  /\ k2 \in Disps /\ k \in Disps
  /\ \A c, d \in Aspace : IF c = a /\ d = b THEN k2[c][d] \in {Idle, Dead} ELSE k2[c][d] = k[c][d]
  /\ \A h, p : /\ Total(DispAt(h, k2, p)) + BusyIn(h, k[a][b], p) = Total(DispAt(h, k, p))
               /\ Total(DispAt(h, k2, p)) <= Total(DispAt(h, k, p))
  /\ \A s : (\A c, d \in Aspace : DispatchSound(s, k[c][d], c, d))
              => \A c, d \in Aspace : DispatchSound(s, k2[c][d], c, d)
  /\ \A l, c, q : HeldIn(l, k2, c, q) /\ c \in Aspace => HeldIn(l, k, c, q)
  /\ \A p : (\A c, d \in Aspace : Fine(k[c][d].kind, k[c][d].body, p))
              => \A c, d \in Aspace : Fine(k2[c][d].kind, k2[c][d].body, p)
  /\ \A p : \A c, d \in Aspace : Mentions(k2[c][d].body, p)
                                   => Mentions(k[c][d].body, p) /\ (c # a \/ d # b)

\* A dispatcher that is done with its message becomes idle, or has died.
LEMMA DispatcherDone ==
  ASSUME NEW k \in Disps, NEW a \in Aspace, NEW b \in Aspace, NEW x \in {Idle, Dead}
  PROVE  Finished(k, Assigned(k, a, b, x), a, b)
<1> DEFINE k2 == Assigned(k, a, b, x)
<1>1. /\ k2 \in Disps /\ k2[a][b] = x
      /\ \A c, d \in Aspace : c # a \/ d # b => k2[c][d] = k[c][d]
  <2>1. x \in Dispatcher
    BY EndedIs
  <2>2. QED
    BY <2>1, DispatcherSet
<1> HIDE DEF k2
<1>2. \A c, d \in Aspace : IF c = a /\ d = b THEN k2[c][d] = x ELSE k2[c][d] = k[c][d]
  BY <1>1
<1>3. ASSUME NEW h, NEW p
      PROVE  /\ Total(DispAt(h, k2, p)) + BusyIn(h, k[a][b], p) = Total(DispAt(h, k, p))
             /\ Total(DispAt(h, k2, p)) <= Total(DispAt(h, k, p))
  <2>1. Total(DispAt(h, k2, p)) + BusyIn(h, k[a][b], p) = Total(DispAt(h, k, p)) + BusyIn(h, k2[a][b], p)
    <3>1. \A c, d \in Aspace : c # a \/ d # b => BusyIn(h, k2[c][d], p) = BusyIn(h, k[c][d], p)
      BY <1>1
    <3>2. QED
      BY <1>1, <3>1, DispChange
  <2>2. BusyIn(h, k2[a][b], p) = 0
    BY <1>1, EndedIs
  <2>3. Total(DispAt(h, k, p)) \in Nat /\ Total(DispAt(h, k2, p)) \in Nat
    BY <1>1, DispNat
  <2>4. BusyIn(h, k[a][b], p) \in Nat
    BY BusyIsNat DEF Disps
  <2>5. QED
    BY <2>1, <2>2, <2>3, <2>4
<1>4. ASSUME NEW s, \A c, d \in Aspace : DispatchSound(s, k[c][d], c, d)
      PROVE  \A c, d \in Aspace : DispatchSound(s, k2[c][d], c, d)
  BY <1>2, <1>4, EndedIs
<1>5. ASSUME NEW l, NEW c \in Aspace, NEW q, HeldIn(l, k2, c, q) PROVE HeldIn(l, k, c, q)
  <2>1. \A d \in Aspace : Mentions(k2[c][d].body, q) => k2[c][d] = k[c][d]
    BY <1>2, EndedIs
  <2>2. QED
    BY <1>5, <2>1 DEF HeldIn
<1>6. \A p : (\A c, d \in Aspace : Fine(k[c][d].kind, k[c][d].body, p))
               => \A c, d \in Aspace : Fine(k2[c][d].kind, k2[c][d].body, p)
  BY <1>2, EndedIs
<1>7. \A p : \A c, d \in Aspace : Mentions(k2[c][d].body, p) => Mentions(k[c][d].body, p) /\ (c # a \/ d # b)
  BY <1>2, EndedIs
<1>8. Finished(k, k2, a, b)
  BY <1>1, <1>2, <1>3, <1>4, <1>5, <1>6, <1>7 DEF Finished
<1>9. QED
  BY <1>8 DEF k2

\* The program of a receives the proxies of a decoded message; their counts moved before.
LEMMA ProcessRunKeeps ==
  ASSUME IInv, NEW a \in Aspace, NEW b \in Aspace, ProcessRun(a, b)
  PROVE  IInv'
<1> DEFINE new == {disp[a][b].body[i][1] : i \in DOMAIN disp[a][b].body}
<1>1. /\ live' = [live EXCEPT ![a] = @ \cup new] /\ disp' = Assigned(disp, a, b, Idle)
      /\ disp[a][b].kind = "run" /\ UNCHANGED <<slot, heap, wire, out, sends>>
  BY DEF ProcessRun, Processing, Done, Assigned
<1>2. StateOK(slot, heap, wire, out, disp) /\ live \in [Aspace -> SUBSET Proxy] /\ sends \in [Aspace -> Nat]
  BY TypesAre DEF IInv
<1>3. Finished(disp, disp', a, b) /\ disp \in Disps
  BY <1>1, <1>2, DispatcherDone DEF StateOK
<1>4. new \subseteq Proxy /\ \A p \in new : Mentions(disp[a][b].body, p)
  <2>1. disp[a][b].body \in Seq(Proxy \X Int \X (0 .. 3))
    BY <1>3 DEF Disps, Dispatcher, Body
  <2>2. \A i \in DOMAIN disp[a][b].body : disp[a][b].body[i] \in Proxy \X Int \X (0 .. 3)
    BY <2>1, ListElements
  <2>3. QED
    BY <2>2 DEF Mentions
<1> HIDE DEF new
<1>5. live' \in [Aspace -> SUBSET Proxy] /\ live'[a] = live[a] \cup new
      /\ \A c \in Aspace : c # a => live'[c] = live[c]
  BY <1>1, <1>2, <1>4
<1>6. StateOK(slot, heap, wire, out, disp')
  BY <1>2, <1>3 DEF StateOK, Finished
<1>7. TypeOK'
  BY <1>1, <1>2, <1>3, <1>5 DEF IInv, TypeOK, Disps, Finished
<1>8. \A c \in Aspace, p \in Proxy : HeldIn(live', disp', c, p) => HeldIn(live, disp, c, p)
  <2> SUFFICES ASSUME NEW c \in Aspace, NEW p \in Proxy, HeldIn(live', disp', c, p)
               PROVE  HeldIn(live, disp, c, p)
    OBVIOUS
  <2>1. HeldIn(live', disp, c, p)
    BY <1>3 DEF Finished
  <2>2. p \in live'[c] => p \in live[c] \/ (c = a /\ Mentions(disp[a][b].body, p))
    BY <1>4, <1>5
  <2>3. QED
    BY <1>1, <2>1, <2>2 DEF HeldIn
<1>9. Sound(slot, heap, live', wire, out, disp')
  BY <1>3, <1>8 DEF IInv, Sound, HeldSound, Finished
<1>10. ASSUME NEW p \in Proxy
       PROVE  CountsSound(slot, heap, wire, out, disp', p) /\ FreeSound(slot, live', wire, out, disp', p)
  <2>1. CountsSound(slot, heap, wire, out, disp, p) /\ FreeSound(slot, live, wire, out, disp, p)
    BY DEF IInv
  <2>2. Total(DispAt(heap, disp', p)) <= Total(DispAt(heap, disp, p))
    BY <1>3 DEF Finished
  <2>3. Counts(slot, heap, wire, out, disp', p) + Owed(heap, out, p) <= Counts(slot, heap, wire, out, disp, p) + Owed(heap, out, p)
    BY <1>2, <1>6, <2>2, SumsAreNumbers DEF Counts
  <2>4. Clean(slot, heap, wire, out, disp, p) => Clean(slot, heap, wire, out, disp', p)
    BY <1>3 DEF Clean, Finished
  <2>5. CountsSound(slot, heap, wire, out, disp', p)
    BY <1>2, <1>6, <2>1, <2>3, <2>4, CountsCarried
  <2>6. FreeSound(slot, live', wire, out, disp', p)
    <3>1. SUFFICES ASSUME slot[Owner][p] = 0
                   PROVE  p \notin live'[Owner] /\ \A c, d \in Aspace : ~Mentions(disp'[c][d].body, p)
      BY <2>1 DEF FreeSound
    <3>2. p \notin live[Owner] /\ \A c, d \in Aspace : ~Mentions(disp[c][d].body, p)
      BY <2>1, <3>1 DEF FreeSound
    <3>3. p \notin new
      BY <1>4, <3>2
    <3>4. QED
      BY <1>3, <1>5, <3>2, <3>3, FiniteSets DEF Finished
  <2>7. QED
    BY <2>5, <2>6
<1>11. QED
  BY <1>1, <1>7, <1>9, <1>10 DEF IInv

\* Messages to the program, and counts that were asked for, ask for none.
LEMMA FineOfRun ==
  ASSUME NEW body, NEW p
  PROVE  Fine("run", body, p) /\ Fine("counts", body, p)
BY DEF Fine

\* A thread that no proxy-data has for a waiter.
LEMMA NoPlaces ==
  ASSUME NEW h \in Heaps, NEW o, WaitersSound(h, o), NEW t \in Thread, o[t].stage # "waiting"
  PROVE  Total(PlacesAt(h, t)) = 0 /\ \A p : Total(PlacesFor(h, t, p)) = 0
<1>1. ASSUME NEW c \in Cell PROVE PlacesIn(h, c, t) = 0
  <2>1. {i \in DOMAIN h[c].waiters : h[c].waiters[i] = t} = {}
    BY DEF WaitersSound, WaiterSound
  <2>2. QED
    BY <2>1, FS_EmptySet DEF PlacesIn
<1>2. DOMAIN PlacesAt(h, t) = Cell /\ \A c \in Cell : PlacesAt(h, t)[c] = 0
  BY <1>1 DEF PlacesAt
<1>3. Total(PlacesAt(h, t)) = 0
  BY <1>2, TotalOfNone
<1>4. ASSUME NEW p PROVE Total(PlacesFor(h, t, p)) = 0
  <2>1. DOMAIN PlacesFor(h, t, p) = Cell /\ \A c \in Cell : PlacesFor(h, t, p)[c] = 0
    BY <1>1 DEF PlacesFor
  <2>2. QED
    BY <2>1, TotalOfNone
<1>5. QED
  BY <1>3, <1>4

\* A thread that sends nothing.
LEMMA NoThreadIs ==
  /\ NoThread \in Blocked /\ NoThread.body = <<>> /\ NoThread.losers = <<>> /\ NoThread.stage = "free"
  /\ NoThread.count = 0
<1>1. <<>> \in Body /\ <<>> \in Seq(Cell) /\ Owner \in Aspace
  BY FiniteSets DEF Body
<1>2. QED
  BY <1>1 DEF NoThread, Blocked

\* A released sender sends its message: its counts go from the thread to the wire.
LEMMA SendReadyKeeps ==
  ASSUME IInv, NEW t \in Thread, SendReady(t)
  PROVE  IInv'
<1> DEFINE m == Msg("run", out[t].from, out[t].to, out[t].body)
<1>1. /\ out[t].stage = "ready" /\ wire' = Post(wire, m) /\ out' = [out EXCEPT ![t] = NoThread]
      /\ UNCHANGED <<slot, heap, live, disp, sends>>
  BY DEF SendReady
<1>2. StateOK(slot, heap, wire, out, disp) /\ live \in [Aspace -> SUBSET Proxy] /\ sends \in [Aspace -> Nat]
  BY TypesAre DEF IInv
<1>3. out \in [Thread -> Blocked] /\ out[t] \in Blocked /\ heap \in Heaps /\ WireOK(wire)
  BY <1>2 DEF StateOK, Outs
<1>4. m \in Message /\ m.kind = "run" /\ m.body = out[t].body
  BY <1>3 DEF Msg, Message, Blocked
<1> HIDE DEF m
<1>5. out' \in Outs /\ out'[t] = NoThread /\ \A u \in Thread : u # t => out'[u] = out[u]
  <2>1. NoThread \in Blocked
    BY NoThreadIs
  <2>2. QED
    BY <1>1, <1>3, <2>1 DEF Outs
<1>6. /\ WireOK(wire') /\ DOMAIN wire' = DOMAIN wire \cup {m}
      /\ \A p : Total(WireAt(wire', p)) = Total(WireAt(wire, p)) + SumOf(m.body, p)
  BY <1>1, <1>3, <1>4, Posted
<1>7. StateOK(slot, heap, wire', out', disp)
  BY <1>2, <1>5, <1>6 DEF StateOK
<1>8. TypeOK'
  BY <1>1, <1>2, <1>5, <1>6 DEF IInv, TypeOK, Outs, WireOK
<1>9. /\ \A n \in DOMAIN wire : MessageSound(n)
      /\ \A u \in Thread : ThreadSound(heap, out, u)
      /\ WaitersSound(heap, out)
  BY DEF IInv, Sound
<1>10. \A n \in DOMAIN wire' : MessageSound(n)
  <2>1. MessageSound(m)
    BY <1>4, <1>9 DEF MessageSound, Routed, Counted, ThreadSound
  <2>2. QED
    BY <1>6, <1>9, <2>1
<1>11. ASSUME NEW u \in Thread PROVE ThreadSound(heap, out', u)
  <2>1. CASE u = t
    <3>1. out'[u].stage = "free" /\ out'[u].body = <<>> /\ out'[u].losers = <<>>
      BY <1>5, <2>1, NoThreadIs
    <3>2. \A p : Total(PlacesFor(heap, u, p)) = 0
      BY <1>1, <1>3, <1>9, <2>1, NoPlaces
    <3>3. \A p : SumOf(<<>>, p) = 0
      BY SumOfEmpty
    <3>4. \A p : LosingIn(heap, out', u, p) = 0
      BY <3>1 DEF LosingIn
    <3>5. QED
      BY <3>1, <3>2, <3>3, <3>4 DEF ThreadSound
  <2>2. CASE u # t
    <3>1. out'[u] = out[u]
      BY <1>5, <2>2
    <3>2. QED
      BY <1>9, <3>1 DEF ThreadSound, LosingIn
  <2>3. QED
    BY <2>1, <2>2
<1>12. WaitersSound(heap, out')
  <2> SUFFICES ASSUME NEW c \in Cell, NEW i \in DOMAIN heap[c].waiters
               PROVE  WaiterSound(out', heap[c].waiters[i], c)
    BY DEF WaitersSound
  <2>1. WaiterSound(out, heap[c].waiters[i], c)
    BY <1>9 DEF WaitersSound
  <2>2. heap[c].waiters[i] \in Thread
    BY <1>3, PlacesAre
  <2>3. heap[c].waiters[i] # t
    BY <1>1, <2>1 DEF WaiterSound
  <2>4. out'[heap[c].waiters[i]] = out[heap[c].waiters[i]]
    BY <1>5, <2>2, <2>3
  <2>5. QED
    BY <2>1, <2>4 DEF WaiterSound
<1>13. Sound(slot, heap, live, wire', out', disp)
  BY <1>10, <1>11, <1>12 DEF IInv, Sound
<1>14. ASSUME NEW p \in Proxy
       PROVE  CountsSound(slot, heap, wire', out', disp, p) /\ FreeSound(slot, live, wire', out', disp, p)
  <2>1. CountsSound(slot, heap, wire, out, disp, p) /\ FreeSound(slot, live, wire, out, disp, p)
    BY DEF IInv
  <2>2. Total(ThreadAt(out', p)) + SumOf(out[t].body, p) = Total(ThreadAt(out, p)) + 0
    <3>1. Total(ThreadAt(out', p)) + SumOf(out[t].body, p) = Total(ThreadAt(out, p)) + SumOf(out'[t].body, p)
      BY <1>3, <1>5, ThreadsChange DEF Outs
    <3>2. SumOf(out'[t].body, p) = 0
      BY <1>5, NoThreadIs, SumOfEmpty
    <3>3. QED
      BY <3>1, <3>2
  <2>3. Total(WireAt(wire', p)) = Total(WireAt(wire, p)) + SumOf(out[t].body, p)
    BY <1>4, <1>6
  <2>4. SumOf(out[t].body, p) \in Nat
    BY <1>3, SumIsNumber DEF Blocked
  <2>5. Owed(heap, out', p) = Owed(heap, out, p)
    <3>1. \A u \in Thread : LosingIn(heap, out', u, p) = LosingIn(heap, out, u, p)
      BY <1>1, <1>5, NoThreadIs DEF LosingIn
    <3>2. Total(LosingAt(heap, out', p)) = Total(LosingAt(heap, out, p))
      BY <3>1, LosingSame
    <3>3. QED
      BY <3>2 DEF Owed
  <2>6. Counts(slot, heap, wire', out', disp, p) = Counts(slot, heap, wire, out, disp, p)
    BY <1>2, <1>7, <2>2, <2>3, <2>4, SumsAreNumbers DEF Counts
  <2>7. Clean(slot, heap, wire, out, disp, p) => Clean(slot, heap, wire', out', disp, p)
    <3>1. SUFFICES ASSUME Clean(slot, heap, wire, out, disp, p)
                   PROVE  /\ \A n \in DOMAIN wire' : Fine(n.kind, n.body, p)
                          /\ \A u \in Thread : \A i \in DOMAIN out'[u].losers : heap[out'[u].losers[i]].proxy # p
      BY DEF Clean
    <3>2. \A n \in DOMAIN wire' : Fine(n.kind, n.body, p)
      BY <1>4, <1>6, <3>1, FineOfRun DEF Clean
    <3>3. \A u \in Thread : u = t \/ out'[u] = out[u]
      BY <1>5
    <3>4. out'[t].losers = <<>>
      BY <1>5, NoThreadIs
    <3>5. QED
      BY <3>1, <3>2, <3>3, <3>4 DEF Clean
  <2>8. CountsSound(slot, heap, wire', out', disp, p)
    <3>1. Owed(heap, out, p) \in Nat /\ Counts(slot, heap, wire, out, disp, p) \in Nat
      BY <1>2, SumsAreNumbers
    <3>2. Counts(slot, heap, wire', out', disp, p) + Owed(heap, out, p)
            <= Counts(slot, heap, wire, out, disp, p) + Owed(heap, out', p)
      BY <2>5, <2>6, <3>1
    <3>3. QED
      BY <1>2, <1>7, <2>1, <2>7, <3>2, CountsCarried
  <2>9. FreeSound(slot, live, wire', out', disp, p)
    <3>1. SUFFICES ASSUME slot[Owner][p] = 0
                   PROVE  /\ \A n \in DOMAIN wire' : ~Mentions(n.body, p)
                          /\ \A u \in Thread : ~Mentions(out'[u].body, p)
      BY <2>1 DEF FreeSound
    <3>2. /\ \A n \in DOMAIN wire : ~Mentions(n.body, p)
          /\ \A u \in Thread : ~Mentions(out[u].body, p)
      BY <2>1, <3>1 DEF FreeSound
    <3>3. ~Mentions(NoThread.body, p)
      BY NoThreadIs DEF Mentions
    <3>4. QED
      BY <1>4, <1>5, <1>6, <3>2, <3>3
  <2>10. QED
    BY <2>8, <2>9
<1>15. QED
  BY <1>1, <1>8, <1>13, <1>14 DEF IInv

\* The items of a message.
LEMMA BodyItems ==
  ASSUME NEW body \in Body
  PROVE  /\ DOMAIN body = 1 .. Len(body) /\ Len(body) \in Nat
         /\ \A i \in DOMAIN body : /\ body[i] \in Proxy \X Int \X (0 .. 3) /\ body[i][1] \in Proxy /\ body[i][2] \in Int
                                   /\ Mentions(body, body[i][1])
<1>1. body \in Seq(Proxy \X Int \X (0 .. 3))
  BY DEF Body
<1>2. DOMAIN body = 1 .. Len(body) /\ Len(body) \in Nat /\ \A i \in DOMAIN body : body[i] \in Proxy \X Int \X (0 .. 3)
  BY <1>1, ListElements
<1>3. QED
  BY <1>2 DEF Mentions

\* The message that requests counts has none.
LEMMA UidsAre ==
  ASSUME NEW ps \in Seq(Proxy)
  PROVE  /\ Uids(ps) \in Body
         /\ \A p : SumOf(Uids(ps), p) = 0
         /\ \A p : Mentions(Uids(ps), p) <=> \E i \in DOMAIN ps : ps[i] = p
<1>1. DOMAIN ps = 1 .. Len(ps) /\ Len(ps) \in Nat /\ \A i \in DOMAIN ps : ps[i] \in Proxy
  BY ListElements
<1>2. DOMAIN Uids(ps) = DOMAIN ps /\ \A i \in DOMAIN ps : Uids(ps)[i] = <<ps[i], 0, 0>>
  BY DEF Uids
<1>3. Uids(ps) \in Seq(Proxy \X Int \X (0 .. 3))
  <2>1. Uids(ps) \in [1 .. Len(ps) -> Proxy \X Int \X (0 .. 3)]
    BY <1>1 DEF Uids
  <2>2. QED
    BY <1>1, <2>1
<1>4. ASSUME NEW p PROVE SumOf(Uids(ps), p) = 0
  <2>1. DOMAIN CountAt(Uids(ps), p) = DOMAIN ps
    BY <1>2 DEF CountAt
  <2>2. \A i \in DOMAIN ps : CountAt(Uids(ps), p)[i] = 0
    BY <1>2 DEF CountAt
  <2>3. Total(CountAt(Uids(ps), p)) = 0
    BY <2>1, <2>2, TotalOfNone
  <2>4. QED
    BY <2>3 DEF SumOf, CountAt
<1>5. \A p : Mentions(Uids(ps), p) <=> \E i \in DOMAIN ps : ps[i] = p
  BY <1>2 DEF Mentions
<1>6. QED
  BY <1>3, <1>4, <1>5 DEF Body

\* A proxy-data that has a waiter lacks counts.
LEMMA WaitersAreUnclean ==
  ASSUME NEW s, NEW h \in Heaps, NEW w, NEW o, NEW k, NEW p, WaitersSound(h, o), NEW c \in Cell,
         h[c].proxy = p, h[c].waiters # <<>>
  PROVE  ~Clean(s, h, w, o, k, p)
<1>1. h[c].waiters \in Seq(Thread)
  BY PlacesAre
<1>2. 1 \in DOMAIN h[c].waiters /\ h[c].waiters[1] \in Thread
  BY <1>1
<1>3. WaiterSound(o, h[c].waiters[1], c)
  BY <1>2 DEF WaitersSound
<1>4. QED
  BY <1>2, <1>3 DEF WaiterSound, Clean

\* The wire after a step that posts at most one message.
PostedOrNot(w, w2, m) == w2 = w \/ w2 = Post(w, m)

\* The counts asked for have been added when they were decoded; if there are still waiters the owner is asked again.
LEMMA ProcessCountsKeeps ==
  ASSUME IInv, NEW a \in Aspace, NEW b \in Aspace, ProcessCounts(a, b)
  PROVE  IInv'
<1> DEFINE body == disp[a][b].body
           ps == [i \in DOMAIN body |-> body[i][1]]
           S == {ps[i] : i \in {j \in DOMAIN ps : heap[slot[a][ps[j]]].waiters # <<>>}}
           again == ListOf(S)
           m == Msg("request", a, b, Uids(again))
           Shown(d) == heap[d].waiters = <<>> /\ \E i \in DOMAIN ps : slot[a][ps[i]] = d
<1>1. /\ disp[a][b].kind = "counts" /\ disp' = Assigned(disp, a, b, Idle)
      /\ heap' = [d \in Cell |-> IF Shown(d) THEN [heap[d] EXCEPT !.asked = FALSE] ELSE heap[d]]
      /\ PostedOrNot(wire, wire', m)
      /\ UNCHANGED <<slot, live, out, sends>>
  BY DEF ProcessCounts, Processing, Done, Assigned, PostedOrNot
<1>2. StateOK(slot, heap, wire, out, disp) /\ live \in [Aspace -> SUBSET Proxy] /\ sends \in [Aspace -> Nat]
  BY TypesAre DEF IInv
<1>3. heap \in Heaps /\ WireOK(wire) /\ disp \in Disps /\ slot \in Slots /\ out \in Outs
      /\ Sound(slot, heap, live, wire, out, disp)
  BY <1>2 DEF StateOK, IInv
<1>4. body \in Body
  BY <1>3 DEF Disps, Dispatcher
<1>5. \A p \in S : /\ p \in Proxy /\ Mentions(body, p)
                   /\ slot[a][p] \in Cell /\ heap[slot[a][p]].proxy = p /\ heap[slot[a][p]].waiters # <<>>
  <2> SUFFICES ASSUME NEW p \in S
               PROVE  /\ p \in Proxy /\ Mentions(body, p)
                      /\ slot[a][p] \in Cell /\ heap[slot[a][p]].proxy = p /\ heap[slot[a][p]].waiters # <<>>
    OBVIOUS
  <2>1. PICK i \in DOMAIN body : p = body[i][1] /\ heap[slot[a][body[i][1]]].waiters # <<>>
    OBVIOUS
  <2>2. p \in Proxy /\ Mentions(body, p)
    BY <1>4, <2>1, BodyItems
  <2>3. HeldIn(live, disp, a, p)
    BY <1>1, <2>2 DEF HeldIn
  <2>4. slot[a][p] # 0
    BY <1>3, <2>2, <2>3 DEF Sound, HeldSound
  <2>5. slot[a][p] \in Cell /\ heap[slot[a][p]].proxy = p
    <3>1. slot[a][p] \in Cell \cup {0}
      BY <1>3, <2>2 DEF Slots
    <3>2. SlotsSound(slot, heap)
      BY <1>3 DEF Sound
    <3>3. QED
      BY <2>2, <2>4, <3>1, <3>2 DEF SlotsSound
  <2>6. QED
    BY <2>1, <2>2, <2>5
<1>6. again \in Seq(Proxy) /\ \A i \in DOMAIN again : again[i] \in S
  <2>1. S \subseteq Proxy
    BY <1>5
  <2> HIDE DEF S
  <2>2. IsFiniteSet(S)
    BY <2>1, FiniteSets, FS_Subset
  <2>3. again \in Seq(S)
    BY <2>2, ListOfSet
  <2> HIDE DEF again
  <2>4. \A i \in DOMAIN again : again[i] \in S
    BY <2>3, ListElements
  <2>5. QED
    BY <2>1, <2>3
<1> HIDE DEF S, again
<1>7. b = Owner
  BY <1>1, <1>3 DEF Sound, DispatchSound, Routed
<1>8. /\ m \in Message /\ m.kind = "request" /\ m.body = Uids(again)
      /\ MessageSound(m)
  <2>1. Uids(again) \in Body
    BY <1>6, UidsAre
  <2>2. m \in Message /\ m.kind = "request" /\ m.body = Uids(again) /\ m.to = b
    BY <2>1 DEF Msg, Message
  <2>3. QED
    BY <1>7, <2>2 DEF MessageSound, Routed, Counted
<1>9. \A p : Mentions(m.body, p) => p \in S
  BY <1>6, <1>8, UidsAre
<1>10. \A p : SumOf(m.body, p) = 0
  BY <1>6, <1>8, UidsAre
<1> HIDE DEF m, ps
<1>11. /\ WireOK(wire') /\ DOMAIN wire' \subseteq DOMAIN wire \cup {m}
       /\ \A p \in Proxy : Total(WireAt(wire', p)) = Total(WireAt(wire, p))
  <2>1. CASE wire' = wire
    BY <1>3, <2>1
  <2>2. CASE wire' = Post(wire, m)
    <3>1. /\ WireOK(wire') /\ DOMAIN wire' = DOMAIN wire \cup {m}
          /\ \A p : Total(WireAt(wire', p)) = Total(WireAt(wire, p)) + SumOf(m.body, p)
      <4>1. WireOK(wire) /\ m \in Message
        BY <1>3, <1>8
      <4>2. QED
        BY <2>2, <4>1, Posted
    <3>2. \A p \in Proxy : Total(WireAt(wire, p)) \in Nat
      BY <1>3, WireNat
    <3>3. QED
      BY <1>10, <3>1, <3>2
  <2>3. QED
    BY <1>1, <2>1, <2>2 DEF PostedOrNot
<1>12. \A d \in Cell : /\ heap'[d] \in ProxyData /\ heap'[d].count = heap[d].count
                       /\ heap'[d].proxy = heap[d].proxy /\ heap'[d].waiters = heap[d].waiters
                       /\ heap'[d].self = heap[d].self
  <2> SUFFICES ASSUME NEW d \in Cell
               PROVE  /\ heap'[d] \in ProxyData /\ heap'[d].count = heap[d].count
                      /\ heap'[d].proxy = heap[d].proxy /\ heap'[d].waiters = heap[d].waiters
                      /\ heap'[d].self = heap[d].self
    OBVIOUS
  <2>1. heap'[d] = (IF Shown(d) THEN [heap[d] EXCEPT !.asked = FALSE] ELSE heap[d]) /\ heap[d] \in ProxyData
    BY <1>1, <1>3 DEF Heaps
  <2> HIDE DEF Shown
  <2>2. CASE Shown(d)
    BY <2>1, <2>2 DEF ProxyData
  <2>3. CASE ~Shown(d)
    BY <2>1, <2>3
  <2>4. QED
    BY <2>2, <2>3
<1>13. heap' \in Heaps
  <2>1. heap' = [d \in Cell |-> heap'[d]]
    BY <1>1
  <2> HIDE DEF Shown
  <2>2. QED
    BY <1>12, <2>1 DEF Heaps
<1> HIDE DEF Shown
<1>14. Recounted(heap, heap')
  BY <1>12 DEF Recounted
<1>15. Finished(disp, disp', a, b)
  BY <1>1, <1>3, DispatcherDone
<1>16. StateOK(slot, heap', wire', out, disp') /\ StateOK(slot, heap', wire, out, disp)
  BY <1>2, <1>11, <1>13, <1>15 DEF StateOK, Finished
<1>17. TypeOK'
  BY <1>1, <1>2, <1>11, <1>13, <1>15 DEF IInv, TypeOK, Heaps, WireOK, Finished, Disps
<1>18. Sound(slot, heap', live, wire', out, disp')
  <2>1. HeldSound(slot, heap', live, disp')
    <3> SUFFICES ASSUME NEW c \in Aspace, NEW p \in Proxy, HeldIn(live, disp', c, p)
                 PROVE  slot[c][p] # 0 /\ heap'[slot[c][p]].self
      BY DEF HeldSound
    <3>1. HeldIn(live, disp, c, p)
      BY <1>15 DEF Finished
    <3>2. slot[c][p] # 0 /\ heap[slot[c][p]].self
      BY <1>3, <3>1 DEF Sound, HeldSound
    <3>3. QED
      BY <1>3, <1>12, <3>2 DEF Slots
  <2>2. \A n \in DOMAIN wire' : MessageSound(n)
    BY <1>3, <1>8, <1>11 DEF Sound
  <2>3. \A c, d \in Aspace : DispatchSound(slot, disp'[c][d], c, d)
    BY <1>3, <1>15 DEF Finished, Sound
  <2>4. QED
    BY <1>3, <1>13, <1>14, <2>1, <2>2, <2>3, RecountedFrame DEF Sound
<1>19. ASSUME NEW p \in Proxy
       PROVE  CountsSound(slot, heap', wire', out, disp', p) /\ FreeSound(slot, live, wire', out, disp', p)
  <2>1. CountsSound(slot, heap, wire, out, disp, p) /\ FreeSound(slot, live, wire, out, disp, p)
    BY DEF IInv
  <2>2. /\ Counts(slot, heap', wire, out, disp, p) = Counts(slot, heap, wire, out, disp, p)
        /\ Owed(heap', out, p) = Owed(heap, out, p)
        /\ Clean(slot, heap', wire, out, disp, p) <=> Clean(slot, heap, wire, out, disp, p)
    BY <1>2, <1>12, <1>13, <1>14, SameCounts
  <2>3. Total(DispAt(heap', disp', p)) <= Total(DispAt(heap', disp, p))
    BY <1>15 DEF Finished
  <2>4. Counts(slot, heap', wire', out, disp', p) + Owed(heap, out, p)
          <= Counts(slot, heap, wire, out, disp, p) + Owed(heap', out, p)
    <3>1. Total(WireAt(wire', p)) = Total(WireAt(wire, p))
      BY <1>11
    <3>2. Counts(slot, heap', wire', out, disp', p) <= Counts(slot, heap', wire, out, disp, p)
      BY <1>16, <2>3, <3>1, SumsAreNumbers DEF Counts
    <3>3. Owed(heap, out, p) \in Nat /\ Counts(slot, heap', wire', out, disp', p) \in Nat
          /\ Counts(slot, heap', wire, out, disp, p) \in Nat
      BY <1>2, <1>16, SumsAreNumbers
    <3>4. QED
      BY <2>2, <3>2, <3>3
  <2>5. Clean(slot, heap, wire, out, disp, p) => Clean(slot, heap', wire', out, disp', p)
    <3>1. SUFFICES ASSUME Clean(slot, heap', wire, out, disp, p), Clean(slot, heap, wire, out, disp, p)
                   PROVE  Clean(slot, heap', wire', out, disp', p)
      BY <2>2
    <3>2. \A c, d \in Aspace : Fine(disp'[c][d].kind, disp'[c][d].body, p)
      BY <1>15, <3>1 DEF Finished, Clean
    <3>3. p \notin S
      BY <1>3, <1>5, <3>1, WaitersAreUnclean DEF Sound
    <3>4. Fine(m.kind, m.body, p)
      BY <1>9, <3>3 DEF Fine, Mentions
    <3>5. QED
      BY <1>11, <3>1, <3>2, <3>4 DEF Clean
  <2>6. CountsSound(slot, heap', wire', out, disp', p)
    BY <1>2, <1>16, <2>1, <2>4, <2>5, CountsCarried
  <2>7. FreeSound(slot, live, wire', out, disp', p)
    <3>1. SUFFICES ASSUME slot[Owner][p] = 0
                   PROVE  /\ \A n \in DOMAIN wire' : ~Mentions(n.body, p)
                          /\ \A c, d \in Aspace : ~Mentions(disp'[c][d].body, p)
      BY <2>1 DEF FreeSound
    <3>2. /\ \A n \in DOMAIN wire : ~Mentions(n.body, p)
          /\ \A c, d \in Aspace : ~Mentions(disp[c][d].body, p)
      BY <2>1, <3>1 DEF FreeSound
    <3>3. ~Mentions(m.body, p)
      BY <1>5, <1>9, <3>2
    <3>4. \A c, d \in Aspace : ~Mentions(disp'[c][d].body, p)
      BY <1>15, <3>2 DEF Finished
    <3>5. QED
      BY <1>11, <3>2, <3>3, <3>4
  <2>8. QED
    BY <2>6, <2>7
<1>20. QED
  BY <1>1, <1>17, <1>18, <1>19 DEF IInv

\* A message with one item of p.
LEMMA SumOfOnly ==
  ASSUME NEW body \in Body, NEW p, NEW i \in DOMAIN body, body[i][1] = p,
         \A j \in DOMAIN body : body[j][1] = p => j = i
  PROVE  SumOf(body, p) = Positive(body[i][2])
<1> DEFINE f == CountAt(body, p)
           g == [j \in DOMAIN body \ {i} |-> 0]
<1>1. IsFiniteSet(DOMAIN f) /\ DOMAIN f = DOMAIN body /\ \A j \in DOMAIN f : f[j] \in Int
  BY SumIsNumber DEF CountAt
<1>2. f[i] = body[i][2] /\ \A j \in DOMAIN body \ {i} : f[j] = 0
  BY DEF CountAt
<1>3. DOMAIN g = DOMAIN f \ {i} /\ \A j \in DOMAIN g : g[j] = f[j] /\ g[j] = 0
  BY <1>1, <1>2
<1> HIDE DEF f, g
<1>4. Total(f) = Total(g) + Positive(f[i])
  BY <1>1, <1>3, TotalWithout
<1>5. Total(g) = 0
  BY <1>3, TotalOfNone
<1>6. Positive(f[i]) \in Int
  BY <1>1 DEF Positive
<1>7. Total(f) = Positive(body[i][2])
  BY <1>2, <1>4, <1>5, <1>6
<1>8. QED
  BY <1>7 DEF f, SumOf, CountAt

\* A message that does not mention p has no counts of it.
LEMMA SumOfUnmentioned ==
  ASSUME NEW body, NEW p, ~Mentions(body, p)
  PROVE  SumOf(body, p) = 0
<1>1. DOMAIN CountAt(body, p) = DOMAIN body /\ \A i \in DOMAIN body : CountAt(body, p)[i] = 0
  BY DEF CountAt, Mentions
<1>2. Total(CountAt(body, p)) = 0
  BY <1>1, TotalOfNone
<1>3. QED
  BY <1>2 DEF SumOf, CountAt

\* The message that returns the counts of the proxies in S.
Returns(S, n, g) == ListOf({<<p, n[p], g[p]>> : p \in S})

\* The message that returns the counts of the dead proxies has those, and no others.
LEMMA ReturnsAre ==
  ASSUME NEW S, S \subseteq Proxy, NEW n, NEW t, \A p \in S : n[p] \in Int /\ t[p] \in 0 .. 3
  PROVE  LET body == Returns(S, n, t) IN
         /\ body \in Body
         /\ \A p \in Proxy : SumOf(body, p) = IF p \in S THEN Positive(n[p]) ELSE 0
         /\ \A i \in DOMAIN body : body[i][1] \in S /\ body[i][2] = n[body[i][1]]
<1> DEFINE body == Returns(S, n, t)
           items == {<<p, n[p], t[p]>> : p \in S}
           g == [p \in S |-> <<p, n[p], t[p]>>]
<1>1. IsFiniteSet(S)
  BY FiniteSets, FS_Subset
<1>2. g \in Surjection(S, items)
  BY DEF Surjection
<1>3. IsFiniteSet(items)
  <2> HIDE DEF items, g
  <2>1. QED
    BY <1>1, <1>2, FS_Surjection
<1>4. body = ListOf(items)
  BY DEF Returns
<1>5. items \subseteq Proxy \X Int \X (0 .. 3)
  OBVIOUS
<1>6. \A x \in items : x[1] \in S /\ x[2] = n[x[1]] /\ x = <<x[1], n[x[1]], t[x[1]]>>
  OBVIOUS
<1>7. \A p \in S : <<p, n[p], t[p]>> \in items
  OBVIOUS
<1> HIDE DEF items, body
<1>8. /\ body \in Seq(items)
      /\ \A x \in items : \E i \in DOMAIN body : body[i] = x
      /\ \A i, j \in DOMAIN body : body[i] = body[j] => i = j
  <2>1. /\ ListOf(items) \in Seq(items)
        /\ \A x \in items : \E i \in DOMAIN ListOf(items) : ListOf(items)[i] = x
        /\ \A i, j \in DOMAIN ListOf(items) : ListOf(items)[i] = ListOf(items)[j] => i = j
    BY <1>3, ListOfSet
  <2>2. QED
    BY <1>4, <2>1
<1>9. \A i \in DOMAIN body : body[i] \in items
  BY <1>8, ListElements
<1>10. body \in Body
  <2>1. body \in Seq(Proxy \X Int \X (0 .. 3))
    BY <1>5, <1>8, ListWiden
  <2>2. QED
    BY <2>1 DEF Body
<1>11. \A i \in DOMAIN body : body[i][1] \in S /\ body[i][2] = n[body[i][1]] /\ body[i] = <<body[i][1], n[body[i][1]], t[body[i][1]]>>
  BY <1>6, <1>9
<1>12. ASSUME NEW p \in Proxy PROVE SumOf(body, p) = IF p \in S THEN Positive(n[p]) ELSE 0
  <2>1. CASE p \in S
    <3>1. PICK i \in DOMAIN body : body[i] = <<p, n[p], t[p]>>
      BY <1>7, <1>8, <2>1
    <3>2. ASSUME NEW j \in DOMAIN body, body[j][1] = p PROVE j = i
      <4>1. body[j] = body[i]
        BY <1>11, <3>1, <3>2
      <4>2. QED
        BY <1>8, <4>1
    <3>3. SumOf(body, p) = Positive(body[i][2])
      BY <1>10, <3>1, <3>2, SumOfOnly
    <3>4. QED
      BY <2>1, <3>1, <3>3
  <2>2. CASE p \notin S
    <3>1. ~Mentions(body, p)
      BY <1>11, <2>2 DEF Mentions
    <3>2. QED
      BY <2>2, <3>1, SumOfUnmentioned
  <2>3. QED
    BY <2>1, <2>2
<1>13. QED
  BY <1>10, <1>11, <1>12 DEF body

\* gc-proxies takes the dead proxies from the vector and returns their counts: the owner frees
\* its own only when it has all counts.
LEMMA GcProxiesKeeps ==
  ASSUME IInv, NEW a \in Aspace, GcProxies(a)
  PROVE  IInv'
<1> DEFINE dead == FindDeadProxies(a)
           n == [p \in dead |-> heap[slot[a][p]].count]
           g == [p \in dead |-> heap[slot[a][p]].tag]
           body == Returns(dead, n, g)
           m == Msg("return", a, Owner, body)
<1>1. /\ slot' = [slot EXCEPT ![a] = [p \in Proxy |-> IF p \in dead THEN 0 ELSE @[p]]]
      /\ wire' = IF a = Owner THEN wire ELSE Post(wire, m)
      /\ UNCHANGED <<heap, live, out, disp, sends>>
  <2> DEFINE counts == [p \in dead |-> <<p, heap[slot[a][p]].count, heap[slot[a][p]].tag>>]
  <2>1. {counts[p] : p \in dead} = {<<p, n[p], g[p]>> : p \in dead}
    OBVIOUS
  <2>2. /\ slot' = [slot EXCEPT ![a] = [p \in Proxy |-> IF p \in dead THEN 0 ELSE @[p]]]
        /\ wire' = IF a = Owner THEN wire ELSE Post(wire, Msg("return", a, Owner, ListOf({counts[p] : p \in dead})))
        /\ UNCHANGED <<heap, live, out, disp, sends>>
    BY DEF GcProxies
  <2>3. QED
    BY <2>1, <2>2 DEF Returns
<1>2. StateOK(slot, heap, wire, out, disp) /\ live \in [Aspace -> SUBSET Proxy] /\ sends \in [Aspace -> Nat]
  BY TypesAre DEF IInv
<1>3. heap \in Heaps /\ WireOK(wire) /\ disp \in Disps /\ slot \in Slots /\ out \in Outs
      /\ Sound(slot, heap, live, wire, out, disp)
  BY <1>2 DEF StateOK, IInv
<1>4. SlotsSound(slot, heap) /\ HeldSound(slot, heap, live, disp)
  BY <1>3 DEF Sound
<1>5. /\ dead \subseteq Proxy
      /\ \A p \in dead : /\ slot[a][p] # 0 /\ slot[a][p] \in Cell /\ ~heap[slot[a][p]].self
                         /\ a = Owner => heap[slot[a][p]].count = BaseCount
                         /\ n[p] = heap[slot[a][p]].count
                         /\ LocalIn(slot, heap, a, p) = n[p] /\ n[p] \in Int /\ g[p] \in 0 .. 3
  <2>1. /\ dead \subseteq Proxy
        /\ \A p \in dead : /\ slot[a][p] # 0 /\ ~heap[slot[a][p]].self
                           /\ a = Owner => heap[slot[a][p]].count = BaseCount
                           /\ n[p] = heap[slot[a][p]].count /\ g[p] = heap[slot[a][p]].tag
    BY DEF FindDeadProxies
  <2> HIDE DEF dead, n, g
  <2>2. \A p \in dead : slot[a][p] \in Cell
    <3>1. \A p \in Proxy : slot[a][p] \in Cell \cup {0}
      BY <1>3 DEF Slots
    <3>2. QED
      BY <2>1, <3>1
  <2>3. \A p \in dead : heap[slot[a][p]].count \in Int /\ heap[slot[a][p]].tag \in 0 .. 3
    BY <1>3, <2>2 DEF Heaps, ProxyData
  <2>4. QED
    BY <2>1, <2>2, <2>3 DEF LocalIn
<1> HIDE DEF dead, n, g
<1>6. slot' \in Slots /\ \A c \in Aspace, p \in Proxy : slot'[c][p] = IF c = a /\ p \in dead THEN 0 ELSE slot[c][p]
  <2>1. slot \in [Aspace -> [Proxy -> Cell \cup {0}]] /\ slot[a] \in [Proxy -> Cell \cup {0}]
    BY <1>3 DEF Slots
  <2>2. slot' = [slot EXCEPT ![a] = [p \in Proxy |-> IF p \in dead THEN 0 ELSE slot[a][p]]]
    BY <1>1
  <2>3. [p \in Proxy |-> IF p \in dead THEN 0 ELSE slot[a][p]] \in [Proxy -> Cell \cup {0}]
    BY <2>1
  <2>4. slot' \in [Aspace -> [Proxy -> Cell \cup {0}]]
    BY <2>1, <2>2, <2>3
  <2>5. slot'[a] = [p \in Proxy |-> IF p \in dead THEN 0 ELSE slot[a][p]] /\ \A c \in Aspace : c # a => slot'[c] = slot[c]
    BY <2>1, <2>2
  <2>6. QED
    BY <2>4, <2>5 DEF Slots
<1>7. /\ body \in Body
      /\ \A p \in Proxy : SumOf(body, p) = IF p \in dead THEN Positive(n[p]) ELSE 0
      /\ \A i \in DOMAIN body : body[i][1] \in dead /\ body[i][2] = n[body[i][1]]
  <2>1. \A p \in dead : n[p] \in Int /\ g[p] \in 0 .. 3
    BY <1>5
  <2>2. QED
    BY <1>5, <2>1, ReturnsAre
<1> HIDE DEF body
<1>8. m \in Message /\ m.kind = "return" /\ m.body = body /\ MessageSound(m)
  <2>1. m \in Message /\ m.kind = "return" /\ m.body = body /\ m.to = Owner
    BY <1>7, FiniteSets DEF Msg, Message
  <2>2. QED
    BY <2>1 DEF MessageSound, Routed, Counted
<1> HIDE DEF m
<1>9. /\ WireOK(wire')
      /\ DOMAIN wire' \subseteq DOMAIN wire \cup {m} /\ (a = Owner => wire' = wire)
      /\ \A p \in Proxy : Total(WireAt(wire', p)) <= Total(WireAt(wire, p)) + SumOf(body, p)
  <2>1. \A p \in Proxy : SumOf(body, p) \in Nat /\ Total(WireAt(wire, p)) \in Nat
    BY <1>3, <1>7, SumIsNumber, WireNat
  <2>2. CASE a = Owner
    BY <1>1, <1>3, <2>1, <2>2
  <2>3. CASE a # Owner
    <3>1. wire' = Post(wire, m) /\ WireOK(wire) /\ m \in Message
      BY <1>1, <1>3, <1>8, <2>3
    <3>2. /\ WireOK(wire') /\ DOMAIN wire' = DOMAIN wire \cup {m}
          /\ \A p : Total(WireAt(wire', p)) = Total(WireAt(wire, p)) + SumOf(m.body, p)
      BY <3>1, Posted
    <3>3. QED
      BY <1>8, <2>1, <2>3, <3>2
  <2>4. QED
    BY <2>2, <2>3
<1>10. StateOK(slot', heap, wire', out, disp)
  BY <1>2, <1>6, <1>9 DEF StateOK
<1>11. TypeOK'
  BY <1>1, <1>2, <1>6, <1>9 DEF IInv, TypeOK, WireOK, Slots
<1>12. \A c \in Aspace, p \in Proxy : HeldIn(live, disp, c, p) => slot'[c][p] = slot[c][p]
  BY <1>4, <1>5, <1>6 DEF HeldSound
<1>13. Sound(slot', heap, live, wire', out, disp)
  <2>1. SlotsSound(slot', heap)
    BY <1>4, <1>6 DEF SlotsSound
  <2>2. HeldSound(slot', heap, live, disp)
    BY <1>4, <1>12 DEF HeldSound
  <2>3. \A i \in DOMAIN wire' : MessageSound(i)
    BY <1>3, <1>8, <1>9 DEF Sound
  <2>4. ASSUME NEW c \in Aspace, NEW d \in Aspace PROVE DispatchSound(slot', disp[c][d], c, d)
    <3>1. DispatchSound(slot, disp[c][d], c, d)
      BY <1>3 DEF Sound
    <3>2. CASE disp[c][d].kind \in {"run", "counts"}
      <4>1. \A p \in Proxy : Mentions(disp[c][d].body, p) => slot'[c][p] = slot[c][p]
        BY <1>12, <3>2 DEF HeldIn
      <4>2. \A x : BadFound(slot, c, x, disp[c][d].body) => BadFound(slot', c, x, disp[c][d].body)
        BY <4>1 DEF BadFound
      <4>3. QED
        BY <3>1, <4>2 DEF DispatchSound
    <3>3. CASE disp[c][d].kind \notin {"run", "counts"}
      BY <3>1, <3>3 DEF DispatchSound
    <3>4. QED
      BY <3>2, <3>3
  <2>5. QED
    BY <1>3, <2>1, <2>2, <2>3, <2>4 DEF Sound
<1>14. ASSUME NEW p \in Proxy
       PROVE  CountsSound(slot', heap, wire', out, disp, p) /\ FreeSound(slot', live, wire', out, disp, p)
  <2>1. CountsSound(slot, heap, wire, out, disp, p) /\ FreeSound(slot, live, wire, out, disp, p)
    BY DEF IInv
  <2>2. Total(VectorAt(slot', heap, p)) + Positive(LocalIn(slot, heap, a, p))
          = Total(VectorAt(slot, heap, p)) + Positive(LocalIn(slot', heap, a, p))
    <3>1. \A c \in Aspace \ {a} : LocalIn(slot', heap, c, p) = LocalIn(slot, heap, c, p)
      BY <1>6 DEF LocalIn
    <3>2. QED
      BY <1>3, <1>6, <3>1, VectorsChange
  <2>3. Counts(slot', heap, wire', out, disp, p) <= Counts(slot, heap, wire, out, disp, p)
    <3>1. Total(WireAt(wire', p)) <= Total(WireAt(wire, p)) + SumOf(body, p)
      BY <1>9
    <3>2. CASE p \in dead
      <4>1. LocalIn(slot', heap, a, p) = 0 /\ SumOf(body, p) = Positive(LocalIn(slot, heap, a, p))
            /\ LocalIn(slot, heap, a, p) \in Int
        BY <1>5, <1>6, <1>7, <3>2 DEF LocalIn
      <4>2. Positive(LocalIn(slot, heap, a, p)) \in Nat /\ Positive(LocalIn(slot', heap, a, p)) = 0
        BY <4>1 DEF Positive
      <4>3. QED
        BY <1>2, <1>10, <2>2, <3>1, <4>1, <4>2, SumsAreNumbers DEF Counts
    <3>3. CASE p \notin dead
      <4>1. LocalIn(slot', heap, a, p) = LocalIn(slot, heap, a, p) /\ SumOf(body, p) = 0
            /\ LocalIn(slot, heap, a, p) \in Int
        BY <1>3, <1>6, <1>7, <3>3, LocalIsInt DEF LocalIn
      <4>2. Positive(LocalIn(slot, heap, a, p)) \in Nat
        BY <4>1 DEF Positive
      <4>3. QED
        BY <1>2, <1>10, <2>2, <3>1, <4>1, <4>2, SumsAreNumbers DEF Counts
    <3>4. QED
      BY <3>2, <3>3
  <2>4. Clean(slot, heap, wire, out, disp, p) => Clean(slot', heap, wire', out, disp, p)
    <3>1. SUFFICES ASSUME Clean(slot, heap, wire, out, disp, p)
                   PROVE  Clean(slot', heap, wire', out, disp, p)
      OBVIOUS
    <3>2. \A c \in Aspace : slot'[c][p] # 0 => heap[slot'[c][p]].count >= 1
      BY <1>6, <3>1 DEF Clean
    <3>3. Fine(m.kind, m.body, p)
      <4>1. SUFFICES ASSUME NEW i \in DOMAIN body, body[i][1] = p PROVE body[i][2] >= 1
        BY <1>8 DEF Fine
      <4>2. p \in dead /\ body[i][2] = heap[slot[a][p]].count /\ slot[a][p] # 0
        BY <1>5, <1>7, <4>1
      <4>3. QED
        BY <3>1, <4>2 DEF Clean
    <3>4. QED
      BY <1>9, <3>1, <3>2, <3>3 DEF Clean
  <2>5. CountsSound(slot', heap, wire', out, disp, p)
    <3>1. Owed(heap, out, p) \in Nat /\ Counts(slot', heap, wire', out, disp, p) \in Nat
          /\ Counts(slot, heap, wire, out, disp, p) \in Nat
      BY <1>2, <1>10, SumsAreNumbers
    <3>2. Counts(slot', heap, wire', out, disp, p) + Owed(heap, out, p)
            <= Counts(slot, heap, wire, out, disp, p) + Owed(heap, out, p)
      BY <2>3, <3>1
    <3>3. QED
      BY <1>2, <1>10, <2>1, <2>4, <3>2, CountsCarried
  <2>6. FreeSound(slot', live, wire', out, disp, p)
    <3>1. CASE a = Owner /\ p \in dead
      <4>1. Positive(LocalIn(slot, heap, Owner, p)) = BaseCount /\ BaseCount \in Nat
        BY <1>5, <3>1, ProxyCountsAssumption DEF Positive
      <4>2. BusyIn(heap, disp[Owner][Owner], p) \in Nat /\ Owner \in Aspace
        BY <1>3, FiniteSets, BusyIsNat DEF Disps
      <4>3. slot[Owner][p] # 0 /\ ~heap[slot[Owner][p]].self
        BY <1>5, <3>1
      <4>4. BaseCount <= Positive(LocalIn(slot, heap, Owner, p)) + BusyIn(heap, disp[Owner][Owner], p)
        BY <4>1, <4>2
      <4>5. /\ Positive(LocalIn(slot, heap, Owner, p)) + BusyIn(heap, disp[Owner][Owner], p) = BaseCount
            /\ p \notin live[Owner]
            /\ \A c \in Aspace \ {Owner} : slot[c][p] = 0
            /\ \A i \in DOMAIN wire : ~Mentions(i.body, p)
            /\ \A t \in Thread : ~Mentions(out[t].body, p)
            /\ \A c, d \in Aspace : <<c, d>> # <<Owner, Owner>> => ~Mentions(disp[c][d].body, p)
            /\ disp[Owner][Owner].kind # "return" \/ BusyIn(heap, disp[Owner][Owner], p) = 0
                 => ~Mentions(disp[Owner][Owner].body, p)
        BY <1>2, <1>3, <2>1, <4>2, <4>3, <4>4, AllAtHome
      <4>6. BusyIn(heap, disp[Owner][Owner], p) = 0
        BY <4>1, <4>2, <4>5
      <4>7. \A c, d \in Aspace : ~Mentions(disp[c][d].body, p)
        BY <4>5, <4>6
      <4>8. \A c \in Aspace : slot'[c][p] = 0
        BY <1>6, <3>1, <4>5
      <4>9. QED
        BY <1>9, <3>1, <4>5, <4>7, <4>8 DEF FreeSound
    <3>2. CASE ~(a = Owner /\ p \in dead)
      <4>1. SUFFICES ASSUME slot'[Owner][p] = 0 PROVE FreeSound(slot', live, wire', out, disp, p)
        BY DEF FreeSound
      <4>2. slot[Owner][p] = 0
        BY <1>6, <3>2, <4>1, FiniteSets
      <4>3. \A c \in Aspace : slot[c][p] = 0
        BY <2>1, <4>2 DEF FreeSound
      <4>4. p \notin dead /\ \A c \in Aspace : slot'[c][p] = 0
        BY <1>5, <1>6, <4>3
      <4>5. ~Mentions(m.body, p)
        BY <1>7, <1>8, <4>4 DEF Mentions
      <4>6. QED
        BY <1>9, <2>1, <4>2, <4>4, <4>5 DEF FreeSound
    <3>3. QED
      BY <3>1, <3>2
  <2>7. QED
    BY <2>5, <2>6
<1>15. QED
  BY <1>1, <1>11, <1>13, <1>14 DEF IInv

-----------------------------------------------------------------------------
(* The return of counts that are too many.                                 *)

Returning == [heap : Heaps, returns : Body, dead : BOOLEAN]

\* set-proxy-data-reference-count! leaves a proxy-data.
LEMMA CountReplaced ==
  ASSUME NEW r \in ProxyData, NEW n \in Int
  PROVE  [r EXCEPT !.count = n] \in ProxyData
BY DEF ProxyData

\* r is what became of the heap h when the first n of the cells ds were looked at.
ReturnedTo(h, ds, r, n) ==
  /\ r \in Returning
  /\ \A c \in Cell : /\ r.heap[c] = [h[c] EXCEPT !.count = r.heap[c].count]
                     /\ h[c].count >= 1 => r.heap[c].count >= 1
                     /\ (\A i \in 1 .. n : ds[i] # c) => r.heap[c].count = h[c].count
  /\ \A i \in DOMAIN r.returns : /\ r.returns[i][2] >= 1
                                 /\ \E j \in 1 .. n : r.returns[i][1] = h[ds[j]].proxy
  /\ \A p \in Proxy, c \in Cell :
       h[c].proxy = p /\ (\A i \in 1 .. Len(ds) : h[ds[i]].proxy = p => ds[i] = c)
         => Positive(r.heap[c].count) + SumOf(r.returns, p) <= Positive(h[c].count)

\* An excess of counts leaves at least one.
LEMMA ReturnedIs ==
  ASSUME NEW n \in Int
  PROVE  /\ ReturnedCounts(n) \in Nat
         /\ ReturnedCounts(n) # 0 => /\ ReturnedCounts(n) >= 1 /\ n - ReturnedCounts(n) >= 1 /\ n >= 1
                                     /\ n - ReturnedCounts(n) \in Int
<1>1. MaxDebit \in Int /\ MaxCount \in Int /\ MaxDebit >= 1 /\ 2 * MaxDebit <= MaxCount
  BY ProxyCountsAssumption
<1>2. CASE MaxCount < n
  BY <1>1, <1>2 DEF ReturnedCounts
<1>3. CASE ~(MaxCount < n)
  BY <1>3 DEF ReturnedCounts
<1>4. QED
  BY <1>2, <1>3

\* One step of the fold that collects the excess counts.
LEMMA ReturnStep ==
  ASSUME NEW h \in Heaps, NEW ds \in Seq(Cell), NEW n \in 1 .. Len(ds),
         \A i \in 1 .. Len(ds) : h[ds[i]].proxy \in Proxy,
         NEW e, ReturnedTo(h, ds, e, n - 1)
  PROVE  ReturnedTo(h, ds, MakeReturn(e, ds[n]), n)
<1> DEFINE d == ds[n]
           k == e.heap[d].count
           q == h[d].proxy
           x == ReturnedCounts(k)
           item == <<e.heap[d].proxy, x, 0>>
           r == MakeReturn(e, d)
           fails == e.dead \/ e.heap[d].tag # 0
<1>1. d \in Cell /\ q \in Proxy /\ k \in Int /\ e \in Returning /\ h[d] \in ProxyData
      /\ e.heap[d] \in ProxyData /\ e.heap[d].proxy = q
  <2>1. d \in Cell
    OBVIOUS
  <2>2. e \in Returning /\ e.heap[d] = [h[d] EXCEPT !.count = e.heap[d].count]
    BY <2>1 DEF ReturnedTo
  <2>3. e.heap[d] \in ProxyData /\ h[d] \in ProxyData
    BY <2>1, <2>2 DEF Returning, Heaps
  <2>4. e.heap[d].proxy = q
    BY <2>2, <2>3 DEF ProxyData
  <2>5. QED
    BY <2>1, <2>2, <2>3, <2>4 DEF ProxyData
<1>2. x \in Nat /\ (x # 0 => x >= 1 /\ k - x >= 1 /\ k >= 1 /\ k - x \in Int)
  BY <1>1, ReturnedIs
<1>4. e.heap \in Heaps /\ e.returns \in Body
  BY <1>1 DEF Returning
<1>3. ReturnedTo(h, ds, e, n)
  BY DEF ReturnedTo
<1>8. CASE fails
  <2>1. r = [e EXCEPT !.dead = TRUE]
    BY <1>8 DEF MakeReturn
  <2>2. r \in Returning /\ r.heap = e.heap /\ r.returns = e.returns
    BY <1>1, <2>1 DEF Returning
  <2> HIDE DEF r
  <2>3. ReturnedTo(h, ds, r, n)
    BY <1>3, <2>2 DEF ReturnedTo
  <2>4. QED
    BY <2>3 DEF r
<1>5. CASE ~fails /\ x = 0
  <2>1. r = e
    BY <1>5 DEF MakeReturn
  <2>2. QED
    BY <1>3, <2>1
<1>6. CASE ~fails /\ x # 0
  <2>1. /\ r.heap = [e.heap EXCEPT ![d].count = k - x]
        /\ r.returns = Append(e.returns, item) /\ item = <<q, x, 0>>
        /\ r = [heap |-> r.heap, returns |-> r.returns, dead |-> r.dead] /\ r.dead = e.dead
    BY <1>1, <1>4, <1>6 DEF MakeReturn, Heaps, Returning
  <2>2. item \in Proxy \X Int \X (0 .. 3) /\ k - x \in Int /\ x >= 1 /\ k - x >= 1 /\ k >= 1
    BY <1>1, <1>2, <1>6
  <2> HIDE DEF r, item, k, x
  <2>3. r \in Returning
    <3>1. [e.heap[d] EXCEPT !.count = k - x] \in ProxyData
      BY <1>1, <2>2, CountReplaced
    <3>2. r.heap = [e.heap EXCEPT ![d] = [e.heap[d] EXCEPT !.count = k - x]]
      BY <2>1
    <3>3. r.heap \in Heaps
      BY <1>1, <1>4, <3>1, <3>2 DEF Heaps
    <3>4. r.returns \in Body
      BY <1>4, <2>1, <2>2 DEF Body
    <3>5. QED
      BY <1>1, <2>1, <3>3, <3>4 DEF Returning
  <2>4. /\ r.heap[d].count = k - x
        /\ r.heap[d] = [h[d] EXCEPT !.count = k - x]
        /\ \A c \in Cell \ {d} : r.heap[c] = e.heap[c]
    <3>1. e.heap[d] = [h[d] EXCEPT !.count = k]
      BY <1>1 DEF ReturnedTo, k
    <3>2. r.heap[d] = [e.heap[d] EXCEPT !.count = k - x]
      BY <1>1, <1>4, <2>1 DEF Heaps
    <3>3. r.heap[d] = [h[d] EXCEPT !.count = k - x]
      BY <1>1, <3>1, <3>2 DEF ProxyData
    <3>4. QED
      BY <1>1, <1>4, <2>1, <3>3 DEF ProxyData, Heaps
  <2>5. ASSUME NEW c \in Cell
        PROVE  /\ r.heap[c] = [h[c] EXCEPT !.count = r.heap[c].count]
               /\ h[c].count >= 1 => r.heap[c].count >= 1
               /\ (\A i \in 1 .. n : ds[i] # c) => r.heap[c].count = h[c].count
    <3>1. /\ e.heap[c] = [h[c] EXCEPT !.count = e.heap[c].count]
          /\ h[c].count >= 1 => e.heap[c].count >= 1
          /\ (\A i \in 1 .. n - 1 : ds[i] # c) => e.heap[c].count = h[c].count
      BY DEF ReturnedTo
    <3>2. CASE c = d
      <4>1. r.heap[c].count = k - x /\ r.heap[c] = [h[c] EXCEPT !.count = k - x]
        BY <2>4, <3>2
      <4>2. r.heap[c] = [h[c] EXCEPT !.count = r.heap[c].count] /\ r.heap[c].count >= 1
        BY <2>2, <4>1
      <4>3. n \in 1 .. n /\ ds[n] = c
        BY <3>2
      <4>4. QED
        BY <4>2, <4>3
    <3>3. CASE c # d
      BY <2>4, <3>1, <3>3
    <3>4. QED
      BY <3>2, <3>3
  <2>6. \A i \in DOMAIN r.returns : /\ r.returns[i][2] >= 1
                                    /\ \E j \in 1 .. n : r.returns[i][1] = h[ds[j]].proxy
    <3>1. \A i \in DOMAIN e.returns : /\ e.returns[i][2] >= 1
                                      /\ \E j \in 1 .. n : e.returns[i][1] = h[ds[j]].proxy
      BY DEF ReturnedTo
    <3>2. ASSUME NEW i \in DOMAIN r.returns
          PROVE  (i \in DOMAIN e.returns /\ r.returns[i] = e.returns[i]) \/ r.returns[i] = item
      BY <1>4, <2>1, <2>2 DEF Body
    <3>3. item[2] >= 1 /\ item[1] = h[ds[n]].proxy /\ n \in 1 .. n
      BY <2>1, <2>2
    <3>4. QED
      BY <3>1, <3>2, <3>3
  <2>7. ASSUME NEW p \in Proxy, NEW c \in Cell, h[c].proxy = p,
               \A i \in 1 .. Len(ds) : h[ds[i]].proxy = p => ds[i] = c
        PROVE  Positive(r.heap[c].count) + SumOf(r.returns, p) <= Positive(h[c].count)
    <3>1. Positive(e.heap[c].count) + SumOf(e.returns, p) <= Positive(h[c].count)
      BY <2>7 DEF ReturnedTo
    <3>2. SumOf(r.returns, p) = SumOf(e.returns, p) + CountOf(item, p)
      BY <1>4, <2>1, <2>2, SumAppended
    <3>3. SumOf(e.returns, p) \in Nat /\ h[c].count \in Int
      BY <1>4, SumIsNumber DEF ProxyData, Heaps
    <3>4. CASE q = p
      <4>1. c = d
        BY <2>7, <3>4
      <4>2. CountOf(item, p) = x /\ x \in Nat
        BY <1>2, <2>1, <2>2, <3>4 DEF CountOf, Positive
      <4>3. Positive(e.heap[c].count) = k /\ Positive(r.heap[c].count) = k - x /\ k \in Int
        <5>1. e.heap[c].count = k /\ r.heap[c].count = k - x
          BY <2>4, <4>1 DEF k
        <5>2. k \in Int
          BY <1>1
        <5>3. k > 0 /\ k - x > 0
          BY <2>2, <5>2
        <5>4. QED
          BY <5>1, <5>2, <5>3 DEF Positive
      <4>4. Positive(h[c].count) \in Int
        BY <3>3 DEF Positive
      <4>5. QED
        BY <3>1, <3>2, <3>3, <4>2, <4>3, <4>4
    <3>5. CASE q # p
      <4>1. c # d /\ r.heap[c] = e.heap[c]
        BY <2>4, <2>7, <3>5
      <4>2. CountOf(item, p) = 0
        BY <2>1, <3>5 DEF CountOf
      <4>3. QED
        BY <3>1, <3>2, <3>3, <4>1, <4>2
    <3>6. QED
      BY <3>4, <3>5
  <2>8. ReturnedTo(h, ds, r, n)
    BY <2>3, <2>5, <2>6, <2>7 DEF ReturnedTo
  <2>9. QED
    BY <2>8 DEF r
<1>7. QED
  BY <1>5, <1>6, <1>8

MakeReturns(h, ds) == Fold(MakeReturn, [heap |-> h, returns |-> <<>>, dead |-> FALSE], ds)

\* The whole fold: what the message returns, the data lose.
LEMMA ReturnFold ==
  ASSUME NEW h \in Heaps, NEW ds \in Seq(Cell),
         \A i \in 1 .. Len(ds) : h[ds[i]].proxy \in Proxy
  PROVE  ReturnedTo(h, ds, MakeReturns(h, ds), Len(ds))
<1> DEFINE N == Len(ds)
           start == [heap |-> h, returns |-> <<>>, dead |-> FALSE]
           X == [n \in 0 .. N |-> {e \in Returning : ReturnedTo(h, ds, e, n)}]
           G == [n \in 1 .. N |-> [e \in X[n - 1] |-> MakeReturn(e, ds[n])]]
           Solves(f) == f = [n \in 0 .. N |-> IF n = 0 THEN start ELSE MakeReturn(f[n - 1], ds[n])]
<1>1. N \in Nat
  OBVIOUS
<1>2. start \in X[0]
  <2>1. start \in Returning /\ start.heap = h /\ start.returns = <<>>
    BY DEF Returning, Body
  <2> HIDE DEF start
  <2>2. \A p : SumOf(start.returns, p) = 0
    BY <2>1, SumOfEmpty
  <2>3. \A c \in Cell : h[c] = [h[c] EXCEPT !.count = h[c].count] /\ Positive(h[c].count) \in Nat
    BY DEF ProxyData, Heaps, Positive
  <2>4. \A p \in Proxy, c \in Cell : Positive(start.heap[c].count) + SumOf(start.returns, p) <= Positive(h[c].count)
    <3> SUFFICES ASSUME NEW p \in Proxy, NEW c \in Cell
                 PROVE  Positive(start.heap[c].count) + SumOf(start.returns, p) <= Positive(h[c].count)
      OBVIOUS
    <3>1. SumOf(start.returns, p) = 0 /\ start.heap[c].count = h[c].count /\ Positive(h[c].count) \in Nat
      BY <2>1, <2>2, <2>3
    <3>2. QED
      BY <3>1
  <2>6. DOMAIN start.returns = {}
    BY <2>1
  <2>7. ReturnedTo(h, ds, start, 0)
    BY <2>1, <2>3, <2>4, <2>6 DEF ReturnedTo
  <2>5. QED
    BY <2>1, <2>7
<1>3. ASSUME NEW n \in 1 .. N, NEW e \in X[n - 1]
      PROVE  MakeReturn(e, ds[n]) \in X[n] /\ G[n][e] = MakeReturn(e, ds[n])
  <2>1. ReturnedTo(h, ds, e, n - 1)
    OBVIOUS
  <2>2. ReturnedTo(h, ds, MakeReturn(e, ds[n]), n)
    BY <2>1, ReturnStep
  <2>3. MakeReturn(e, ds[n]) \in Returning
    BY <2>2 DEF ReturnedTo
  <2>4. QED
    BY <2>2, <2>3
<1> HIDE DEF N, X, G, start
<1>4. \A n \in 1 .. N : \A e \in X[n - 1] : G[n][e] \in X[n]
  BY <1>3
<1> DEFINE f == Iterates(N, X, start, G)
<1>5. /\ f[0] = start /\ \A n \in 1 .. N : f[n] = G[n][f[n - 1]]
      /\ \A n \in 0 .. N : f[n] \in X[n]
  BY <1>1, <1>2, <1>4, Recursion
<1> HIDE DEF f
<1>6. ASSUME NEW n \in 1 .. N PROVE f[n] = MakeReturn(f[n - 1], ds[n])
  <2>1. n - 1 \in 0 .. N
    BY <1>1
  <2>2. f[n - 1] \in X[n - 1] /\ f[n] = G[n][f[n - 1]]
    BY <1>5, <2>1
  <2>3. QED
    BY <1>3, <2>2
<1> DEFINE e == [n \in 0 .. N |-> f[n]]
<1>7. Solves(e)
  <2>1. e[0] = start /\ \A n \in 1 .. N : e[n] = f[n] /\ e[n - 1] = f[n - 1]
    BY <1>1, <1>5
  <2>2. \A n \in 0 .. N : e[n] = IF n = 0 THEN start ELSE MakeReturn(e[n - 1], ds[n])
    BY <1>1, <1>6, <2>1
  <2>3. QED
    BY <2>2
<1> DEFINE g == CHOOSE g : Solves(g)
<1>8. Solves(g)
  <2>1. \E x : Solves(x)
    BY <1>7
  <2>2. QED
    BY <2>1
<1>9. MakeReturns(h, ds) = g[N]
  BY DEF MakeReturns, Fold, start, N
<1> HIDE DEF g
<1>10. g[0] = start /\ \A n \in 1 .. N : g[n] = MakeReturn(g[n - 1], ds[n])
  BY <1>1, <1>8
<1>11. \A n \in 1 .. N : g[n - 1] \in X[n - 1] => g[n] \in X[n]
  BY <1>3, <1>10
<1>12. g[N] \in X[N]
  <2>1. g[0] \in X[0]
    BY <1>2, <1>10
  <2>2. \A n \in 0 .. N : g[n] \in X[n]
    BY <1>1, <1>11, <2>1, RecursionStays
  <2>3. QED
    BY <1>1, <2>2
<1>13. QED
  BY <1>1, <1>9, <1>12 DEF X, N

\* A dispatcher goes on with its message, or dies.
Moved(k, k2, a, b, x) ==
  /\ k2 \in Disps /\ k \in Disps /\ x \in Dispatcher
  /\ \A c, d \in Aspace : IF c = a /\ d = b THEN k2[c][d] = x ELSE k2[c][d] = k[c][d]
  /\ \A h, p : Total(DispAt(h, k2, p)) + BusyIn(h, k[a][b], p) = Total(DispAt(h, k, p)) + BusyIn(h, x, p)
  /\ \A l, c, q : HeldIn(l, k2, c, q) /\ c \in Aspace => HeldIn(l, k, c, q)
  /\ \A p : (\A c, d \in Aspace : Fine(k[c][d].kind, k[c][d].body, p))
              => \A c, d \in Aspace : Fine(k2[c][d].kind, k2[c][d].body, p)
  /\ \A p : \A c, d \in Aspace : Mentions(k2[c][d].body, p) => Mentions(k[c][d].body, p)

\* A dispatcher goes on with the same message.
LEMMA DispatcherMoves ==
  ASSUME NEW k \in Disps, NEW a \in Aspace, NEW b \in Aspace, NEW x \in Dispatcher, Resumes(k[a][b], x)
  PROVE  Moved(k, Assigned(k, a, b, x), a, b, x)
<1> DEFINE k2 == Assigned(k, a, b, x)
<1>1. /\ k2 \in Disps /\ k2[a][b] = x
      /\ \A c, d \in Aspace : c # a \/ d # b => k2[c][d] = k[c][d]
  BY DispatcherSet
<1> HIDE DEF k2
<1>2. \A c, d \in Aspace : IF c = a /\ d = b THEN k2[c][d] = x ELSE k2[c][d] = k[c][d]
  BY <1>1
<1>3. ASSUME NEW h, NEW p
      PROVE  Total(DispAt(h, k2, p)) + BusyIn(h, k[a][b], p) = Total(DispAt(h, k, p)) + BusyIn(h, x, p)
  <2>1. \A c, d \in Aspace : c # a \/ d # b => BusyIn(h, k2[c][d], p) = BusyIn(h, k[c][d], p)
    BY <1>1
  <2>2. Total(DispAt(h, k2, p)) + BusyIn(h, k[a][b], p) = Total(DispAt(h, k, p)) + BusyIn(h, k2[a][b], p)
    BY <1>1, <2>1, DispChange
  <2>3. QED
    BY <1>1, <2>2
<1>4. \A q : Mentions(x.body, q) => Mentions(k[a][b].body, q) /\ x.kind = k[a][b].kind
  BY DEF Mentions, Resumes
<1>5. ASSUME NEW l, NEW c \in Aspace, NEW q, HeldIn(l, k2, c, q) PROVE HeldIn(l, k, c, q)
  <2>1. \A d \in Aspace : Mentions(k2[c][d].body, q) => k2[c][d].kind = k[c][d].kind /\ Mentions(k[c][d].body, q)
    BY <1>2, <1>4
  <2>2. QED
    BY <1>5, <2>1 DEF HeldIn
<1>6. ASSUME NEW p, \A c, d \in Aspace : Fine(k[c][d].kind, k[c][d].body, p)
      PROVE  \A c, d \in Aspace : Fine(k2[c][d].kind, k2[c][d].body, p)
  <2>1. Fine(x.kind, x.body, p)
    BY <1>6 DEF Fine, Resumes
  <2>2. QED
    BY <1>2, <1>6, <2>1
<1>7. \A p : \A c, d \in Aspace : Mentions(k2[c][d].body, p) => Mentions(k[c][d].body, p)
  BY <1>2, <1>4
<1>8. Moved(k, k2, a, b, x)
  BY <1>1, <1>2, <1>3, <1>5, <1>6, <1>7 DEF Moved
<1>9. QED
  BY <1>8 DEF k2

\* Only the counts of the proxy-datas of one address space change.
CellsOf(s, a) == {s[a][q] : q \in Proxy}

\* A change of the counts in one vector.
LEMMA VectorsOfOne ==
  ASSUME NEW s \in Slots, NEW h \in Heaps, NEW h2 \in Heaps, SlotsSound(s, h),
         NEW a \in Aspace, NEW p \in Proxy,
         \A c \in Cell : c \notin CellsOf(s, a) => h2[c].count = h[c].count
  PROVE  /\ \A b \in Aspace \ {a} : LocalIn(s, h2, b, p) = LocalIn(s, h, b, p)
         /\ Total(VectorAt(s, h2, p)) + Positive(LocalIn(s, h, a, p))
              = Total(VectorAt(s, h, p)) + Positive(LocalIn(s, h2, a, p))
         /\ s[a][p] # 0 => \A q \in Proxy : s[a][q] # 0 /\ h[s[a][q]].proxy = p => s[a][q] = s[a][p]
<1>1. ASSUME NEW b \in Aspace \ {a} PROVE LocalIn(s, h2, b, p) = LocalIn(s, h, b, p)
  <2>1. CASE s[b][p] = 0
    BY <2>1 DEF LocalIn
  <2>2. CASE s[b][p] # 0
    <3>1. s[b][p] \in Cell
      <4>1. s[b][p] \in Cell \cup {0}
        BY DEF Slots
      <4>2. QED
        BY <2>2, <4>1
    <3>2. s[b][p] \notin CellsOf(s, a)
      BY <2>2 DEF SlotsSound, CellsOf
    <3>3. QED
      BY <2>2, <3>1, <3>2 DEF LocalIn
  <2>3. QED
    BY <2>1, <2>2
<1>2. Total(VectorAt(s, h2, p)) + Positive(LocalIn(s, h, a, p))
        = Total(VectorAt(s, h, p)) + Positive(LocalIn(s, h2, a, p))
  BY <1>1, VectorsChange
<1>3. s[a][p] # 0 => \A q \in Proxy : s[a][q] # 0 /\ h[s[a][q]].proxy = p => s[a][q] = s[a][p]
  BY DEF SlotsSound
<1>4. QED
  BY <1>1, <1>2, <1>3

\* The counts above the limit go from the vector to a message to the owner.
LEMMA ReturnExcessKeeps ==
  ASSUME IInv, NEW a \in Aspace, NEW b \in Aspace, ReturnExcess(a, b)
  PROVE  IInv'
<1> DEFINE d == disp[a][b]
           r == MakeReturns(heap, d.high)
           x == IF Len(r.returns) > 1 \/ r.dead THEN Dead ELSE [d EXCEPT !.stage = "process", !.high = <<>>]
           m == Msg("return", a, Owner, r.returns)
<1>1. /\ d.stage = "return" /\ heap' = r.heap /\ disp' = Assigned(disp, a, b, x)
      /\ PostedOrNot(wire, wire', m) /\ UNCHANGED <<slot, live, out, sends>>
  <2>1. disp' = [disp EXCEPT ![a][b] = IF Len(r.returns) > 1 \/ r.dead THEN [Idle EXCEPT !.stage = "dead"]
                                       ELSE [@ EXCEPT !.stage = "process", !.high = <<>>]]
    BY DEF ReturnExcess, MakeReturns
  <2>2. disp' = Assigned(disp, a, b, x)
    BY <2>1 DEF Assigned, Dead
  <2>3. QED
    BY <2>2 DEF ReturnExcess, MakeReturns, PostedOrNot
<1>2. StateOK(slot, heap, wire, out, disp) /\ live \in [Aspace -> SUBSET Proxy] /\ sends \in [Aspace -> Nat]
  BY TypesAre DEF IInv
<1>3. heap \in Heaps /\ WireOK(wire) /\ disp \in Disps /\ slot \in Slots /\ out \in Outs
      /\ Sound(slot, heap, live, wire, out, disp)
  BY <1>2 DEF StateOK, IInv
<1>4. d \in Dispatcher /\ d.high \in Seq(Cell) /\ DispatchSound(slot, d, a, b)
  BY <1>3 DEF Disps, Dispatcher, Sound
<1>5. SlotsSound(slot, heap) /\ HeldSound(slot, heap, live, disp)
  BY <1>3 DEF Sound
<1>6. /\ d.kind \in {"run", "counts"} \/ d.high = <<>>
      /\ \A i \in DOMAIN d.high : \E q \in Proxy : Mentions(d.body, q) /\ slot[a][q] = d.high[i]
  BY <1>4 DEF DispatchSound, BadFound
<1>7. /\ DOMAIN d.high = 1 .. Len(d.high) /\ Len(d.high) \in Nat
      /\ \A i \in DOMAIN d.high : d.high[i] \in Cell
  BY <1>4, ListElements
<1>8. \A i \in 1 .. Len(d.high) : heap[d.high[i]].proxy \in Proxy /\ d.high[i] \in CellsOf(slot, a)
  <2> SUFFICES ASSUME NEW i \in 1 .. Len(d.high)
               PROVE  heap[d.high[i]].proxy \in Proxy /\ d.high[i] \in CellsOf(slot, a)
    OBVIOUS
  <2>1. PICK q \in Proxy : slot[a][q] = d.high[i]
    BY <1>6, <1>7
  <2>2. slot[a][q] # 0
    BY <1>7, <2>1 DEF Cell
  <2>3. heap[slot[a][q]].proxy = q
    BY <1>5, <2>2 DEF SlotsSound
  <2>4. QED
    BY <2>1, <2>3 DEF CellsOf
<1>9. ReturnedTo(heap, d.high, r, Len(d.high))
  BY <1>3, <1>4, <1>8, ReturnFold
<1>10. /\ r.heap \in Heaps /\ r.returns \in Body
       /\ \A c \in Cell : r.heap[c] = [heap[c] EXCEPT !.count = r.heap[c].count] /\ heap[c] \in ProxyData
  BY <1>3, <1>9 DEF ReturnedTo, Returning, Heaps
<1>11. x \in Dispatcher /\ DispatchSound(slot, x, a, b) /\ Resumes(d, x)
       /\ \A p : BusyIn(heap', x, p) <= BusyIn(heap', d, p)
  <2>1. CASE x = Dead
    <3>1. \A p : BusyIn(heap', d, p) \in Nat
      BY <1>4, BusyIsNat
    <3>2. \A p : BusyIn(heap', x, p) = 0
      BY <2>1, DeadIs
    <3>3. \A p : BusyIn(heap', x, p) <= BusyIn(heap', d, p)
      BY <3>1, <3>2
    <3>4. QED
      BY <2>1, <3>3, DeadIs
  <2>2. CASE x # Dead
    <3>1. x = [d EXCEPT !.stage = "process", !.high = <<>>]
      BY <2>2
    <3> HIDE DEF x, d
    <3>2. x \in Dispatcher
      <4>1. x = [stage |-> "process", body |-> d.body, kind |-> d.kind, low |-> d.low, high |-> <<>>]
        BY <1>4, <3>1 DEF Dispatcher
      <4>2. <<>> \in Seq(Cell)
        OBVIOUS
      <4>3. QED
        BY <1>4, <4>1, <4>2 DEF Dispatcher
    <3>3. x.kind = d.kind /\ x.body = d.body /\ x.low = d.low /\ x.high = <<>> /\ x.stage = "process"
      BY <1>4, <3>1 DEF Dispatcher
    <3>4. DispatchSound(slot, x, a, b)
      BY <1>4, <3>3 DEF DispatchSound
    <3>5. \A p : BusyIn(heap', x, p) = BusyIn(heap', d, p) /\ BusyIn(heap', d, p) \in Nat
      BY <1>4, <3>3, BusyIsNat DEF BusyIn
    <3>6. \A p : BusyIn(heap', x, p) <= BusyIn(heap', d, p)
      BY <3>5
    <3>7. QED
      BY <3>2, <3>3, <3>4, <3>6 DEF Resumes
  <2>3. QED
    BY <2>1, <2>2
<1> HIDE DEF x
<1>12. Moved(disp, disp', a, b, x)
  BY <1>1, <1>3, <1>11, DispatcherMoves
<1>13. m \in Message /\ m.kind = "return" /\ m.body = r.returns /\ MessageSound(m)
  <2>1. m \in Message /\ m.kind = "return" /\ m.body = r.returns /\ m.to = Owner
    BY <1>10, FiniteSets DEF Msg, Message
  <2>2. QED
    BY <2>1 DEF MessageSound, Routed, Counted
<1>14. \A i \in DOMAIN r.returns : /\ r.returns[i][2] >= 1
                                   /\ \E j \in DOMAIN d.high : r.returns[i][1] = heap[d.high[j]].proxy
  BY <1>7, <1>9 DEF ReturnedTo
<1>15. ASSUME NEW p \in Proxy
       PROVE  /\ Positive(LocalIn(slot, r.heap, a, p)) + SumOf(r.returns, p) <= Positive(LocalIn(slot, heap, a, p))
              /\ Mentions(r.returns, p) => slot[a][p] # 0
              /\ Total(VectorAt(slot, r.heap, p)) + Positive(LocalIn(slot, heap, a, p))
                   = Total(VectorAt(slot, heap, p)) + Positive(LocalIn(slot, r.heap, a, p))
  <2>1. \A i \in DOMAIN d.high : heap[d.high[i]].proxy = p => slot[a][p] # 0 /\ d.high[i] = slot[a][p]
    <3> SUFFICES ASSUME NEW i \in DOMAIN d.high, heap[d.high[i]].proxy = p
                 PROVE  slot[a][p] # 0 /\ d.high[i] = slot[a][p]
      OBVIOUS
    <3>1. PICK q \in Proxy : slot[a][q] = d.high[i]
      BY <1>6
    <3>2. slot[a][q] # 0
      BY <1>7, <3>1 DEF Cell
    <3>3. heap[slot[a][q]].proxy = q
      BY <1>5, <3>2 DEF SlotsSound
    <3>4. QED
      BY <3>1, <3>2, <3>3
  <2>2. Mentions(r.returns, p) => slot[a][p] # 0
    BY <1>14, <2>1 DEF Mentions
  <2>3. \A c \in Cell : c \notin CellsOf(slot, a) => r.heap[c].count = heap[c].count
    BY <1>7, <1>8, <1>9 DEF ReturnedTo
  <2>4. Total(VectorAt(slot, r.heap, p)) + Positive(LocalIn(slot, heap, a, p))
          = Total(VectorAt(slot, heap, p)) + Positive(LocalIn(slot, r.heap, a, p))
    BY <1>3, <1>5, <1>10, <2>3, VectorsOfOne
  <2>5. Positive(LocalIn(slot, r.heap, a, p)) + SumOf(r.returns, p) <= Positive(LocalIn(slot, heap, a, p))
    <3>1. CASE slot[a][p] = 0
      <4>1. LocalIn(slot, r.heap, a, p) = 0 /\ LocalIn(slot, heap, a, p) = 0 /\ SumOf(r.returns, p) = 0
        BY <2>2, <3>1, SumOfUnmentioned DEF LocalIn
      <4>2. QED
        BY <4>1 DEF Positive
    <3>2. CASE slot[a][p] # 0
      <4>1. slot[a][p] \in Cell
        <5>1. slot[a][p] \in Cell \cup {0}
          BY <1>3 DEF Slots
        <5>2. QED
          BY <3>2, <5>1
      <4>2. heap[slot[a][p]].proxy = p
        BY <1>5, <3>2 DEF SlotsSound
      <4>3. Positive(r.heap[slot[a][p]].count) + SumOf(r.returns, p) <= Positive(heap[slot[a][p]].count)
        BY <1>7, <1>9, <2>1, <4>1, <4>2 DEF ReturnedTo
      <4>4. QED
        BY <3>2, <4>3 DEF LocalIn
    <3>3. QED
      BY <3>1, <3>2
  <2>6. QED
    BY <2>2, <2>4, <2>5
<1>16. \A c \in Cell : heap[c].count >= 1 => r.heap[c].count >= 1
  BY <1>9 DEF ReturnedTo
<1> HIDE DEF r, m
<1>17. /\ WireOK(wire')
       /\ DOMAIN wire' \subseteq DOMAIN wire \cup {m}
       /\ \A p \in Proxy : Total(WireAt(wire', p)) <= Total(WireAt(wire, p)) + SumOf(r.returns, p)
  <2>1. \A p \in Proxy : SumOf(r.returns, p) \in Nat /\ Total(WireAt(wire, p)) \in Nat
    BY <1>3, <1>10, SumIsNumber, WireNat
  <2>2. CASE wire' = wire
    BY <1>3, <2>1, <2>2
  <2>3. CASE wire' = Post(wire, m)
    <3>1. WireOK(wire) /\ m \in Message
      BY <1>3, <1>13
    <3>2. /\ WireOK(wire') /\ DOMAIN wire' = DOMAIN wire \cup {m}
          /\ \A p : Total(WireAt(wire', p)) = Total(WireAt(wire, p)) + SumOf(m.body, p)
      BY <2>3, <3>1, Posted
    <3>3. QED
      BY <1>13, <2>1, <3>2
  <2>4. QED
    BY <1>1, <2>2, <2>3 DEF PostedOrNot
<1>18. \A c \in Cell : /\ heap'[c].proxy = heap[c].proxy /\ heap'[c].waiters = heap[c].waiters
                       /\ heap'[c].self = heap[c].self
  BY <1>1, <1>10 DEF ProxyData
<1>19. Recounted(heap, heap') /\ heap' \in Heaps
  BY <1>1, <1>10, <1>18 DEF Recounted
<1>20. StateOK(slot, heap', wire', out, disp')
  BY <1>2, <1>12, <1>17, <1>19 DEF StateOK, Moved
<1>21. TypeOK'
  BY <1>1, <1>2, <1>12, <1>17, <1>19 DEF IInv, TypeOK, Heaps, WireOK, Moved, Disps
<1>22. Sound(slot, heap', live, wire', out, disp')
  <2>1. HeldSound(slot, heap', live, disp')
    <3> SUFFICES ASSUME NEW c \in Aspace, NEW p \in Proxy, HeldIn(live, disp', c, p)
                 PROVE  slot[c][p] # 0 /\ heap'[slot[c][p]].self
      BY DEF HeldSound
    <3>1. HeldIn(live, disp, c, p)
      BY <1>12 DEF Moved
    <3>2. slot[c][p] # 0 /\ heap[slot[c][p]].self
      BY <1>3, <3>1 DEF Sound, HeldSound
    <3>3. QED
      BY <1>3, <1>18, <3>2 DEF Slots
  <2>2. \A n \in DOMAIN wire' : MessageSound(n)
    BY <1>3, <1>13, <1>17 DEF Sound
  <2>3. \A c, e \in Aspace : DispatchSound(slot, disp'[c][e], c, e)
    BY <1>3, <1>11, <1>12 DEF Moved, Sound
  <2>4. QED
    BY <1>3, <1>19, <2>1, <2>2, <2>3, RecountedFrame DEF Sound
<1>23. ASSUME NEW p \in Proxy
       PROVE  CountsSound(slot, heap', wire', out, disp', p) /\ FreeSound(slot, live, wire', out, disp', p)
  <2>1. CountsSound(slot, heap, wire, out, disp, p) /\ FreeSound(slot, live, wire, out, disp, p)
    BY DEF IInv
  <2>2. Owed(heap', out, p) = Owed(heap, out, p)
    BY <1>3, <1>19, RecountedFrame
  <2>3. Total(DispAt(heap', disp', p)) <= Total(DispAt(heap, disp, p))
    <3>1. Total(DispAt(heap', disp, p)) = Total(DispAt(heap, disp, p))
      <4>1. \A c, e \in Aspace : BusyIn(heap', disp[c][e], p) = BusyIn(heap, disp[c][e], p)
        BY <1>3, <1>19, RecountedFrame DEF Disps
      <4>2. QED
        BY <4>1, DispSame
    <3>2. Total(DispAt(heap', disp', p)) + BusyIn(heap', d, p) = Total(DispAt(heap', disp, p)) + BusyIn(heap', x, p)
      BY <1>12 DEF Moved
    <3>3. BusyIn(heap', x, p) <= BusyIn(heap', d, p) /\ BusyIn(heap', x, p) \in Nat /\ BusyIn(heap', d, p) \in Nat
      BY <1>4, <1>11, BusyIsNat
    <3>4. Total(DispAt(heap', disp', p)) \in Nat /\ Total(DispAt(heap', disp, p)) \in Nat
      BY <1>3, <1>12, DispNat DEF Moved
    <3>5. QED
      BY <3>1, <3>2, <3>3, <3>4
  <2>4. Counts(slot, heap', wire', out, disp', p) + Owed(heap, out, p)
          <= Counts(slot, heap, wire, out, disp, p) + Owed(heap', out, p)
    <3>1. Total(WireAt(wire', p)) <= Total(WireAt(wire, p)) + SumOf(r.returns, p)
      BY <1>17
    <3>2. /\ Positive(LocalIn(slot, heap', a, p)) + SumOf(r.returns, p) <= Positive(LocalIn(slot, heap, a, p))
          /\ Total(VectorAt(slot, heap', p)) + Positive(LocalIn(slot, heap, a, p))
               = Total(VectorAt(slot, heap, p)) + Positive(LocalIn(slot, heap', a, p))
      BY <1>1, <1>15
    <3>3. /\ Positive(LocalIn(slot, heap', a, p)) \in Nat /\ Positive(LocalIn(slot, heap, a, p)) \in Nat
          /\ SumOf(r.returns, p) \in Nat
      BY <1>3, <1>10, <1>19, LocalIsInt, SumIsNumber DEF Positive
    <3>4. Counts(slot, heap', wire', out, disp', p) <= Counts(slot, heap, wire, out, disp, p)
      BY <1>2, <1>20, <2>3, <3>1, <3>2, <3>3, SumsAreNumbers DEF Counts
    <3>5. Owed(heap, out, p) \in Nat /\ Counts(slot, heap', wire', out, disp', p) \in Nat
          /\ Counts(slot, heap, wire, out, disp, p) \in Nat
      BY <1>2, <1>20, SumsAreNumbers
    <3>6. QED
      BY <2>2, <3>4, <3>5
  <2>5. Clean(slot, heap, wire, out, disp, p) => Clean(slot, heap', wire', out, disp', p)
    <3>1. SUFFICES ASSUME Clean(slot, heap, wire, out, disp, p)
                   PROVE  Clean(slot, heap', wire', out, disp', p)
      OBVIOUS
    <3>2. \A c, e \in Aspace : Fine(disp'[c][e].kind, disp'[c][e].body, p)
      BY <1>12, <3>1 DEF Moved, Clean
    <3>3. Fine(m.kind, m.body, p)
      BY <1>13, <1>14 DEF Fine
    <3>4. ASSUME NEW c \in Aspace, slot[c][p] # 0 PROVE heap'[slot[c][p]].count >= 1
      <4>1. slot[c][p] \in Cell
        <5>1. slot[c][p] \in Cell \cup {0}
          BY <1>3 DEF Slots
        <5>2. QED
          BY <3>4, <5>1
      <4>2. QED
        BY <1>1, <1>16, <3>1, <3>4, <4>1 DEF Clean
    <3>5. \A t \in Thread : \A i \in DOMAIN out[t].losers : out[t].losers[i] \in Cell
      BY <1>3, ListElements DEF Outs, Blocked
    <3>6. \A t \in Thread : \A i \in DOMAIN out[t].losers : heap'[out[t].losers[i]].proxy # p
      BY <1>18, <3>1, <3>5 DEF Clean
    <3>7. QED
      BY <1>17, <3>1, <3>2, <3>3, <3>4, <3>6 DEF Clean
  <2>6. CountsSound(slot, heap', wire', out, disp', p)
    BY <1>2, <1>20, <2>1, <2>4, <2>5, CountsCarried
  <2>7. FreeSound(slot, live, wire', out, disp', p)
    <3>1. SUFFICES ASSUME slot[Owner][p] = 0
                   PROVE  /\ \A n \in DOMAIN wire' : ~Mentions(n.body, p)
                          /\ \A c, e \in Aspace : ~Mentions(disp'[c][e].body, p)
      BY <2>1 DEF FreeSound
    <3>2. /\ \A n \in DOMAIN wire : ~Mentions(n.body, p)
          /\ \A c, e \in Aspace : ~Mentions(disp[c][e].body, p)
          /\ slot[a][p] = 0
      BY <2>1, <3>1 DEF FreeSound
    <3>3. ~Mentions(m.body, p)
      BY <1>13, <1>15, <3>2
    <3>4. \A c, e \in Aspace : ~Mentions(disp'[c][e].body, p)
      BY <1>12, <3>2 DEF Moved
    <3>5. QED
      BY <1>17, <3>2, <3>3, <3>4
  <2>8. QED
    BY <2>6, <2>7
<1>24. QED
  BY <1>1, <1>21, <1>22, <1>23 DEF IInv

-----------------------------------------------------------------------------
(* Messages with proxies.                                                  *)

\* The encoding of the proxies ps by a, with the heap h.
EncodedOf(s, h, a, ps, e) ==
  /\ e.heap \in Heaps /\ e.body \in Body /\ e.losers \in Seq(Cell)
  /\ \A c \in Cell : /\ e.heap[c].proxy = h[c].proxy /\ e.heap[c].waiters = h[c].waiters
                     /\ e.heap[c].self = h[c].self
                     /\ c \notin CellsOf(s, a) => e.heap[c].count = h[c].count
  /\ DOMAIN e.body = DOMAIN ps
  /\ \A i \in DOMAIN ps : e.body[i][1] = ps[i] /\ e.body[i][2] >= 1
  /\ \A i \in DOMAIN e.losers : \E p \in Proxy : /\ Mentions(e.body, p) /\ e.losers[i] = s[a][p] /\ s[a][p] # 0
                                                 /\ e.heap[s[a][p]].count < 1
  /\ \A p \in Proxy :
       /\ Positive(LocalIn(s, e.heap, a, p)) + SumOf(e.body, p)
            <= Positive(LocalIn(s, h, a, p)) + LosersIn(h, e.losers, p)
       /\ LocalIn(s, h, a, p) >= 1 /\ LocalIn(s, e.heap, a, p) < 1 =>
            Positive(LocalIn(s, e.heap, a, p)) + SumOf(e.body, p) + 1
              <= Positive(LocalIn(s, h, a, p)) + LosersIn(h, e.losers, p)
       /\ LosersIn(h, e.losers, p) <= SumOf(e.body, p)

\* The proxy-data of the proxies of a message.
LEMMA DataAre ==
  ASSUME slot \in Slots, NEW h \in Heaps, SlotsSound(slot, h), NEW a \in Aspace, NEW ps \in Seq(Proxy),
         \A i \in DOMAIN ps : slot[a][ps[i]] # 0
  PROVE  /\ DataOf(a, ps) \in Seq(Cell) /\ Len(DataOf(a, ps)) = Len(ps)
         /\ DOMAIN ps = 1 .. Len(ps) /\ Len(ps) \in Nat
         /\ \A i \in 1 .. Len(ps) : /\ DataOf(a, ps)[i] = slot[a][ps[i]] /\ ps[i] \in Proxy
                                    /\ h[DataOf(a, ps)[i]].proxy = ps[i]
                                    /\ DataOf(a, ps)[i] \in Cell
<1>1. DOMAIN ps = 1 .. Len(ps) /\ Len(ps) \in Nat /\ \A i \in DOMAIN ps : ps[i] \in Proxy
  BY ListElements
<1>2. \A i \in DOMAIN ps : slot[a][ps[i]] \in Cell
  <2>1. \A p \in Proxy : slot[a][p] \in Cell \cup {0}
    BY DEF Slots
  <2>2. QED
    BY <1>1, <2>1
<1>3. DataOf(a, ps) = [i \in 1 .. Len(ps) |-> slot[a][ps[i]]]
  BY <1>1 DEF DataOf
<1>4. DataOf(a, ps) \in [1 .. Len(ps) -> Cell]
  BY <1>1, <1>2, <1>3
<1>5. DataOf(a, ps) \in Seq(Cell) /\ Len(DataOf(a, ps)) = Len(ps)
  BY <1>1, <1>3, <1>4
<1>6. \A i \in 1 .. Len(ps) : h[slot[a][ps[i]]].proxy = ps[i]
  BY <1>1 DEF SlotsSound
<1>7. QED
  BY <1>1, <1>2, <1>3, <1>5, <1>6

\* A message that is encoded once debits every proxy in it.
LEMMA EncodedOnce ==
  ASSUME slot \in Slots, NEW h \in Heaps, SlotsSound(slot, h), NEW a \in Aspace, NEW ps \in Seq(Proxy),
         \A i \in DOMAIN ps : slot[a][ps[i]] # 0
  PROVE  EncodedOf(slot, h, a, ps, EncodeFrom(h, DataOf(a, ps)))
<1> DEFINE ds == DataOf(a, ps)
           e == EncodeFrom(h, ds)
<1>1. /\ ds \in Seq(Cell) /\ Len(ds) = Len(ps)
      /\ DOMAIN ps = 1 .. Len(ps) /\ Len(ps) \in Nat
      /\ \A i \in 1 .. Len(ps) : ds[i] = slot[a][ps[i]] /\ ps[i] \in Proxy /\ h[ds[i]].proxy = ps[i] /\ ds[i] \in Cell
  BY DataAre
<1> HIDE DEF ds
<1>2. EncodedTo(h, ds, e, Len(ds))
  BY <1>1, EncodeFold DEF Heaps
<1> HIDE DEF e
<1>3. e.heap \in Heaps /\ e.body \in Body /\ e.losers \in Seq(Cell)
  BY <1>2 DEF EncodedTo, Encoding, Heaps
<1>4. ASSUME NEW c \in Cell
      PROVE  /\ e.heap[c].proxy = h[c].proxy /\ e.heap[c].waiters = h[c].waiters
             /\ e.heap[c].self = h[c].self
             /\ c \notin CellsOf(slot, a) => e.heap[c].count = h[c].count
  <2>1. h[c] \in ProxyData
    BY DEF Heaps
  <2>2. Refilled(h[c], e.heap[c])
    BY <1>2 DEF EncodedTo
  <2>3. (\A i \in 1 .. Len(ds) : ds[i] # c) => e.heap[c].count = h[c].count
    BY <1>2 DEF EncodedTo
  <2>4. c \notin CellsOf(slot, a) => \A i \in 1 .. Len(ds) : ds[i] # c
    BY <1>1 DEF CellsOf
  <2>5. QED
    BY <2>1, <2>2, <2>3, <2>4, RefilledIs
<1>5. DOMAIN e.body = DOMAIN ps /\ \A i \in DOMAIN ps : e.body[i][1] = ps[i] /\ e.body[i][2] >= 1
  <2>1. Len(e.body) = Len(ds) /\ \A i \in 1 .. Len(ds) : e.body[i][1] = h[ds[i]].proxy /\ e.body[i][2] >= 1
    BY <1>2 DEF EncodedTo
  <2>2. QED
    BY <1>1, <1>3, <2>1, BodyItems
<1>6. ASSUME NEW i \in DOMAIN e.losers
      PROVE  \E p \in Proxy : Mentions(e.body, p) /\ e.losers[i] = slot[a][p] /\ slot[a][p] # 0
                              /\ e.heap[slot[a][p]].count < 1
  <2>1. (\E j \in 1 .. Len(ds) : e.losers[i] = ds[j]) /\ e.heap[e.losers[i]].count < 1
    BY <1>2 DEF EncodedTo
  <2>2. PICK j \in 1 .. Len(ds) : e.losers[i] = ds[j]
    BY <2>1
  <2>3. ps[j] \in Proxy /\ e.losers[i] = slot[a][ps[j]] /\ j \in DOMAIN e.body /\ e.body[j][1] = ps[j]
    BY <1>1, <1>5, <2>2
  <2>4. Mentions(e.body, ps[j])
    BY <2>3 DEF Mentions
  <2>5. slot[a][ps[j]] # 0
    BY <1>1, <2>2
  <2>6. QED
    BY <2>1, <2>3, <2>4, <2>5
<1>7. ASSUME NEW p \in Proxy
      PROVE  /\ Positive(LocalIn(slot, e.heap, a, p)) + SumOf(e.body, p)
                  <= Positive(LocalIn(slot, h, a, p)) + LosersIn(h, e.losers, p)
             /\ LocalIn(slot, h, a, p) >= 1 /\ LocalIn(slot, e.heap, a, p) < 1 =>
                  Positive(LocalIn(slot, e.heap, a, p)) + SumOf(e.body, p) + 1
                    <= Positive(LocalIn(slot, h, a, p)) + LosersIn(h, e.losers, p)
             /\ LosersIn(h, e.losers, p) <= SumOf(e.body, p)
  <2>1. CASE slot[a][p] = 0
    <3>1. \A i \in DOMAIN ps : ps[i] # p
      BY <2>1
    <3>2. SumOf(e.body, p) = 0
      BY <1>5, <3>1, SumOfUnmentioned DEF Mentions
    <3>3. ASSUME NEW i \in DOMAIN e.losers PROVE h[e.losers[i]].proxy # p
      <4>1. PICK j \in 1 .. Len(ds) : e.losers[i] = ds[j]
        BY <1>2 DEF EncodedTo
      <4>2. QED
        BY <1>1, <3>1, <4>1
    <3>4. LosersIn(h, e.losers, p) = 0
      <4>1. DOMAIN LoserAt(h, e.losers, p) = DOMAIN e.losers
            /\ \A i \in DOMAIN e.losers : LoserAt(h, e.losers, p)[i] = 0
        BY <3>3 DEF LoserAt
      <4>2. QED
        BY <4>1, TotalOfNone DEF LosersIn
    <3>5. LocalIn(slot, h, a, p) = 0 /\ LocalIn(slot, e.heap, a, p) = 0
      BY <2>1 DEF LocalIn
    <3>6. QED
      BY <3>2, <3>4, <3>5 DEF Positive
  <2>2. CASE slot[a][p] # 0
    <3>1. slot[a][p] \in Cell
      <4>1. slot[a][p] \in Cell \cup {0}
        BY DEF Slots
      <4>2. QED
        BY <2>2, <4>1
    <3>2. h[slot[a][p]].proxy = p
      BY <2>2 DEF SlotsSound
    <3>3. \A i \in 1 .. Len(ds) : h[ds[i]].proxy = p => ds[i] = slot[a][p]
      BY <1>1
    <3>4. EncodedCounts(h, e, p, slot[a][p])
      BY <1>2, <3>1, <3>2, <3>3 DEF EncodedTo
    <3>5. QED
      BY <2>2, <3>4 DEF EncodedCounts, LocalIn
  <2>3. QED
    BY <2>1, <2>2
<1>8. EncodedOf(slot, h, a, ps, e)
  BY <1>3, <1>4, <1>5, <1>6, <1>7 DEF EncodedOf
<1>9. QED
  BY <1>8 DEF e, ds

\* Encoding again: the counts of the first time are lost.
LEMMA EncodedTwice ==
  ASSUME slot \in Slots, NEW h \in Heaps, SlotsSound(slot, h), NEW a \in Aspace, NEW ps \in Seq(Proxy),
         NEW e, EncodedOf(slot, h, a, ps, e), NEW f, EncodedOf(slot, e.heap, a, ps, f)
  PROVE  EncodedOf(slot, h, a, ps, f)
<1>1. /\ e.heap \in Heaps /\ f.heap \in Heaps /\ f.body \in Body /\ f.losers \in Seq(Cell)
      /\ e.body \in Body /\ e.losers \in Seq(Cell)
  BY DEF EncodedOf
<1>2. \A c \in Cell : /\ f.heap[c].proxy = h[c].proxy /\ f.heap[c].waiters = h[c].waiters
                      /\ f.heap[c].self = h[c].self
                      /\ c \notin CellsOf(slot, a) => f.heap[c].count = h[c].count
  BY DEF EncodedOf
<1>3. /\ DOMAIN f.body = DOMAIN ps
      /\ \A i \in DOMAIN ps : f.body[i][1] = ps[i] /\ f.body[i][2] >= 1
      /\ \A i \in DOMAIN f.losers : \E p \in Proxy : /\ Mentions(f.body, p) /\ f.losers[i] = slot[a][p] /\ slot[a][p] # 0
                                                     /\ f.heap[slot[a][p]].count < 1
  BY DEF EncodedOf
<1>4. ASSUME NEW p \in Proxy
      PROVE  /\ Positive(LocalIn(slot, f.heap, a, p)) + SumOf(f.body, p)
                  <= Positive(LocalIn(slot, h, a, p)) + LosersIn(h, f.losers, p)
             /\ LocalIn(slot, h, a, p) >= 1 /\ LocalIn(slot, f.heap, a, p) < 1 =>
                  Positive(LocalIn(slot, f.heap, a, p)) + SumOf(f.body, p) + 1
                    <= Positive(LocalIn(slot, h, a, p)) + LosersIn(h, f.losers, p)
             /\ LosersIn(h, f.losers, p) <= SumOf(f.body, p)
  <2> DEFINE L == LocalIn(slot, h, a, p)
             M == LocalIn(slot, e.heap, a, p)
             N == LocalIn(slot, f.heap, a, p)
             s1 == SumOf(e.body, p)
             s2 == SumOf(f.body, p)
             l1 == LosersIn(h, e.losers, p)
             l2 == LosersIn(h, f.losers, p)
  <2>1. L \in Int /\ M \in Int /\ N \in Int
    BY <1>1, LocalIsInt
  <2>2. s1 \in Nat /\ s2 \in Nat /\ l1 \in Nat /\ l2 \in Nat
    BY <1>1, SumIsNumber, LosersAreNumber
  <2>3. LosersIn(e.heap, f.losers, p) = l2
    <3>1. \A i \in DOMAIN f.losers : f.losers[i] \in Cell
      BY <1>1, ListElements
    <3>2. \A i \in DOMAIN f.losers : e.heap[f.losers[i]].proxy = h[f.losers[i]].proxy
      BY <3>1 DEF EncodedOf
    <3>3. QED
      BY <3>2, LosersSame
  <2>4. /\ Positive(M) + s1 <= Positive(L) + l1
        /\ L >= 1 /\ M < 1 => Positive(M) + s1 + 1 <= Positive(L) + l1
        /\ l1 <= s1
    BY DEF EncodedOf
  <2>5. /\ Positive(N) + s2 <= Positive(M) + l2
        /\ M >= 1 /\ N < 1 => Positive(N) + s2 + 1 <= Positive(M) + l2
        /\ l2 <= s2
    BY <2>3 DEF EncodedOf
  <2> HIDE DEF L, M, N, s1, s2, l1, l2
  <2>6. Positive(L) \in Nat /\ Positive(M) \in Nat /\ Positive(N) \in Nat
    BY <2>1 DEF Positive
  <2>7. Positive(M) <= Positive(L) /\ (L >= 1 /\ M < 1 => Positive(M) + 1 <= Positive(L))
    BY <2>2, <2>4, <2>6
  <2>8. Positive(N) + s2 <= Positive(L) + l2
    BY <2>2, <2>5, <2>6, <2>7
  <2>9. L >= 1 /\ N < 1 => Positive(N) + s2 + 1 <= Positive(L) + l2
    <3>1. CASE M >= 1
      BY <2>2, <2>5, <2>6, <2>7, <3>1
    <3>2. CASE M < 1
      BY <2>2, <2>5, <2>6, <2>7, <3>2
    <3>3. QED
      BY <2>1, <3>1, <3>2
  <2>10. QED
    BY <2>5, <2>8, <2>9 DEF L, N, s2, l2
<1>5. QED
  BY <1>1, <1>2, <1>3, <1>4 DEF EncodedOf

\* really-encode.
LEMMA EncodedReally ==
  ASSUME slot \in Slots, heap \in Heaps, SlotsSound(slot, heap), NEW a \in Aspace, NEW ps \in Seq(Proxy),
         \A i \in DOMAIN ps : slot[a][ps[i]] # 0, NEW retried \in BOOLEAN
  PROVE  EncodedOf(slot, heap, a, ps, ReallyEncode(DataOf(a, ps), retried))
<1> DEFINE e == EncodeFrom(heap, DataOf(a, ps))
           f == EncodeFrom(e.heap, DataOf(a, ps))
<1>1. EncodedOf(slot, heap, a, ps, e)
  BY EncodedOnce
<1>2. CASE ~retried
  <2>1. ReallyEncode(DataOf(a, ps), retried) = e
    BY <1>2 DEF ReallyEncode
  <2>2. QED
    BY <1>1, <2>1
<1>3. CASE retried
  <2>1. ReallyEncode(DataOf(a, ps), retried) = f
    BY <1>3 DEF ReallyEncode
  <2> HIDE DEF e
  <2>2. e.heap \in Heaps /\ \A c \in Cell : e.heap[c].proxy = heap[c].proxy
    BY <1>1 DEF EncodedOf
  <2>3. SlotsSound(slot, e.heap)
    <3>1. \A c \in Aspace, p \in Proxy : slot[c][p] \in Cell \cup {0}
      BY DEF Slots
    <3>2. \A c \in Aspace, p \in Proxy : slot[c][p] # 0 => slot[c][p] \in Cell
      BY <3>1
    <3>3. QED
      BY <2>2, <3>2 DEF SlotsSound
  <2>4. EncodedOf(slot, e.heap, a, ps, f)
    BY <2>2, <2>3, EncodedOnce
  <2> HIDE DEF f
  <2>5. EncodedOf(slot, heap, a, ps, f)
    BY <1>1, <2>4, EncodedTwice
  <2>6. QED
    BY <2>1, <2>5
<1>4. QED
  BY <1>2, <1>3

\* What the encoding does to the counts.
LEMMA EncodedVectors ==
  ASSUME NEW s \in Slots, NEW h \in Heaps, SlotsSound(s, h), NEW a \in Aspace, NEW ps,
         NEW e, EncodedOf(s, h, a, ps, e), NEW p \in Proxy
  PROVE  /\ Total(VectorAt(s, e.heap, p)) + SumOf(e.body, p) <= Total(VectorAt(s, h, p)) + LosersIn(h, e.losers, p)
         /\ (\A c \in Aspace : s[c][p] # 0 => h[s[c][p]].count >= 1) =>
              \/ \A c \in Aspace : s[c][p] # 0 => e.heap[s[c][p]].count >= 1
              \/ Total(VectorAt(s, e.heap, p)) + SumOf(e.body, p) + 1
                   <= Total(VectorAt(s, h, p)) + LosersIn(h, e.losers, p)
<1> DEFINE L == LocalIn(s, h, a, p)
           M == LocalIn(s, e.heap, a, p)
           V == Total(VectorAt(s, h, p))
           W == Total(VectorAt(s, e.heap, p))
           b == SumOf(e.body, p)
           l == LosersIn(h, e.losers, p)
<1>1. e.heap \in Heaps /\ e.body \in Body /\ e.losers \in Seq(Cell)
  BY DEF EncodedOf
<1>2. L \in Int /\ M \in Int /\ V \in Nat /\ W \in Nat /\ b \in Nat /\ l \in Nat
  BY <1>1, LocalIsInt, VectorsNat, SumIsNumber, LosersAreNumber
<1>3. /\ \A c \in Aspace \ {a} : LocalIn(s, e.heap, c, p) = LocalIn(s, h, c, p)
      /\ W + Positive(L) = V + Positive(M)
  <2>1. \A c \in Cell : c \notin CellsOf(s, a) => e.heap[c].count = h[c].count
    BY DEF EncodedOf
  <2>2. QED
    BY <1>1, <2>1, VectorsOfOne
<1>4. /\ Positive(M) + b <= Positive(L) + l
      /\ L >= 1 /\ M < 1 => Positive(M) + b + 1 <= Positive(L) + l
  BY DEF EncodedOf
<1>5. Positive(L) \in Nat /\ Positive(M) \in Nat
  BY <1>2 DEF Positive
<1>6. ASSUME \A c \in Aspace : s[c][p] # 0 => h[s[c][p]].count >= 1, ~(L >= 1 /\ M < 1)
      PROVE  \A c \in Aspace : s[c][p] # 0 => e.heap[s[c][p]].count >= 1
  <2> SUFFICES ASSUME NEW c \in Aspace, s[c][p] # 0 PROVE e.heap[s[c][p]].count >= 1
    OBVIOUS
  <2>1. LocalIn(s, h, c, p) = h[s[c][p]].count /\ LocalIn(s, e.heap, c, p) = e.heap[s[c][p]].count
    BY DEF LocalIn
  <2>2. h[s[c][p]].count >= 1
    BY <1>6
  <2>3. CASE c = a
    <3>1. M = e.heap[s[c][p]].count /\ L >= 1
      BY <2>1, <2>2, <2>3
    <3>2. QED
      BY <1>2, <1>6, <3>1
  <2>4. CASE c # a
    BY <1>3, <2>1, <2>2, <2>4
  <2>5. QED
    BY <2>3, <2>4
<1> HIDE DEF L, M, V, W, b, l
<1>7. W + b <= V + l
  BY <1>2, <1>3, <1>4, <1>5
<1>8. L >= 1 /\ M < 1 => W + b + 1 <= V + l
  BY <1>2, <1>3, <1>4, <1>5
<1>9. QED
  BY <1>6, <1>7, <1>8 DEF V, W, b, l

\* The owner answers a request with a message that carries counts of its own.
LEMMA ProcessRequestKeeps ==
  ASSUME IInv, NEW a \in Aspace, NEW b \in Aspace, ProcessRequest(a, b)
  PROVE  IInv'
<1> DEFINE body == disp[a][b].body
           ps == [i \in DOMAIN body |-> body[i][1]]
           Asked(d) == \E i \in DOMAIN ps : slot[a][ps[i]] = d
           h == [d \in Cell |-> IF Asked(d) THEN [heap[d] EXCEPT !.self = TRUE] ELSE heap[d]]
           e == EncodeFrom(h, DataOf(a, ps))
           m == Msg("counts", a, b, e.body)
<1>1. /\ disp[a][b].kind = "request" /\ disp' = Assigned(disp, a, b, Idle)
      /\ \A i \in DOMAIN ps : slot[a][ps[i]] # 0
      /\ e.losers = <<>> /\ heap' = e.heap /\ wire' = Post(wire, m)
      /\ UNCHANGED <<slot, live, out, sends>>
  BY DEF ProcessRequest, Processing, Done, Assigned
<1>2. StateOK(slot, heap, wire, out, disp) /\ live \in [Aspace -> SUBSET Proxy] /\ sends \in [Aspace -> Nat]
  BY TypesAre DEF IInv
<1>3. heap \in Heaps /\ WireOK(wire) /\ disp \in Disps /\ slot \in Slots /\ out \in Outs
      /\ Sound(slot, heap, live, wire, out, disp)
  BY <1>2 DEF StateOK, IInv
<1>4. body \in Body
  BY <1>3 DEF Disps, Dispatcher
<1>5. ps \in Seq(Proxy) /\ DOMAIN ps = DOMAIN body /\ \A i \in DOMAIN ps : ps[i] = body[i][1]
  <2>1. DOMAIN body = 1 .. Len(body) /\ Len(body) \in Nat /\ \A i \in DOMAIN body : body[i][1] \in Proxy
    BY <1>4, BodyItems
  <2> HIDE DEF body
  <2>2. ps \in [1 .. Len(body) -> Proxy]
    BY <2>1
  <2>3. QED
    BY <2>1, <2>2
<1> HIDE DEF ps
<1>6. a = Owner
  BY <1>1, <1>3 DEF Sound, DispatchSound, Routed
<1>7. \A d \in Cell : /\ h[d] \in ProxyData /\ h[d].count = heap[d].count
                      /\ h[d].proxy = heap[d].proxy /\ h[d].waiters = heap[d].waiters
                      /\ heap[d].self => h[d].self
  <2> SUFFICES ASSUME NEW d \in Cell
               PROVE  /\ h[d] \in ProxyData /\ h[d].count = heap[d].count
                      /\ h[d].proxy = heap[d].proxy /\ h[d].waiters = heap[d].waiters
                      /\ heap[d].self => h[d].self
    OBVIOUS
  <2>1. h[d] = (IF Asked(d) THEN [heap[d] EXCEPT !.self = TRUE] ELSE heap[d]) /\ heap[d] \in ProxyData
    BY <1>3 DEF Heaps
  <2> HIDE DEF h, Asked
  <2>2. CASE Asked(d)
    BY <2>1, <2>2 DEF ProxyData
  <2>3. CASE ~Asked(d)
    BY <2>1, <2>3
  <2>4. QED
    BY <2>2, <2>3
<1>8. h \in Heaps
  <2>1. h = [d \in Cell |-> h[d]]
    OBVIOUS
  <2> HIDE DEF h
  <2>2. QED
    BY <1>7, <2>1 DEF Heaps
<1> HIDE DEF h
<1>9. Recounted(heap, h) /\ SlotsSound(slot, h)
  <2>1. Recounted(heap, h)
    BY <1>7 DEF Recounted
  <2>2. QED
    BY <1>3, <1>8, <2>1, RecountedFrame DEF Sound
<1>10. EncodedOf(slot, h, a, ps, e)
  BY <1>1, <1>3, <1>5, <1>8, <1>9, EncodedOnce
<1> HIDE DEF e
<1>11. /\ heap' \in Heaps /\ e.body \in Body
       /\ \A c \in Cell : /\ heap'[c].proxy = heap[c].proxy /\ heap'[c].waiters = heap[c].waiters
                          /\ heap[c].self => heap'[c].self
       /\ DOMAIN e.body = DOMAIN ps /\ \A i \in DOMAIN ps : e.body[i][1] = ps[i] /\ e.body[i][2] >= 1
  BY <1>1, <1>7, <1>10 DEF EncodedOf
<1>12. Recounted(heap, heap') /\ Recounted(h, heap')
  BY <1>7, <1>11 DEF Recounted
<1>13. m \in Message /\ m.kind = "counts" /\ m.body = e.body /\ MessageSound(m)
  <2>1. m \in Message /\ m.kind = "counts" /\ m.body = e.body /\ m.from = Owner
    BY <1>6, <1>11 DEF Msg, Message
  <2>2. QED
    BY <1>11, <2>1 DEF MessageSound, Routed, Counted
<1> HIDE DEF m
<1>14. /\ WireOK(wire')
       /\ DOMAIN wire' = DOMAIN wire \cup {m}
       /\ \A p : Total(WireAt(wire', p)) = Total(WireAt(wire, p)) + SumOf(e.body, p)
  <2>1. WireOK(wire) /\ m \in Message
    BY <1>3, <1>13
  <2>2. wire' = Post(wire, m)
    BY <1>1 DEF m
  <2>3. /\ WireOK(Post(wire, m))
        /\ DOMAIN Post(wire, m) = DOMAIN wire \cup {m}
        /\ \A p : Total(WireAt(Post(wire, m), p)) = Total(WireAt(wire, p)) + SumOf(m.body, p)
    BY <2>1, Posted
  <2>4. QED
    BY <1>13, <2>2, <2>3
<1>15. Finished(disp, disp', a, b)
  BY <1>1, <1>3, DispatcherDone
<1>16. StateOK(slot, heap', wire', out, disp') /\ StateOK(slot, h, wire, out, disp)
  BY <1>2, <1>8, <1>11, <1>14, <1>15 DEF StateOK, Finished
<1>17. TypeOK'
  BY <1>1, <1>2, <1>11, <1>14, <1>15 DEF IInv, TypeOK, Heaps, WireOK, Finished, Disps
<1>18. Sound(slot, heap', live, wire', out, disp')
  <2>1. HeldSound(slot, heap', live, disp')
    <3> SUFFICES ASSUME NEW c \in Aspace, NEW p \in Proxy, HeldIn(live, disp', c, p)
                 PROVE  slot[c][p] # 0 /\ heap'[slot[c][p]].self
      BY DEF HeldSound
    <3>1. HeldIn(live, disp, c, p)
      BY <1>15 DEF Finished
    <3>2. slot[c][p] # 0 /\ heap[slot[c][p]].self
      BY <1>3, <3>1 DEF Sound, HeldSound
    <3>3. QED
      BY <1>3, <1>11, <3>2 DEF Slots
  <2>2. \A n \in DOMAIN wire' : MessageSound(n)
    BY <1>3, <1>13, <1>14 DEF Sound
  <2>3. \A c, d \in Aspace : DispatchSound(slot, disp'[c][d], c, d)
    BY <1>3, <1>15 DEF Finished, Sound
  <2>4. QED
    BY <1>3, <1>11, <1>12, <2>1, <2>2, <2>3, RecountedFrame DEF Sound
<1>19. ASSUME NEW p \in Proxy
       PROVE  CountsSound(slot, heap', wire', out, disp', p) /\ FreeSound(slot, live, wire', out, disp', p)
  <2>1. CountsSound(slot, heap, wire, out, disp, p) /\ FreeSound(slot, live, wire, out, disp, p)
    BY DEF IInv
  <2>2. /\ Counts(slot, h, wire, out, disp, p) = Counts(slot, heap, wire, out, disp, p)
        /\ Owed(h, out, p) = Owed(heap, out, p)
        /\ Clean(slot, h, wire, out, disp, p) <=> Clean(slot, heap, wire, out, disp, p)
    BY <1>2, <1>7, <1>8, <1>9, SameCounts
  <2>3. Owed(heap', out, p) = Owed(heap, out, p)
    BY <1>3, <1>11, <1>12, RecountedFrame
  <2>4. Total(DispAt(heap', disp', p)) <= Total(DispAt(h, disp, p))
    <3>1. \A c, d \in Aspace : BusyIn(heap', disp[c][d], p) = BusyIn(h, disp[c][d], p)
      <4>1. \A d \in Dispatcher : BusyIn(heap', d, p) = BusyIn(h, d, p)
        BY <1>3, <1>8, <1>11, <1>12, RecountedFrame
      <4>2. QED
        BY <1>3, <4>1 DEF Disps
    <3>2. Total(DispAt(heap', disp, p)) = Total(DispAt(h, disp, p))
      BY <3>1, DispSame
    <3>3. QED
      BY <1>15, <3>2 DEF Finished
  <2>5. LosersIn(h, e.losers, p) = 0
    BY <1>1, LosersOfEmpty
  <2>6. /\ Total(VectorAt(slot, heap', p)) + SumOf(e.body, p) <= Total(VectorAt(slot, h, p)) + 0
        /\ (\A c \in Aspace : slot[c][p] # 0 => h[slot[c][p]].count >= 1) =>
             \/ \A c \in Aspace : slot[c][p] # 0 => heap'[slot[c][p]].count >= 1
             \/ Total(VectorAt(slot, heap', p)) + SumOf(e.body, p) + 1 <= Total(VectorAt(slot, h, p)) + 0
    <3>1. /\ Total(VectorAt(slot, e.heap, p)) + SumOf(e.body, p)
               <= Total(VectorAt(slot, h, p)) + LosersIn(h, e.losers, p)
          /\ (\A c \in Aspace : slot[c][p] # 0 => h[slot[c][p]].count >= 1) =>
               \/ \A c \in Aspace : slot[c][p] # 0 => e.heap[slot[c][p]].count >= 1
               \/ Total(VectorAt(slot, e.heap, p)) + SumOf(e.body, p) + 1
                    <= Total(VectorAt(slot, h, p)) + LosersIn(h, e.losers, p)
      BY <1>3, <1>8, <1>9, <1>10, EncodedVectors
    <3>2. QED
      BY <1>1, <2>5, <3>1
  <2>7. SumOf(e.body, p) \in Nat
    BY <1>11, SumIsNumber
  <2>8. Total(WireAt(wire', p)) = Total(WireAt(wire, p)) + SumOf(e.body, p)
    BY <1>14
  <2>9. Counts(slot, heap', wire', out, disp', p) <= Counts(slot, h, wire, out, disp, p)
    BY <1>16, <2>4, <2>6, <2>7, <2>8, SumsAreNumbers DEF Counts
  <2>10. Total(VectorAt(slot, heap', p)) + SumOf(e.body, p) + 1 <= Total(VectorAt(slot, h, p)) + 0
           => Counts(slot, heap', wire', out, disp', p) < Counts(slot, h, wire, out, disp, p)
    BY <1>16, <2>4, <2>7, <2>8, SumsAreNumbers DEF Counts
  <2>11. /\ Owed(heap, out, p) \in Nat /\ Counts(slot, heap', wire', out, disp', p) \in Nat
         /\ Counts(slot, heap, wire, out, disp, p) \in Nat
    BY <1>2, <1>16, SumsAreNumbers
  <2>12. ASSUME Clean(slot, heap, wire, out, disp, p)
         PROVE  Clean(slot, heap', wire', out, disp', p) \/
                Counts(slot, heap', wire', out, disp', p) < Counts(slot, h, wire, out, disp, p)
    <3>1. Clean(slot, h, wire, out, disp, p)
      BY <2>2, <2>12
    <3>2. SUFFICES ASSUME \A c \in Aspace : slot[c][p] # 0 => heap'[slot[c][p]].count >= 1
                   PROVE  Clean(slot, heap', wire', out, disp', p)
      <4>1. \A c \in Aspace : slot[c][p] # 0 => h[slot[c][p]].count >= 1
        BY <3>1 DEF Clean
      <4>2. QED
        BY <2>6, <2>10, <4>1
    <3>3. \A c, d \in Aspace : Fine(disp'[c][d].kind, disp'[c][d].body, p)
      BY <1>15, <3>1 DEF Finished, Clean
    <3>4. Fine(m.kind, m.body, p)
      BY <1>13, FineOfRun
    <3>5. \A t \in Thread : \A i \in DOMAIN out[t].losers : out[t].losers[i] \in Cell
      BY <1>3, ListElements DEF Outs, Blocked
    <3>6. \A t \in Thread : \A i \in DOMAIN out[t].losers : heap'[out[t].losers[i]].proxy # p
      BY <1>11, <2>12, <3>5 DEF Clean
    <3>7. QED
      BY <1>14, <3>1, <3>2, <3>3, <3>4, <3>6 DEF Clean
  <2>13. CountsSound(slot, heap', wire', out, disp', p)
    <3>1. Counts(slot, heap', wire', out, disp', p) + Owed(heap, out, p)
            <= Counts(slot, heap, wire, out, disp, p) + Owed(heap', out, p)
      BY <2>2, <2>3, <2>9, <2>11
    <3>2. Clean(slot, heap, wire, out, disp, p) => Clean(slot, heap', wire', out, disp', p) \/
            Counts(slot, heap', wire', out, disp', p) + Owed(heap, out, p)
              < Counts(slot, heap, wire, out, disp, p) + Owed(heap', out, p)
      BY <2>2, <2>3, <2>11, <2>12
    <3>3. QED
      BY <1>2, <1>16, <2>1, <3>1, <3>2, CountsCarried
  <2>14. FreeSound(slot, live, wire', out, disp', p)
    <3>1. SUFFICES ASSUME slot[Owner][p] = 0
                   PROVE  /\ \A n \in DOMAIN wire' : ~Mentions(n.body, p)
                          /\ \A c, d \in Aspace : ~Mentions(disp'[c][d].body, p)
      BY <2>1 DEF FreeSound
    <3>2. /\ \A n \in DOMAIN wire : ~Mentions(n.body, p)
          /\ \A c, d \in Aspace : ~Mentions(disp[c][d].body, p)
      BY <2>1, <3>1 DEF FreeSound
    <3>3. ~Mentions(m.body, p)
      BY <1>1, <1>6, <1>11, <1>13, <3>1 DEF Mentions
    <3>4. \A c, d \in Aspace : ~Mentions(disp'[c][d].body, p)
      BY <1>15, <3>2 DEF Finished
    <3>5. QED
      BY <1>14, <3>2, <3>3, <3>4
  <2>15. QED
    BY <2>13, <2>14
<1>20. QED
  BY <1>1, <1>17, <1>18, <1>19 DEF IInv

\* A message that the program sends is a list of proxies.
LEMMA BodiesAre ==
  ASSUME NEW ps \in Bodies
  PROVE  ps \in Seq(Proxy)
<1>1. PICK n \in 1 .. Occurs : ps \in [1 .. n -> Proxy]
  BY DEF Bodies
<1>2. n \in Nat
  BY ProxyCountsAssumption
<1>3. QED
  BY <1>1, <1>2

\* A thread that was free takes the message to wait with it.
Blocks(o, o2, t, a, b, e) ==
  o2 = [o EXCEPT ![t] = [stage |-> "encoded", from |-> a, to |-> b, body |-> e.body,
                         losers |-> e.losers, count |-> Len(e.losers)]]

\* A sender that blocks with its losers.
LEMMA BlockedIs ==
  ASSUME NEW h \in Heaps, NEW h2 \in Heaps, Recounted(h, h2), NEW o \in Outs, NEW o2,
         \A u \in Thread : ThreadSound(h, o, u), WaitersSound(h, o),
         NEW t \in Thread, o[t].stage = "free", NEW a \in Aspace, NEW b \in Aspace,
         NEW e, e.body \in Body, e.losers \in Seq(Cell), Blocks(o, o2, t, a, b, e),
         \A i \in DOMAIN e.body : e.body[i][2] >= 1,
         \A i \in DOMAIN e.losers : h[e.losers[i]].proxy \in Proxy,
         \A p \in Proxy : LosersIn(h, e.losers, p) <= SumOf(e.body, p)
  PROVE  /\ o2 \in Outs /\ \A u \in Thread : u # t => o2[u] = o[u]
         /\ o2[t].body = e.body /\ o2[t].losers = e.losers
         /\ \A u \in Thread : ThreadSound(h2, o2, u)
         /\ WaitersSound(h2, o2)
         /\ \A p \in Proxy : /\ Total(ThreadAt(o2, p)) = Total(ThreadAt(o, p)) + SumOf(e.body, p)
                             /\ Owed(h2, o2, p) = Owed(h, o, p) + LosersIn(h, e.losers, p)
<1>1. o \in [Thread -> Blocked]
  BY DEF Outs
<1>2. Len(e.losers) \in Nat
  OBVIOUS
<1> DEFINE x == [stage |-> "encoded", from |-> a, to |-> b, body |-> e.body,
                 losers |-> e.losers, count |-> Len(e.losers)]
<1>3. /\ x \in Blocked /\ x.stage = "encoded" /\ x.body = e.body /\ x.losers = e.losers
      /\ x.count = Len(e.losers)
  BY <1>2 DEF Blocked
<1>4. o2 = [o EXCEPT ![t] = x]
  BY DEF Blocks
<1> HIDE DEF x
<1>5. o2 \in Outs /\ o2[t] = x /\ \A u \in Thread : u # t => o2[u] = o[u]
  BY <1>1, <1>3, <1>4 DEF Outs
<1>6. \A c \in Cell : h2[c].proxy = h[c].proxy /\ h2[c].waiters = h[c].waiters
  BY DEF Recounted
<1>7. \A i \in DOMAIN e.losers : e.losers[i] \in Cell
  BY ListElements
<1>8. \A p : LosersIn(h2, e.losers, p) = LosersIn(h, e.losers, p)
  BY <1>6, <1>7, LosersSame
<1>9. \A p : LosingIn(h2, o2, t, p) = LosersIn(h, e.losers, p)
  BY <1>3, <1>5, <1>8 DEF LosingIn
<1>10. /\ \A u \in Thread : ThreadSound(h2, o, u)
       /\ WaitersSound(h2, o) /\ \A p : Owed(h2, o, p) = Owed(h, o, p)
  BY RecountedFrame
<1>11. ASSUME NEW u \in Thread PROVE ThreadSound(h2, o2, u)
  <2>1. CASE u = t
    <3>1. \A i \in DOMAIN e.losers : h2[e.losers[i]].proxy \in Proxy
      BY <1>6, <1>7
    <3>2. \A p \in Proxy : LosingIn(h2, o2, t, p) <= SumOf(e.body, p)
      BY <1>9
    <3>3. QED
      BY <1>3, <1>5, <2>1, <3>1, <3>2 DEF ThreadSound
  <2>2. CASE u # t
    <3>1. o2[u] = o[u]
      BY <1>5, <2>2
    <3>2. QED
      BY <1>10, <3>1 DEF ThreadSound, LosingIn
  <2>3. QED
    BY <2>1, <2>2
<1>12. WaitersSound(h2, o2)
  <2> SUFFICES ASSUME NEW c \in Cell, NEW i \in DOMAIN h2[c].waiters
               PROVE  WaiterSound(o2, h2[c].waiters[i], c)
    BY DEF WaitersSound
  <2>1. WaiterSound(o, h2[c].waiters[i], c)
    BY <1>10 DEF WaitersSound
  <2>2. h2[c].waiters[i] \in Thread
    BY PlacesAre
  <2>3. h2[c].waiters[i] # t
    BY <2>1 DEF WaiterSound
  <2>4. o2[h2[c].waiters[i]] = o[h2[c].waiters[i]]
    BY <1>5, <2>2, <2>3
  <2>5. QED
    BY <2>1, <2>4 DEF WaiterSound
<1>13. ASSUME NEW p \in Proxy
       PROVE  /\ Total(ThreadAt(o2, p)) = Total(ThreadAt(o, p)) + SumOf(e.body, p)
              /\ Owed(h2, o2, p) = Owed(h, o, p) + LosersIn(h, e.losers, p)
  <2>1. Total(ThreadAt(o2, p)) + SumOf(o[t].body, p) = Total(ThreadAt(o, p)) + SumOf(o2[t].body, p)
    BY <1>5, ThreadsChange
  <2>2. SumOf(o[t].body, p) = 0
    BY SumOfEmpty DEF ThreadSound
  <2>3. Total(ThreadAt(o2, p)) \in Nat /\ Total(ThreadAt(o, p)) \in Nat
    BY <1>5, ThreadsNat
  <2>4. Total(ThreadAt(o2, p)) = Total(ThreadAt(o, p)) + SumOf(e.body, p)
    BY <1>3, <1>5, <2>1, <2>2, <2>3
  <2>5. Total(LosingAt(h2, o2, p)) + LosingIn(h2, o, t, p) = Total(LosingAt(h2, o, p)) + LosingIn(h2, o2, t, p)
    <3>1. \A u \in Thread \ {t} : LosingIn(h2, o2, u, p) = LosingIn(h2, o, u, p)
      BY <1>5 DEF LosingIn
    <3>2. QED
      BY <1>5, <3>1, LosingChange
  <2>6. LosingIn(h2, o, t, p) = 0
    BY DEF LosingIn
  <2>7. /\ Total(LosingAt(h2, o2, p)) \in Nat /\ Total(LosingAt(h2, o, p)) \in Nat
        /\ Total(WaitingAt(h2, p)) \in Nat /\ LosersIn(h, e.losers, p) \in Nat
    BY <1>5, LosingNat, WaitingNat, LosersAreNumber
  <2>8. Total(LosingAt(h2, o2, p)) = Total(LosingAt(h2, o, p)) + LosersIn(h, e.losers, p)
    BY <1>9, <2>5, <2>6, <2>7
  <2>9. Owed(h2, o2, p) = Owed(h2, o, p) + LosersIn(h, e.losers, p)
    BY <2>7, <2>8 DEF Owed
  <2>10. QED
    BY <1>10, <2>4, <2>9
<1>14. QED
  BY <1>3, <1>5, <1>11, <1>12, <1>13

\* A message is encoded: it takes its counts from the vector, or its sender blocks for what is missing,
\* and is owed that.
LEMMA SendMessageKeeps ==
  ASSUME IInv, NEW a \in Aspace, NEW b \in Aspace, NEW ps \in Bodies, NEW retried \in Retries,
         SendMessage(a, b, ps, retried)
  PROVE  IInv'
<1> DEFINE e == ReallyEncode(DataOf(a, ps), retried)
           m == Msg("run", a, b, e.body)
<1>1. /\ \A i \in DOMAIN ps : ps[i] \in live[a]
      /\ sends[a] > 0 /\ heap' = e.heap /\ sends' = [sends EXCEPT ![a] = @ - 1]
      /\ \/ e.losers = <<>> /\ wire' = Post(wire, m) /\ out' = out
         \/ \E t \in Thread : out[t].stage = "free" /\ Blocks(out, out', t, a, b, e) /\ wire' = wire
      /\ UNCHANGED <<slot, live, disp>>
  BY DEF SendMessage, Blocks
<1>2. StateOK(slot, heap, wire, out, disp) /\ live \in [Aspace -> SUBSET Proxy] /\ sends \in [Aspace -> Nat]
  BY TypesAre DEF IInv
<1>3. heap \in Heaps /\ WireOK(wire) /\ disp \in Disps /\ slot \in Slots /\ out \in Outs
      /\ Sound(slot, heap, live, wire, out, disp)
  BY <1>2 DEF StateOK, IInv
<1>4. SlotsSound(slot, heap) /\ HeldSound(slot, heap, live, disp)
      /\ (\A u \in Thread : ThreadSound(heap, out, u)) /\ WaitersSound(heap, out)
  BY <1>3 DEF Sound
<1>5. ps \in Seq(Proxy) /\ \A i \in DOMAIN ps : slot[a][ps[i]] # 0 /\ ps[i] \in Proxy
  <2>1. ps \in Seq(Proxy)
    BY BodiesAre
  <2>2. \A i \in DOMAIN ps : ps[i] \in Proxy
    BY <2>1, ListElements
  <2>3. \A i \in DOMAIN ps : slot[a][ps[i]] # 0
    BY <1>1, <1>4, <2>2 DEF HeldSound, HeldIn
  <2>4. QED
    BY <2>1, <2>2, <2>3
<1>6. EncodedOf(slot, heap, a, ps, e)
  <2>1. retried \in BOOLEAN
    BY ProxyCountsAssumption
  <2>2. QED
    BY <1>3, <1>4, <1>5, <2>1, EncodedReally
<1> HIDE DEF e
<1>7. /\ heap' \in Heaps /\ e.body \in Body /\ e.losers \in Seq(Cell)
      /\ \A c \in Cell : /\ heap'[c].proxy = heap[c].proxy /\ heap'[c].waiters = heap[c].waiters
                         /\ heap'[c].self = heap[c].self
      /\ \A i \in DOMAIN e.body : e.body[i][1] = ps[i] /\ e.body[i][2] >= 1 /\ i \in DOMAIN ps
      /\ \A p \in Proxy : LosersIn(heap, e.losers, p) <= SumOf(e.body, p)
  BY <1>1, <1>6 DEF EncodedOf
<1>8. Recounted(heap, heap')
  BY <1>7 DEF Recounted
<1>9. \A i \in DOMAIN e.losers : \E p \in Proxy : /\ e.losers[i] = slot[a][p] /\ slot[a][p] # 0
                                                  /\ heap[e.losers[i]].proxy = p
                                                  /\ heap'[slot[a][p]].count < 1
  <2> SUFFICES ASSUME NEW i \in DOMAIN e.losers
               PROVE  \E p \in Proxy : /\ e.losers[i] = slot[a][p] /\ slot[a][p] # 0
                                       /\ heap[e.losers[i]].proxy = p /\ heap'[slot[a][p]].count < 1
    OBVIOUS
  <2>1. PICK p \in Proxy : e.losers[i] = slot[a][p] /\ slot[a][p] # 0 /\ e.heap[slot[a][p]].count < 1
    BY <1>6 DEF EncodedOf
  <2>2. heap[slot[a][p]].proxy = p
    BY <1>4, <2>1 DEF SlotsSound
  <2>3. QED
    BY <1>1, <2>1, <2>2
<1>10. m \in Message /\ m.kind = "run" /\ m.body = e.body /\ MessageSound(m)
  <2>1. m \in Message /\ m.kind = "run" /\ m.body = e.body
    BY <1>7 DEF Msg, Message
  <2>2. QED
    BY <1>7, <2>1 DEF MessageSound, Routed, Counted
<1> HIDE DEF m
<1>11. /\ WireOK(wire') /\ out' \in Outs
       /\ DOMAIN wire' \subseteq DOMAIN wire \cup {m}
       /\ \A u \in Thread : out'[u] = out[u] \/ (out'[u].body = e.body /\ out'[u].losers = e.losers)
       /\ \A u \in Thread : ThreadSound(heap', out', u)
       /\ WaitersSound(heap', out')
       /\ \A p \in Proxy : /\ Total(WireAt(wire', p)) + Total(ThreadAt(out', p))
                                = Total(WireAt(wire, p)) + Total(ThreadAt(out, p)) + SumOf(e.body, p)
                           /\ Owed(heap', out', p) = Owed(heap, out, p) + LosersIn(heap, e.losers, p)
  <2>1. CASE e.losers = <<>> /\ wire' = Post(wire, m) /\ out' = out
    <3>1. WireOK(wire) /\ m \in Message
      BY <1>3, <1>10
    <3>2. /\ WireOK(Post(wire, m)) /\ DOMAIN Post(wire, m) = DOMAIN wire \cup {m}
          /\ \A p : Total(WireAt(Post(wire, m), p)) = Total(WireAt(wire, p)) + SumOf(m.body, p)
      BY <3>1, Posted
    <3>3. /\ \A u \in Thread : ThreadSound(heap', out, u)
          /\ WaitersSound(heap', out)
          /\ \A p : Owed(heap', out, p) = Owed(heap, out, p)
      BY <1>3, <1>4, <1>7, <1>8, RecountedFrame
    <3>4. ASSUME NEW p \in Proxy
          PROVE  /\ Total(WireAt(wire', p)) + Total(ThreadAt(out', p))
                      = Total(WireAt(wire, p)) + Total(ThreadAt(out, p)) + SumOf(e.body, p)
                 /\ Owed(heap', out', p) = Owed(heap, out, p) + LosersIn(heap, e.losers, p)
      <4>1. LosersIn(heap, e.losers, p) = 0
        BY <2>1, LosersOfEmpty
      <4>2. Owed(heap, out, p) \in Nat /\ Total(ThreadAt(out, p)) \in Nat /\ Total(WireAt(wire, p)) \in Nat
        BY <1>2, SumsAreNumbers
      <4>3. SumOf(e.body, p) \in Nat
        BY <1>7, SumIsNumber
      <4>4. Total(WireAt(wire', p)) = Total(WireAt(wire, p)) + SumOf(e.body, p)
        BY <1>10, <2>1, <3>2
      <4>5. Owed(heap', out', p) = Owed(heap, out, p)
        BY <2>1, <3>3
      <4>6. QED
        BY <2>1, <4>1, <4>2, <4>3, <4>4, <4>5
    <3>5. QED
      BY <1>3, <2>1, <3>2, <3>3, <3>4
  <2>2. CASE \E t \in Thread : out[t].stage = "free" /\ Blocks(out, out', t, a, b, e) /\ wire' = wire
    <3>1. PICK t \in Thread : out[t].stage = "free" /\ Blocks(out, out', t, a, b, e) /\ wire' = wire
      BY <2>2
    <3>2. \A i \in DOMAIN e.losers : heap[e.losers[i]].proxy \in Proxy
      BY <1>9
    <3>3. /\ out' \in Outs /\ \A u \in Thread : u # t => out'[u] = out[u]
          /\ out'[t].body = e.body /\ out'[t].losers = e.losers
          /\ \A u \in Thread : ThreadSound(heap', out', u)
          /\ WaitersSound(heap', out')
          /\ \A p \in Proxy : /\ Total(ThreadAt(out', p)) = Total(ThreadAt(out, p)) + SumOf(e.body, p)
                              /\ Owed(heap', out', p) = Owed(heap, out, p) + LosersIn(heap, e.losers, p)
      <4>1. \A i \in DOMAIN e.body : e.body[i][2] >= 1
        BY <1>7
      <4>2. \A p \in Proxy : LosersIn(heap, e.losers, p) <= SumOf(e.body, p)
        BY <1>7
      <4>3. e.body \in Body /\ e.losers \in Seq(Cell) /\ heap' \in Heaps /\ heap \in Heaps /\ out \in Outs
        BY <1>3, <1>7
      <4>4. out[t].stage = "free" /\ Blocks(out, out', t, a, b, e)
        BY <3>1
      <4> DEFINE h2 == heap'
                 o2 == out'
      <4>5. /\ h2 \in Heaps /\ Recounted(heap, h2) /\ Blocks(out, o2, t, a, b, e)
            /\ (\A u \in Thread : ThreadSound(heap, out, u)) /\ WaitersSound(heap, out)
        BY <1>4, <1>8, <4>3, <4>4
      <4> HIDE DEF h2, o2
      <4>6. /\ o2 \in Outs /\ \A u \in Thread : u # t => o2[u] = out[u]
            /\ o2[t].body = e.body /\ o2[t].losers = e.losers
            /\ \A u \in Thread : ThreadSound(h2, o2, u)
            /\ WaitersSound(h2, o2)
            /\ \A p \in Proxy : /\ Total(ThreadAt(o2, p)) = Total(ThreadAt(out, p)) + SumOf(e.body, p)
                                /\ Owed(h2, o2, p) = Owed(heap, out, p) + LosersIn(heap, e.losers, p)
        BY <3>2, <4>1, <4>2, <4>3, <4>4, <4>5, BlockedIs
      <4>7. QED
        BY <4>6 DEF h2, o2
    <3>4. ASSUME NEW p \in Proxy
          PROVE  Total(WireAt(wire', p)) + Total(ThreadAt(out', p))
                   = Total(WireAt(wire, p)) + Total(ThreadAt(out, p)) + SumOf(e.body, p)
      <4>1. Total(ThreadAt(out, p)) \in Nat /\ Total(WireAt(wire, p)) \in Nat
        BY <1>2, SumsAreNumbers
      <4>2. SumOf(e.body, p) \in Nat
        BY <1>7, SumIsNumber
      <4>3. QED
        BY <3>1, <3>3, <4>1, <4>2
    <3>5. QED
      BY <1>3, <3>1, <3>3, <3>4
  <2>3. QED
    BY <1>1, <2>1, <2>2
<1>12. StateOK(slot, heap', wire', out', disp)
  BY <1>2, <1>7, <1>11 DEF StateOK
<1>13. TypeOK'
  <2>1. sends' \in [Aspace -> Nat]
    <3>1. sends[a] - 1 \in Nat
      BY <1>1, <1>2
    <3>2. QED
      BY <1>1, <1>2, <3>1
  <2>2. QED
    BY <1>1, <1>2, <1>7, <1>11, <2>1 DEF IInv, TypeOK, Heaps, WireOK, Outs
<1>14. Sound(slot, heap', live, wire', out', disp)
  <2>1. HeldSound(slot, heap', live, disp)
    <3> SUFFICES ASSUME NEW c \in Aspace, NEW p \in Proxy, HeldIn(live, disp, c, p)
                 PROVE  slot[c][p] # 0 /\ heap'[slot[c][p]].self
      BY DEF HeldSound
    <3>1. slot[c][p] # 0 /\ heap[slot[c][p]].self
      BY <1>4 DEF HeldSound
    <3>2. QED
      BY <1>3, <1>7, <3>1 DEF Slots
  <2>2. \A n \in DOMAIN wire' : MessageSound(n)
    BY <1>3, <1>10, <1>11 DEF Sound
  <2>3. SlotsSound(slot, heap')
    BY <1>3, <1>4, <1>7, <1>8, RecountedFrame
  <2>4. QED
    BY <1>3, <1>11, <2>1, <2>2, <2>3 DEF Sound
<1>15. ASSUME NEW p \in Proxy
       PROVE  CountsSound(slot, heap', wire', out', disp, p) /\ FreeSound(slot, live, wire', out', disp, p)
  <2> DEFINE C == Counts(slot, heap, wire, out, disp, p)
             C2 == Counts(slot, heap', wire', out', disp, p)
             O == Owed(heap, out, p)
             O2 == Owed(heap', out', p)
  <2>1. CountsSound(slot, heap, wire, out, disp, p) /\ FreeSound(slot, live, wire, out, disp, p)
    BY DEF IInv
  <2>2. Total(DispAt(heap', disp, p)) = Total(DispAt(heap, disp, p))
    <3>1. \A c, d \in Aspace : BusyIn(heap', disp[c][d], p) = BusyIn(heap, disp[c][d], p)
      BY <1>3, <1>7, <1>8, RecountedFrame DEF Disps
    <3>2. QED
      BY <3>1, DispSame
  <2>3. /\ Total(VectorAt(slot, heap', p)) + SumOf(e.body, p) <= Total(VectorAt(slot, heap, p)) + LosersIn(heap, e.losers, p)
        /\ (\A c \in Aspace : slot[c][p] # 0 => heap[slot[c][p]].count >= 1) =>
             \/ \A c \in Aspace : slot[c][p] # 0 => heap'[slot[c][p]].count >= 1
             \/ Total(VectorAt(slot, heap', p)) + SumOf(e.body, p) + 1
                  <= Total(VectorAt(slot, heap, p)) + LosersIn(heap, e.losers, p)
    BY <1>1, <1>3, <1>4, <1>6, EncodedVectors
  <2>4. SumOf(e.body, p) \in Nat /\ LosersIn(heap, e.losers, p) \in Nat
    BY <1>7, SumIsNumber, LosersAreNumber
  <2>5. /\ Total(WireAt(wire', p)) + Total(ThreadAt(out', p))
             = Total(WireAt(wire, p)) + Total(ThreadAt(out, p)) + SumOf(e.body, p)
        /\ O2 = O + LosersIn(heap, e.losers, p)
    BY <1>11
  <2>6. C \in Nat /\ C2 \in Nat /\ O \in Nat /\ O2 \in Nat
    BY <1>2, <1>12, SumsAreNumbers
  <2>7. /\ C2 + SumOf(e.body, p) + Total(VectorAt(slot, heap, p))
             = C + SumOf(e.body, p) + Total(VectorAt(slot, heap', p)) + SumOf(e.body, p)
        /\ Total(VectorAt(slot, heap, p)) \in Nat /\ Total(VectorAt(slot, heap', p)) \in Nat
    BY <1>2, <1>12, <2>2, <2>4, <2>5, SumsAreNumbers DEF Counts
  <2> HIDE DEF C, C2, O, O2
  <2>8. C2 + O <= C + O2
    BY <2>3, <2>4, <2>5, <2>6, <2>7
  <2>9. Total(VectorAt(slot, heap', p)) + SumOf(e.body, p) + 1
          <= Total(VectorAt(slot, heap, p)) + LosersIn(heap, e.losers, p) => C2 + O < C + O2
    BY <2>4, <2>5, <2>6, <2>7
  <2>10. ASSUME Clean(slot, heap, wire, out, disp, p)
         PROVE  Clean(slot, heap', wire', out', disp, p) \/ C2 + O < C + O2
    <3>1. SUFFICES ASSUME \A c \in Aspace : slot[c][p] # 0 => heap'[slot[c][p]].count >= 1
                   PROVE  Clean(slot, heap', wire', out', disp, p)
      <4>1. \A c \in Aspace : slot[c][p] # 0 => heap[slot[c][p]].count >= 1
        BY <2>10 DEF Clean
      <4>2. QED
        BY <2>3, <2>9, <4>1
    <3>2. Fine(m.kind, m.body, p)
      BY <1>10, FineOfRun
    <3>3. \A t \in Thread : \A i \in DOMAIN out[t].losers : out[t].losers[i] \in Cell
      BY <1>3, ListElements DEF Outs, Blocked
    <3>4. \A t \in Thread : \A i \in DOMAIN out[t].losers : heap'[out[t].losers[i]].proxy # p
      BY <1>7, <2>10, <3>3 DEF Clean
    <3>5. ASSUME NEW i \in DOMAIN e.losers PROVE heap'[e.losers[i]].proxy # p
      <4>1. PICK q \in Proxy : /\ e.losers[i] = slot[a][q] /\ slot[a][q] # 0
                               /\ heap[e.losers[i]].proxy = q /\ heap'[slot[a][q]].count < 1
        BY <1>9
      <4>2. q # p
        <5>1. CASE q = p
          <6>1. heap'[slot[a][p]].count >= 1 /\ heap'[slot[a][p]].count < 1
            BY <3>1, <4>1, <5>1
          <6>2. slot[a][p] \in Cell
            <7>1. slot[a][p] \in Cell \cup {0}
              BY <1>3 DEF Slots
            <7>2. QED
              BY <4>1, <5>1, <7>1
          <6>3. heap'[slot[a][p]].count \in Int
            BY <1>7, <6>2 DEF Heaps, ProxyData
          <6>4. QED
            BY <6>1, <6>3
        <5>2. QED
          BY <5>1
      <4>3. e.losers[i] \in Cell
        BY <1>7, ListElements
      <4>4. QED
        BY <1>7, <4>1, <4>2, <4>3
    <3>6. \A t \in Thread : \A i \in DOMAIN out'[t].losers : heap'[out'[t].losers[i]].proxy # p
      BY <1>11, <3>4, <3>5
    <3>7. QED
      BY <1>11, <2>10, <3>1, <3>2, <3>6 DEF Clean
  <2>11. CountsSound(slot, heap', wire', out', disp, p)
    BY <1>2, <1>12, <2>1, <2>8, <2>10, CountsCarried DEF C, C2, O, O2
  <2>12. FreeSound(slot, live, wire', out', disp, p)
    <3>1. SUFFICES ASSUME slot[Owner][p] = 0
                   PROVE  /\ \A n \in DOMAIN wire' : ~Mentions(n.body, p)
                          /\ \A u \in Thread : ~Mentions(out'[u].body, p)
      BY <2>1 DEF FreeSound
    <3>2. /\ \A n \in DOMAIN wire : ~Mentions(n.body, p)
          /\ \A u \in Thread : ~Mentions(out[u].body, p)
          /\ slot[a][p] = 0
      BY <2>1, <3>1 DEF FreeSound
    <3>3. ~Mentions(e.body, p)
      BY <1>5, <1>7, <3>2 DEF Mentions
    <3>4. QED
      BY <1>10, <1>11, <3>2, <3>3
  <2>13. QED
    BY <2>11, <2>12
<1>16. QED
  BY <1>1, <1>13, <1>14, <1>15 DEF IInv

-----------------------------------------------------------------------------
(* Waiting.                                                                *)

\* The lists that a fold has gone through.
LEMMA Prefixes ==
  ASSUME NEW S, NEW xs \in Seq(S)
  PROVE  /\ SubSeq(xs, 1, 0) = <<>> /\ SubSeq(xs, 1, Len(xs)) = xs
         /\ \A n \in 1 .. Len(xs) : /\ SubSeq(xs, 1, n) = Append(SubSeq(xs, 1, n - 1), xs[n])
                                    /\ SubSeq(xs, 1, n - 1) \in Seq(S) /\ xs[n] \in S
<1>1. SubSeq(xs, 1, 0) = <<>> /\ SubSeq(xs, 1, Len(xs)) = xs
  OBVIOUS
<1>2. ASSUME NEW n \in 1 .. Len(xs)
      PROVE  /\ SubSeq(xs, 1, n) = Append(SubSeq(xs, 1, n - 1), xs[n])
             /\ SubSeq(xs, 1, n - 1) \in Seq(S) /\ xs[n] \in S
  OBVIOUS
<1>3. QED
  BY <1>1, <1>2

\* A thread is added to the waiters of a proxy-data.
WaiterAdded(h, h2, d, t) ==
  /\ h2 \in Heaps
  /\ \A c \in Cell : /\ h2[c].proxy = h[c].proxy /\ h2[c].count = h[c].count /\ h2[c].self = h[c].self
                     /\ c # d => h2[c].waiters = h[c].waiters
  /\ h2[d].waiters = Append(h[d].waiters, t)

\* Its place is one more.
PlaceAdded(h, h2, d, t) ==
  /\ \A u \in Thread \ {t} : \A c \in Cell : PlacesIn(h2, c, u) = PlacesIn(h, c, u)
  /\ Total(PlacesAt(h2, t)) = Total(PlacesAt(h, t)) + 1
  /\ \A p : /\ Total(PlacesFor(h2, t, p)) = Total(PlacesFor(h, t, p)) + LoserOf(h, d, p)
            /\ Total(WaitingAt(h2, p)) = Total(WaitingAt(h, p)) + LoserOf(h, d, p)

\* A list of waiters gets one more.
LEMMA PlacesAppended ==
  ASSUME NEW h \in Heaps, NEW h2, NEW d \in Cell, NEW t \in Thread, WaiterAdded(h, h2, d, t)
  PROVE  PlaceAdded(h, h2, d, t)
<1> DEFINE ws == h[d].waiters
           At(u) == {i \in DOMAIN ws : ws[i] = u}
           n == Len(ws) + 1
<1>1. /\ ws \in Seq(Thread) /\ DOMAIN ws = 1 .. Len(ws) /\ Len(ws) \in Nat
      /\ \A u : IsFiniteSet(At(u)) /\ PlacesIn(h, d, u) = Cardinality(At(u)) /\ Cardinality(At(u)) \in Nat
  BY PlacesAre DEF PlacesIn
<1>2. /\ h2 \in Heaps /\ h2[d].waiters = Append(ws, t)
      /\ \A c \in Cell : h2[c].proxy = h[c].proxy /\ (c # d => h2[c].waiters = h[c].waiters)
  BY DEF WaiterAdded
<1> HIDE DEF ws
<1>3. /\ DOMAIN Append(ws, t) = DOMAIN ws \cup {n} /\ Append(ws, t)[n] = t /\ n \notin DOMAIN ws
      /\ \A i \in DOMAIN ws : Append(ws, t)[i] = ws[i]
      /\ Len(Append(ws, t)) = Len(ws) + 1
  BY <1>1
<1> HIDE DEF n
<1>4. \A u \in Thread \ {t} : {i \in DOMAIN Append(ws, t) : Append(ws, t)[i] = u} = At(u)
  BY <1>3
<1>5. {i \in DOMAIN Append(ws, t) : Append(ws, t)[i] = t} = At(t) \cup {n} /\ n \notin At(t)
  BY <1>3
<1>6. PlacesIn(h2, d, t) = PlacesIn(h, d, t) + 1
  <2>1. PlacesIn(h2, d, t) = Cardinality(At(t) \cup {n})
    BY <1>2, <1>5 DEF PlacesIn
  <2>2. IsFiniteSet(At(t)) /\ n \notin At(t)
    BY <1>1, <1>5
  <2> HIDE DEF At
  <2>3. Cardinality(At(t) \cup {n}) = Cardinality(At(t)) + 1
    BY <2>2, FS_AddElement
  <2>4. QED
    BY <1>1, <2>1, <2>3
<1>7. \A u \in Thread \ {t} : \A c \in Cell : PlacesIn(h2, c, u) = PlacesIn(h, c, u)
  <2> SUFFICES ASSUME NEW u \in Thread \ {t}, NEW c \in Cell PROVE PlacesIn(h2, c, u) = PlacesIn(h, c, u)
    OBVIOUS
  <2>1. CASE c = d
    <3>1. PlacesIn(h2, d, u) = Cardinality({i \in DOMAIN Append(ws, t) : Append(ws, t)[i] = u})
      BY <1>2 DEF PlacesIn
    <3>2. QED
      BY <1>1, <1>4, <2>1, <3>1
  <2>2. CASE c # d
    BY <1>2, <2>2 DEF PlacesIn
  <2>3. QED
    BY <2>1, <2>2
<1>8. \A c \in Cell \ {d} : PlacesIn(h2, c, t) = PlacesIn(h, c, t)
  BY <1>2 DEF PlacesIn
<1>9. ASSUME NEW p
      PROVE  /\ IsFiniteSet(Cell)
             /\ DOMAIN PlacesAt(h, t) = Cell /\ DOMAIN PlacesAt(h2, t) = Cell
             /\ DOMAIN PlacesFor(h, t, p) = Cell /\ DOMAIN PlacesFor(h2, t, p) = Cell
             /\ \A c \in Cell : /\ PlacesAt(h, t)[c] = PlacesIn(h, c, t) /\ PlacesAt(h2, t)[c] = PlacesIn(h2, c, t)
                                /\ PlacesAt(h, t)[c] \in Nat /\ PlacesAt(h2, t)[c] \in Nat
                                /\ PlacesFor(h, t, p)[c] = IF h[c].proxy = p THEN PlacesIn(h, c, t) ELSE 0
                                /\ PlacesFor(h2, t, p)[c] = IF h2[c].proxy = p THEN PlacesIn(h2, c, t) ELSE 0
                                /\ PlacesFor(h, t, p)[c] \in Nat /\ PlacesFor(h2, t, p)[c] \in Nat
  <2>1. /\ DOMAIN PlacesAt(h, t) = Cell /\ DOMAIN PlacesFor(h, t, p) = Cell
        /\ \A c \in Cell : /\ PlacesAt(h, t)[c] = PlacesIn(h, c, t) /\ PlacesIn(h, c, t) \in Nat
                           /\ PlacesFor(h, t, p)[c] = IF h[c].proxy = p THEN PlacesIn(h, c, t) ELSE 0
                           /\ PlacesFor(h, t, p)[c] \in Nat
    BY PlacesNat
  <2>2. /\ DOMAIN PlacesAt(h2, t) = Cell /\ DOMAIN PlacesFor(h2, t, p) = Cell
        /\ \A c \in Cell : /\ PlacesAt(h2, t)[c] = PlacesIn(h2, c, t) /\ PlacesIn(h2, c, t) \in Nat
                           /\ PlacesFor(h2, t, p)[c] = IF h2[c].proxy = p THEN PlacesIn(h2, c, t) ELSE 0
                           /\ PlacesFor(h2, t, p)[c] \in Nat
    BY <1>2, PlacesNat
  <2>3. QED
    BY <2>1, <2>2, FiniteSets
<1>10. Total(PlacesAt(h2, t)) = Total(PlacesAt(h, t)) + 1
  <2>1. \A c \in Cell : c # d => h2[c].waiters = h[c].waiters
    BY <1>2
  <2>2. Total(PlacesAt(h2, t)) + PlacesIn(h, d, t) = Total(PlacesAt(h, t)) + PlacesIn(h2, d, t)
    BY <1>2, <2>1, PlacesChange
  <2>3. Total(PlacesAt(h, t)) \in Nat /\ Total(PlacesAt(h2, t)) \in Nat
    BY <1>2, PlacesNat
  <2>4. PlacesIn(h, d, t) \in Nat
    BY PlacesAre
  <2>5. QED
    BY <1>6, <2>2, <2>3, <2>4
<1>11. ASSUME NEW p PROVE Total(PlacesFor(h2, t, p)) = Total(PlacesFor(h, t, p)) + LoserOf(h, d, p)
  <2>1. \A c \in Cell : PlacesFor(h, t, p)[c] \in Int /\ PlacesFor(h2, t, p)[c] \in Int
    BY <1>9
  <2>2. \A c \in Cell \ {d} : PlacesFor(h2, t, p)[c] = PlacesFor(h, t, p)[c]
    BY <1>2, <1>8, <1>9
  <2>3. /\ Total(PlacesFor(h2, t, p)) + Positive(PlacesFor(h, t, p)[d])
             = Total(PlacesFor(h, t, p)) + Positive(PlacesFor(h2, t, p)[d])
        /\ Total(PlacesFor(h, t, p)) \in Nat /\ Total(PlacesFor(h2, t, p)) \in Nat
    BY <1>9, <2>1, <2>2, OneChanged
  <2>4. PlacesFor(h2, t, p)[d] = PlacesFor(h, t, p)[d] + LoserOf(h, d, p) /\ PlacesFor(h, t, p)[d] \in Nat
        /\ LoserOf(h, d, p) \in Nat
    BY <1>2, <1>6, <1>9 DEF LoserOf
  <2>5. Positive(PlacesFor(h2, t, p)[d]) = Positive(PlacesFor(h, t, p)[d]) + LoserOf(h, d, p)
        /\ Positive(PlacesFor(h, t, p)[d]) \in Nat
    BY <2>4 DEF Positive
  <2>6. QED
    BY <2>3, <2>4, <2>5
<1>12. ASSUME NEW p PROVE Total(WaitingAt(h2, p)) = Total(WaitingAt(h, p)) + LoserOf(h, d, p)
  <2>1. Total(WaitingAt(h2, p)) + WaitingAt(h, p)[d] = Total(WaitingAt(h, p)) + WaitingAt(h2, p)[d]
    BY <1>2, WaitingChange
  <2>2. WaitingAt(h2, p)[d] = WaitingAt(h, p)[d] + LoserOf(h, d, p) /\ WaitingAt(h, p)[d] \in Nat
        /\ LoserOf(h, d, p) \in Nat
    BY <1>1, <1>2, <1>3 DEF WaitingAt, LoserOf, ws
  <2>3. Total(WaitingAt(h2, p)) \in Nat /\ Total(WaitingAt(h, p)) \in Nat
    BY <1>2, WaitingNat
  <2>4. QED
    BY <2>1, <2>2, <2>3
<1>13. QED
  BY <1>7, <1>10, <1>11, <1>12 DEF PlaceAdded

Requesting == [heap : Heaps, uids : Seq(Proxy)]

\* r is what became of the heap h when t was made a waiter of the first n of the cells ls.
RequestedTo(h, t, ls, r, n) ==
  /\ r \in Requesting
  /\ \A c \in Cell :
       /\ r.heap[c].proxy = h[c].proxy /\ r.heap[c].count = h[c].count /\ r.heap[c].self = h[c].self
       /\ \A i \in DOMAIN r.heap[c].waiters :
            \/ i \in DOMAIN h[c].waiters /\ r.heap[c].waiters[i] = h[c].waiters[i]
            \/ r.heap[c].waiters[i] = t /\ \E j \in 1 .. n : ls[j] = c
       /\ \A u \in Thread \ {t} : PlacesIn(r.heap, c, u) = PlacesIn(h, c, u)
  /\ Total(PlacesAt(r.heap, t)) = Total(PlacesAt(h, t)) + n
  /\ \A p : /\ Total(PlacesFor(r.heap, t, p)) = Total(PlacesFor(h, t, p)) + LosersIn(h, SubSeq(ls, 1, n), p)
            /\ Total(WaitingAt(r.heap, p)) = Total(WaitingAt(h, p)) + LosersIn(h, SubSeq(ls, 1, n), p)
  /\ \A i \in DOMAIN r.uids : \E j \in 1 .. n : r.uids[i] = h[ls[j]].proxy

\* One step of the fold that makes the sender wait: a loser becomes a place on a list.
LEMMA RequestStep ==
  ASSUME NEW h \in Heaps, NEW t \in Thread, NEW ls \in Seq(Cell), NEW n \in 1 .. Len(ls),
         \A i \in 1 .. Len(ls) : h[ls[i]].proxy \in Proxy,
         NEW e, RequestedTo(h, t, ls, e, n - 1)
  PROVE  RequestedTo(h, t, ls, AddWaiter(t, e, ls[n]), n)
<1> DEFINE d == ls[n]
           r == AddWaiter(t, e, d)
<1>1. d \in Cell /\ e.heap[d].proxy \in Proxy /\ e \in Requesting /\ e.heap \in Heaps /\ e.uids \in Seq(Proxy)
      /\ \A c \in Cell : /\ e.heap[c].proxy = h[c].proxy /\ e.heap[c].count = h[c].count
                         /\ e.heap[c].self = h[c].self /\ e.heap[c] \in ProxyData
                         /\ e.heap[c].waiters \in Seq(Thread)
  <2>1. d \in Cell /\ e \in Requesting
    BY DEF RequestedTo
  <2>2. e.heap \in Heaps /\ e.uids \in Seq(Proxy)
    BY <2>1 DEF Requesting
  <2>3. e.heap[d].proxy \in Proxy
    BY <2>1 DEF RequestedTo
  <2>4. QED
    BY <2>1, <2>2, <2>3 DEF RequestedTo, Heaps, ProxyData
<1>2. /\ r.heap = [e.heap EXCEPT ![d] = [e.heap[d] EXCEPT !.waiters = Append(e.heap[d].waiters, t), !.asked = TRUE]]
      /\ (r.uids = e.uids \/ r.uids = Append(e.uids, e.heap[d].proxy))
      /\ r = [heap |-> r.heap, uids |-> r.uids]
  <2>1. r = [heap |-> [e.heap EXCEPT ![d].waiters = Append(@, t), ![d].asked = TRUE],
             uids |-> IF e.heap[d].asked THEN e.uids ELSE Append(e.uids, e.heap[d].proxy)]
    BY DEF AddWaiter
  <2>2. [e.heap EXCEPT ![d].waiters = Append(@, t), ![d].asked = TRUE]
          = [e.heap EXCEPT ![d] = [e.heap[d] EXCEPT !.waiters = Append(e.heap[d].waiters, t), !.asked = TRUE]]
    BY <1>1 DEF Heaps
  <2> HIDE DEF r
  <2>3. QED
    BY <2>1, <2>2
<1> HIDE DEF r
<1> DEFINE x == [e.heap[d] EXCEPT !.waiters = Append(e.heap[d].waiters, t), !.asked = TRUE]
<1>3. /\ x \in ProxyData /\ x.proxy = e.heap[d].proxy /\ x.count = e.heap[d].count /\ x.self = e.heap[d].self
      /\ x.waiters = Append(e.heap[d].waiters, t)
  <2>1. Append(e.heap[d].waiters, t) \in Seq(Thread)
    BY <1>1
  <2>2. e.heap[d] \in ProxyData
    BY <1>1
  <2>3. QED
    BY <2>1, <2>2 DEF ProxyData
<1>4. r.heap = [e.heap EXCEPT ![d] = x]
  BY <1>2
<1> HIDE DEF x
<1>5. r.heap \in Heaps /\ r.heap[d] = x /\ \A c \in Cell \ {d} : r.heap[c] = e.heap[c]
  BY <1>1, <1>3, <1>4 DEF Heaps
<1>6. WaiterAdded(e.heap, r.heap, d, t)
  BY <1>3, <1>5 DEF WaiterAdded
<1>7. r \in Requesting
  <2> DEFINE q == e.heap[d].proxy
  <2>1. q \in Proxy /\ e.uids \in Seq(Proxy)
    BY <1>1
  <2>2. r.uids = e.uids \/ r.uids = Append(e.uids, q)
    BY <1>2
  <2> HIDE DEF q
  <2>3. Append(e.uids, q) \in Seq(Proxy)
    BY <2>1
  <2>4. r.uids \in Seq(Proxy)
    BY <2>1, <2>2, <2>3
  <2>5. QED
    BY <1>2, <1>5, <2>4 DEF Requesting
<1>8. /\ \A u \in Thread \ {t} : \A c \in Cell : PlacesIn(r.heap, c, u) = PlacesIn(e.heap, c, u)
      /\ Total(PlacesAt(r.heap, t)) = Total(PlacesAt(e.heap, t)) + 1
      /\ \A p : /\ Total(PlacesFor(r.heap, t, p)) = Total(PlacesFor(e.heap, t, p)) + LoserOf(e.heap, d, p)
                /\ Total(WaitingAt(r.heap, p)) = Total(WaitingAt(e.heap, p)) + LoserOf(e.heap, d, p)
  <2>1. e.heap \in Heaps /\ d \in Cell /\ WaiterAdded(e.heap, r.heap, d, t)
    BY <1>1, <1>6
  <2> HIDE DEF d
  <2>2. PlaceAdded(e.heap, r.heap, d, t)
    BY <2>1, PlacesAppended
  <2>3. QED
    BY <2>2 DEF PlaceAdded
<1>9. ASSUME NEW c \in Cell
      PROVE  /\ r.heap[c].proxy = h[c].proxy /\ r.heap[c].count = h[c].count /\ r.heap[c].self = h[c].self
             /\ \A i \in DOMAIN r.heap[c].waiters :
                  \/ i \in DOMAIN h[c].waiters /\ r.heap[c].waiters[i] = h[c].waiters[i]
                  \/ r.heap[c].waiters[i] = t /\ \E j \in 1 .. n : ls[j] = c
             /\ \A u \in Thread \ {t} : PlacesIn(r.heap, c, u) = PlacesIn(h, c, u)
  <2>1. /\ \A i \in DOMAIN e.heap[c].waiters :
             \/ i \in DOMAIN h[c].waiters /\ e.heap[c].waiters[i] = h[c].waiters[i]
             \/ e.heap[c].waiters[i] = t /\ \E j \in 1 .. n - 1 : ls[j] = c
        /\ \A u \in Thread \ {t} : PlacesIn(e.heap, c, u) = PlacesIn(h, c, u)
    BY DEF RequestedTo
  <2>2. \A i \in DOMAIN e.heap[c].waiters :
             \/ i \in DOMAIN h[c].waiters /\ e.heap[c].waiters[i] = h[c].waiters[i]
             \/ e.heap[c].waiters[i] = t /\ \E j \in 1 .. n : ls[j] = c
    BY <2>1
  <2>3. ASSUME NEW i \in DOMAIN r.heap[c].waiters
        PROVE  \/ i \in DOMAIN e.heap[c].waiters /\ r.heap[c].waiters[i] = e.heap[c].waiters[i]
               \/ r.heap[c].waiters[i] = t /\ \E j \in 1 .. n : ls[j] = c
    <3>1. CASE c = d
      <4>1. r.heap[c].waiters = Append(e.heap[c].waiters, t) /\ e.heap[c].waiters \in Seq(Thread)
        BY <1>1, <1>3, <1>5, <3>1
      <4>2. \E j \in 1 .. n : ls[j] = c
        <5>1. n \in 1 .. n /\ ls[n] = c
          BY <3>1
        <5>2. QED
          BY <5>1
      <4> DEFINE ws == e.heap[c].waiters
                 vs == r.heap[c].waiters
      <4>3. ws \in Seq(Thread) /\ vs = Append(ws, t) /\ i \in DOMAIN vs
        BY <4>1
      <4> HIDE DEF ws, vs
      <4>4. (i \in DOMAIN ws /\ vs[i] = ws[i]) \/ vs[i] = t
        BY <4>3
      <4>5. QED
        BY <4>2, <4>4 DEF ws, vs
    <3>2. CASE c # d
      BY <1>5, <3>2
    <3>3. QED
      BY <3>1, <3>2
  <2>4. r.heap[c].proxy = h[c].proxy /\ r.heap[c].count = h[c].count /\ r.heap[c].self = h[c].self
    BY <1>1, <1>3, <1>5
  <2>5. QED
    BY <1>8, <2>1, <2>2, <2>3, <2>4
<1>10. Total(PlacesAt(r.heap, t)) = Total(PlacesAt(h, t)) + n
  <2>1. Total(PlacesAt(e.heap, t)) = Total(PlacesAt(h, t)) + (n - 1) /\ Total(PlacesAt(h, t)) \in Nat
    BY PlacesNat DEF RequestedTo
  <2>2. QED
    BY <1>8, <2>1
<1>11. ASSUME NEW p
       PROVE  /\ Total(PlacesFor(r.heap, t, p)) = Total(PlacesFor(h, t, p)) + LosersIn(h, SubSeq(ls, 1, n), p)
              /\ Total(WaitingAt(r.heap, p)) = Total(WaitingAt(h, p)) + LosersIn(h, SubSeq(ls, 1, n), p)
  <2>1. /\ Total(PlacesFor(e.heap, t, p)) = Total(PlacesFor(h, t, p)) + LosersIn(h, SubSeq(ls, 1, n - 1), p)
        /\ Total(WaitingAt(e.heap, p)) = Total(WaitingAt(h, p)) + LosersIn(h, SubSeq(ls, 1, n - 1), p)
    BY DEF RequestedTo
  <2>2. SubSeq(ls, 1, n) = Append(SubSeq(ls, 1, n - 1), ls[n]) /\ SubSeq(ls, 1, n - 1) \in Seq(Cell)
    BY Prefixes
  <2>3. LosersIn(h, SubSeq(ls, 1, n), p) = LosersIn(h, SubSeq(ls, 1, n - 1), p) + LoserOf(h, d, p)
    <3> DEFINE pre == SubSeq(ls, 1, n - 1)
    <3>1. pre \in Seq(Cell) /\ d \in Cell /\ SubSeq(ls, 1, n) = Append(pre, d)
      BY <1>1, <2>2
    <3> HIDE DEF pre, d
    <3>2. LosersIn(h, Append(pre, d), p) = LosersIn(h, pre, p) + LoserOf(h, d, p)
      BY <3>1, LosersAppended
    <3>3. QED
      BY <3>1, <3>2 DEF pre
  <2>4. LoserOf(e.heap, d, p) = LoserOf(h, d, p) /\ LoserOf(h, d, p) \in Nat
    BY <1>1 DEF LoserOf
  <2>5. /\ LosersIn(h, SubSeq(ls, 1, n - 1), p) \in Nat
        /\ Total(PlacesFor(h, t, p)) \in Nat /\ Total(WaitingAt(h, p)) \in Nat
    BY <2>2, LosersAreNumber, PlacesNat, WaitingNat
  <2>6. QED
    BY <1>8, <2>1, <2>3, <2>4, <2>5
<1>12. \A i \in DOMAIN r.uids : \E j \in 1 .. n : r.uids[i] = h[ls[j]].proxy
  <2>1. \A i \in DOMAIN e.uids : \E j \in 1 .. n : e.uids[i] = h[ls[j]].proxy
    BY DEF RequestedTo
  <2>2. ASSUME NEW i \in DOMAIN r.uids
        PROVE  (i \in DOMAIN e.uids /\ r.uids[i] = e.uids[i]) \/ r.uids[i] = e.heap[d].proxy
    <3> DEFINE q == e.heap[d].proxy
    <3>1. e.uids \in Seq(Proxy) /\ (r.uids = e.uids \/ r.uids = Append(e.uids, q))
      BY <1>1, <1>2
    <3> HIDE DEF q
    <3>2. CASE r.uids = e.uids
      BY <3>2
    <3>3. CASE r.uids = Append(e.uids, q)
      <4>1. i \in DOMAIN Append(e.uids, q) /\ r.uids[i] = Append(e.uids, q)[i]
        BY <3>3
      <4>2. (i \in DOMAIN e.uids /\ Append(e.uids, q)[i] = e.uids[i]) \/ Append(e.uids, q)[i] = q
        BY <3>1, <4>1
      <4>3. QED
        BY <4>1, <4>2 DEF q
    <3>4. QED
      BY <3>1, <3>2, <3>3
  <2>3. e.heap[d].proxy = h[ls[n]].proxy /\ n \in 1 .. n
    BY <1>1
  <2>4. QED
    BY <2>1, <2>2, <2>3
<1>13. RequestedTo(h, t, ls, r, n)
  BY <1>7, <1>9, <1>10, <1>11, <1>12 DEF RequestedTo
<1>14. QED
  BY <1>13 DEF r

Requests(h, t, ls) ==
  LET Step(r, d) == AddWaiter(t, r, d) IN Fold(Step, [heap |-> h, uids |-> <<>>], ls)

\* The whole fold: the sender waits for all it lacks.
LEMMA RequestFold ==
  ASSUME NEW h \in Heaps, NEW t \in Thread, NEW ls \in Seq(Cell),
         \A i \in 1 .. Len(ls) : h[ls[i]].proxy \in Proxy
  PROVE  RequestedTo(h, t, ls, Requests(h, t, ls), Len(ls))
<1> DEFINE N == Len(ls)
           start == [heap |-> h, uids |-> <<>>]
           X == [n \in 0 .. N |-> {e \in Requesting : RequestedTo(h, t, ls, e, n)}]
           G == [n \in 1 .. N |-> [e \in X[n - 1] |-> AddWaiter(t, e, ls[n])]]
           Solves(f) == f = [n \in 0 .. N |-> IF n = 0 THEN start ELSE AddWaiter(t, f[n - 1], ls[n])]
<1>1. N \in Nat
  OBVIOUS
<1>2. start \in X[0]
  <2>1. start \in Requesting /\ start.heap = h /\ start.uids = <<>>
    <3>1. <<>> \in Seq(Proxy)
      OBVIOUS
    <3>2. QED
      BY <3>1 DEF Requesting
  <2> HIDE DEF start
  <2>2. \A p : LosersIn(h, SubSeq(ls, 1, 0), p) = 0
    BY Prefixes, LosersOfEmpty
  <2>3. Total(PlacesAt(h, t)) \in Nat /\ \A p : Total(PlacesFor(h, t, p)) \in Nat /\ Total(WaitingAt(h, p)) \in Nat
    BY PlacesNat, WaitingNat
  <2>4. DOMAIN start.uids = {}
    BY <2>1
  <2>5. Total(PlacesAt(start.heap, t)) = Total(PlacesAt(h, t)) + 0
    BY <2>1, <2>3
  <2>6. ASSUME NEW p
        PROVE  /\ Total(PlacesFor(start.heap, t, p)) = Total(PlacesFor(h, t, p)) + LosersIn(h, SubSeq(ls, 1, 0), p)
               /\ Total(WaitingAt(start.heap, p)) = Total(WaitingAt(h, p)) + LosersIn(h, SubSeq(ls, 1, 0), p)
    BY <2>1, <2>2, <2>3
  <2>7. RequestedTo(h, t, ls, start, 0)
    BY <2>1, <2>4, <2>5, <2>6 DEF RequestedTo
  <2>8. QED
    BY <2>1, <2>7
<1>3. ASSUME NEW n \in 1 .. N, NEW e \in X[n - 1]
      PROVE  AddWaiter(t, e, ls[n]) \in X[n] /\ G[n][e] = AddWaiter(t, e, ls[n])
  <2>1. RequestedTo(h, t, ls, e, n - 1)
    OBVIOUS
  <2>2. RequestedTo(h, t, ls, AddWaiter(t, e, ls[n]), n)
    BY <2>1, RequestStep
  <2>3. AddWaiter(t, e, ls[n]) \in Requesting
    BY <2>2 DEF RequestedTo
  <2>4. QED
    BY <2>2, <2>3
<1> HIDE DEF N, X, G, start
<1>4. \A n \in 1 .. N : \A e \in X[n - 1] : G[n][e] \in X[n]
  BY <1>3
<1> DEFINE f == Iterates(N, X, start, G)
<1>5. /\ f[0] = start /\ \A n \in 1 .. N : f[n] = G[n][f[n - 1]]
      /\ \A n \in 0 .. N : f[n] \in X[n]
  BY <1>1, <1>2, <1>4, Recursion
<1> HIDE DEF f
<1>6. ASSUME NEW n \in 1 .. N PROVE f[n] = AddWaiter(t, f[n - 1], ls[n])
  <2>1. n - 1 \in 0 .. N
    BY <1>1
  <2>2. f[n - 1] \in X[n - 1] /\ f[n] = G[n][f[n - 1]]
    BY <1>5, <2>1
  <2>3. QED
    BY <1>3, <2>2
<1> DEFINE e == [n \in 0 .. N |-> f[n]]
<1>7. Solves(e)
  <2>1. e[0] = start /\ \A n \in 1 .. N : e[n] = f[n] /\ e[n - 1] = f[n - 1]
    BY <1>1, <1>5
  <2>2. \A n \in 0 .. N : e[n] = IF n = 0 THEN start ELSE AddWaiter(t, e[n - 1], ls[n])
    BY <1>1, <1>6, <2>1
  <2>3. QED
    BY <2>2
<1> DEFINE g == CHOOSE g : Solves(g)
<1>8. Solves(g)
  <2>1. \E x : Solves(x)
    BY <1>7
  <2>2. QED
    BY <2>1
<1>9. Requests(h, t, ls) = g[N]
  BY DEF Requests, Fold, start, N
<1> HIDE DEF g
<1>10. g[0] = start /\ \A n \in 1 .. N : g[n] = AddWaiter(t, g[n - 1], ls[n])
  BY <1>1, <1>8
<1>11. \A n \in 1 .. N : g[n - 1] \in X[n - 1] => g[n] \in X[n]
  BY <1>3, <1>10
<1>12. g[N] \in X[N]
  <2>1. g[0] \in X[0]
    BY <1>2, <1>10
  <2>2. \A n \in 0 .. N : g[n] \in X[n]
    BY <1>1, <1>11, <2>1, RecursionStays
  <2>3. QED
    BY <1>1, <2>2
<1>13. QED
  BY <1>1, <1>9, <1>12 DEF X, N

\* A proxy-data of p in a list counts.
LEMMA LosersCount ==
  ASSUME NEW h, NEW ls \in Seq(Cell), NEW p, NEW i \in DOMAIN ls, h[ls[i]].proxy = p
  PROVE  LosersIn(h, ls, p) >= 1
<1>1. /\ IsFiniteSet(DOMAIN LoserAt(h, ls, p)) /\ DOMAIN LoserAt(h, ls, p) = DOMAIN ls
      /\ \A j \in DOMAIN ls : LoserAt(h, ls, p)[j] \in Int
  BY LosersAreNumber
<1>2. LoserAt(h, ls, p)[i] = 1
  BY DEF LoserAt
<1>3. Total(LoserAt(h, ls, p)) \in Nat /\ Positive(LoserAt(h, ls, p)[i]) <= Total(LoserAt(h, ls, p))
  <2> DEFINE f == LoserAt(h, ls, p)
  <2>1. IsFiniteSet(DOMAIN f) /\ i \in DOMAIN f /\ \A j \in DOMAIN f : f[j] \in Int
    BY <1>1
  <2> HIDE DEF f
  <2>2. Total(f) \in Nat /\ Positive(f[i]) <= Total(f)
    BY <2>1, TotalOfOne
  <2>3. QED
    BY <2>2 DEF f
<1>4. QED
  BY <1>2, <1>3 DEF LosersIn, Positive

\* A blocked thread goes on.
Stages == {"free", "encoded", "waiting", "ready"}
Staged(o, t, stage) == [o EXCEPT ![t].stage = stage]
GoesOn(o, o2, t, stage) ==
  /\ o2 \in Outs /\ \A u \in Thread : u # t => o2[u] = o[u]
  /\ o2[t].stage = stage
  /\ \A u \in Thread : o2[u].body = o[u].body /\ o2[u].losers = o[u].losers /\ o2[u].count = o[u].count

\* A sender goes to another stage.
LEMMA StageSet ==
  ASSUME NEW o \in Outs, NEW t \in Thread, NEW stage \in Stages
  PROVE  GoesOn(o, Staged(o, t, stage), t, stage)
<1> DEFINE x == [o[t] EXCEPT !.stage = stage]
           o2 == Staged(o, t, stage)
<1>1. x \in Blocked /\ x.stage = stage /\ x.body = o[t].body /\ x.losers = o[t].losers /\ x.count = o[t].count
  BY DEF Blocked, Outs, Stages
<1>2. o2 = [o EXCEPT ![t] = x]
  BY DEF Staged
<1> HIDE DEF x, o2
<1>3. o2 \in Outs /\ o2[t] = x /\ \A u \in Thread : u # t => o2[u] = o[u]
  BY <1>1, <1>2 DEF Outs
<1>4. GoesOn(o, o2, t, stage)
  BY <1>1, <1>3 DEF GoesOn
<1>5. QED
  BY <1>4 DEF o2

\* The bad proxies with the counts that came.
LEMMA LowAre ==
  ASSUME NEW d \in Dispatcher
  PROVE  /\ DOMAIN d.low = 1 .. Len(d.low) /\ Len(d.low) \in Nat
         /\ \A i \in DOMAIN d.low : /\ d.low[i] \in [data : Cell, more : Nat \ {0}]
                                    /\ d.low[i].data \in Cell /\ d.low[i].more \in Nat /\ d.low[i].more >= 1
<1> DEFINE R == [data : Cell, more : Nat \ {0}]
<1>1. d.low \in Seq(R)
  BY DEF Dispatcher
<1>2. \A x \in R : x.data \in Cell /\ x.more \in Nat /\ x.more >= 1
  OBVIOUS
<1> HIDE DEF R
<1>3. DOMAIN d.low = 1 .. Len(d.low) /\ Len(d.low) \in Nat /\ \A i \in DOMAIN d.low : d.low[i] \in R
  BY <1>1, ListElements
<1>4. QED
  BY <1>2, <1>3 DEF R

\* What the sender was owed as a loser it is now owed as a waiter, and the owner is asked for counts.
LEMMA MakeProxyRequestsKeeps ==
  ASSUME IInv, NEW t \in Thread, MakeProxyRequests(t)
  PROVE  IInv'
<1> DEFINE ls == out[t].losers
           r == Requests(heap, t, ls)
           m == Msg("request", out[t].from, Owner, Uids(r.uids))
<1>1. /\ out[t].stage = "encoded" /\ heap' = r.heap
      /\ out' = Staged(out, t, "waiting")
      /\ PostedOrNot(wire, wire', m) /\ UNCHANGED <<slot, live, disp, sends>>
  BY DEF MakeProxyRequests, Requests, PostedOrNot, Staged
<1>2. StateOK(slot, heap, wire, out, disp) /\ live \in [Aspace -> SUBSET Proxy] /\ sends \in [Aspace -> Nat]
  BY TypesAre DEF IInv
<1>3. heap \in Heaps /\ WireOK(wire) /\ disp \in Disps /\ slot \in Slots /\ out \in Outs
      /\ Sound(slot, heap, live, wire, out, disp)
  BY <1>2 DEF StateOK, IInv
<1>4. SlotsSound(slot, heap) /\ HeldSound(slot, heap, live, disp)
      /\ (\A u \in Thread : ThreadSound(heap, out, u)) /\ WaitersSound(heap, out)
  BY <1>3 DEF Sound
<1>5. /\ \A u \in Thread : /\ out[u].losers \in Seq(Cell) /\ DOMAIN out[u].losers = 1 .. Len(out[u].losers)
                           /\ \A i \in DOMAIN out[u].losers : out[u].losers[i] \in Cell
                                                              /\ heap[out[u].losers[i]].proxy \in Proxy
                           /\ out[u].body \in Body /\ out[u].from \in Aspace
  <2>1. \A u \in Thread : out[u].losers \in Seq(Cell) /\ out[u].body \in Body /\ out[u].from \in Aspace
    BY <1>3 DEF Outs, Blocked
  <2>2. \A u \in Thread : \A i \in DOMAIN out[u].losers : heap[out[u].losers[i]].proxy \in Proxy
    BY <1>4 DEF ThreadSound
  <2>3. QED
    BY <2>1, <2>2, ListElements
<1>6. RequestedTo(heap, t, ls, r, Len(ls))
  <2>1. ls \in Seq(Cell) /\ \A i \in 1 .. Len(ls) : heap[ls[i]].proxy \in Proxy
    BY <1>5
  <2> HIDE DEF ls
  <2>2. QED
    BY <1>3, <2>1, RequestFold
<1>7. /\ r.heap \in Heaps /\ r.uids \in Seq(Proxy)
      /\ \A c \in Cell :
           /\ r.heap[c].proxy = heap[c].proxy /\ r.heap[c].count = heap[c].count /\ r.heap[c].self = heap[c].self
           /\ \A u \in Thread \ {t} : PlacesIn(r.heap, c, u) = PlacesIn(heap, c, u)
      /\ \A i \in DOMAIN r.uids : \E j \in DOMAIN ls : r.uids[i] = heap[ls[j]].proxy
  BY <1>5, <1>6 DEF RequestedTo, Requesting
<1>8. ASSUME NEW c \in Cell, NEW i \in DOMAIN r.heap[c].waiters
      PROVE  \/ i \in DOMAIN heap[c].waiters /\ r.heap[c].waiters[i] = heap[c].waiters[i]
             \/ r.heap[c].waiters[i] = t /\ \E j \in DOMAIN ls : ls[j] = c
  BY <1>5, <1>6 DEF RequestedTo
<1>9. /\ Total(PlacesAt(r.heap, t)) = Len(ls)
      /\ \A p : /\ Total(PlacesFor(r.heap, t, p)) = LosersIn(heap, ls, p)
                /\ Total(WaitingAt(r.heap, p)) = Total(WaitingAt(heap, p)) + LosersIn(heap, ls, p)
                /\ LosersIn(heap, ls, p) \in Nat
  <2>1. ls \in Seq(Cell) /\ Len(ls) \in Nat
    BY <1>5
  <2>2. SubSeq(ls, 1, Len(ls)) = ls
    BY <2>1, Prefixes
  <2>3. Total(PlacesAt(heap, t)) = 0 /\ \A p : Total(PlacesFor(heap, t, p)) = 0
    BY <1>1, <1>3, <1>4, NoPlaces
  <2> HIDE DEF ls, r
  <2>4. \A p : LosersIn(heap, ls, p) \in Nat
    BY <2>1, LosersAreNumber
  <2>5. Total(PlacesAt(r.heap, t)) = Len(ls)
    BY <1>6, <2>1, <2>3 DEF RequestedTo
  <2>6. ASSUME NEW p
        PROVE  /\ Total(PlacesFor(r.heap, t, p)) = LosersIn(heap, ls, p)
               /\ Total(WaitingAt(r.heap, p)) = Total(WaitingAt(heap, p)) + LosersIn(heap, ls, p)
    <3>1. /\ Total(PlacesFor(r.heap, t, p)) = Total(PlacesFor(heap, t, p)) + LosersIn(heap, SubSeq(ls, 1, Len(ls)), p)
          /\ Total(WaitingAt(r.heap, p)) = Total(WaitingAt(heap, p)) + LosersIn(heap, SubSeq(ls, 1, Len(ls)), p)
      BY <1>6 DEF RequestedTo
    <3>2. LosersIn(heap, SubSeq(ls, 1, Len(ls)), p) = LosersIn(heap, ls, p) /\ LosersIn(heap, ls, p) \in Nat
      BY <2>2, <2>4
    <3>3. Total(PlacesFor(heap, t, p)) = 0 /\ Total(WaitingAt(heap, p)) \in Nat
      BY <1>3, <2>3, WaitingNat
    <3>4. QED
      BY <3>1, <3>2, <3>3
  <2>7. QED
    BY <2>4, <2>5, <2>6
<1> HIDE DEF r
<1>10. /\ out' \in Outs /\ \A u \in Thread : u # t => out'[u] = out[u]
       /\ out'[t].stage = "waiting"
       /\ \A u \in Thread : /\ out'[u].body = out[u].body /\ out'[u].losers = out[u].losers
                            /\ out'[u].count = out[u].count
  <2>1. "waiting" \in Stages
    BY DEF Stages
  <2>2. GoesOn(out, out', t, "waiting")
    BY <1>1, <1>3, <2>1, StageSet
  <2>3. QED
    BY <2>2 DEF GoesOn
<1>11. /\ m \in Message /\ m.kind = "request" /\ m.body = Uids(r.uids) /\ MessageSound(m)
       /\ \A p : SumOf(m.body, p) = 0
       /\ \A p : Mentions(m.body, p) <=> \E i \in DOMAIN r.uids : r.uids[i] = p
  <2>1. Uids(r.uids) \in Body
    BY <1>7, UidsAre
  <2>2. m \in Message /\ m.kind = "request" /\ m.body = Uids(r.uids) /\ m.to = Owner
    BY <1>5, <2>1, FiniteSets DEF Msg, Message
  <2>3. QED
    BY <1>7, <2>2, UidsAre DEF MessageSound, Routed, Counted
<1> HIDE DEF m
<1>12. /\ WireOK(wire') /\ DOMAIN wire' \subseteq DOMAIN wire \cup {m}
       /\ \A p : Total(WireAt(wire', p)) = Total(WireAt(wire, p))
  <2>1. WireOK(wire) /\ m \in Message
    BY <1>3, <1>11
  <2>2. /\ WireOK(Post(wire, m)) /\ DOMAIN Post(wire, m) = DOMAIN wire \cup {m}
        /\ \A p : Total(WireAt(Post(wire, m), p)) = Total(WireAt(wire, p)) + SumOf(m.body, p)
    BY <2>1, Posted
  <2>3. \A p : Total(WireAt(wire, p)) \in Nat
    BY <2>1, WireNat
  <2>4. CASE wire' = Post(wire, m)
    BY <1>11, <2>2, <2>3, <2>4
  <2>5. CASE wire' = wire
    BY <2>1, <2>5
  <2>6. QED
    BY <1>1, <2>4, <2>5 DEF PostedOrNot
<1>13. StateOK(slot, heap', wire', out', disp)
  BY <1>1, <1>2, <1>7, <1>10, <1>12 DEF StateOK
<1>14. TypeOK'
  BY <1>1, <1>2, <1>7, <1>10, <1>12 DEF IInv, TypeOK, Heaps, WireOK, Outs
<1>15. \A c \in Cell : heap'[c].proxy = heap[c].proxy /\ heap'[c].count = heap[c].count /\ heap'[c].self = heap[c].self
  BY <1>1, <1>7
<1>16. \A p : \A u \in Thread : LosersIn(heap', out[u].losers, p) = LosersIn(heap, out[u].losers, p)
  BY <1>5, <1>15, LosersSame
<1>17. \A u \in Thread : ThreadSound(heap', out', u)
  <2>1. ASSUME NEW u \in Thread, u # t PROVE ThreadSound(heap', out', u)
    <3>1. ThreadSound(heap, out, u) /\ out'[u] = out[u]
      BY <1>4, <1>10, <2>1
    <3>2. \A c \in Cell : PlacesIn(heap', c, u) = PlacesIn(heap, c, u)
      BY <1>1, <1>7, <2>1
    <3>3. PlacesAt(heap', u) = PlacesAt(heap, u)
      BY <3>2 DEF PlacesAt
    <3>4. \A p : PlacesFor(heap', u, p) = PlacesFor(heap, u, p)
      BY <1>15, <3>2 DEF PlacesFor
    <3>5. \A p : LosingIn(heap', out', u, p) = LosingIn(heap, out, u, p)
      BY <1>16, <3>1 DEF LosingIn
    <3>6. \A i \in DOMAIN out'[u].losers : heap'[out'[u].losers[i]].proxy \in Proxy
      BY <1>5, <1>15, <3>1
    <3>7. QED
      BY <3>1, <3>3, <3>4, <3>5, <3>6 DEF ThreadSound
  <2>2. ThreadSound(heap', out', t)
    <3>1. ThreadSound(heap, out, t)
      BY <1>4
    <3>2. \A i \in DOMAIN out'[t].losers : heap'[out'[t].losers[i]].proxy \in Proxy
      BY <1>5, <1>10, <1>15
    <3>3. out'[t].count = Total(PlacesAt(heap', t))
      BY <1>1, <1>9, <1>10, <3>1 DEF ThreadSound
    <3>4. \A i \in DOMAIN out'[t].body : out'[t].body[i][2] >= 1
      BY <1>10, <3>1 DEF ThreadSound
    <3>5. ASSUME NEW p \in Proxy
          PROVE  /\ LosingIn(heap', out', t, p) <= SumOf(out'[t].body, p)
                 /\ Total(PlacesFor(heap', t, p)) <= SumOf(out'[t].body, p)
      <4>1. SumOf(out[t].body, p) \in Nat /\ out'[t].body = out[t].body
        BY <1>5, <1>10, SumIsNumber
      <4>2. LosingIn(heap', out', t, p) = 0
        BY <1>10 DEF LosingIn
      <4>3. LosersIn(heap, ls, p) <= SumOf(out[t].body, p)
        BY <1>1, <3>1 DEF ThreadSound, LosingIn
      <4>4. QED
        BY <1>1, <1>9, <4>1, <4>2, <4>3
    <3>6. QED
      BY <1>10, <3>2, <3>3, <3>4, <3>5 DEF ThreadSound
  <2>3. QED
    BY <2>1, <2>2
<1>18. WaitersSound(heap', out')
  <2> SUFFICES ASSUME NEW c \in Cell, NEW i \in DOMAIN heap'[c].waiters
               PROVE  WaiterSound(out', heap'[c].waiters[i], c)
    BY DEF WaitersSound
  <2>1. CASE i \in DOMAIN heap[c].waiters /\ r.heap[c].waiters[i] = heap[c].waiters[i]
    <3> DEFINE u == heap[c].waiters[i]
    <3>1. WaiterSound(out, u, c) /\ u \in Thread
      BY <1>3, <1>4, <2>1, PlacesAre DEF WaitersSound
    <3>2. u # t
      BY <1>1, <3>1 DEF WaiterSound
    <3>3. WaiterSound(out', u, c)
      BY <1>10, <3>1, <3>2 DEF WaiterSound
    <3>4. QED
      BY <1>1, <2>1, <3>3
  <2>2. CASE r.heap[c].waiters[i] = t /\ \E j \in DOMAIN ls : ls[j] = c
    BY <1>1, <1>10, <2>2 DEF WaiterSound
  <2>3. QED
    BY <1>1, <1>8, <2>1, <2>2
<1>19. Sound(slot, heap', live, wire', out', disp)
  <2>1. HeldSound(slot, heap', live, disp)
    <3> SUFFICES ASSUME NEW c \in Aspace, NEW p \in Proxy, HeldIn(live, disp, c, p)
                 PROVE  slot[c][p] # 0 /\ heap'[slot[c][p]].self
      BY DEF HeldSound
    <3>1. slot[c][p] # 0 /\ heap[slot[c][p]].self
      BY <1>4 DEF HeldSound
    <3>2. QED
      BY <1>3, <1>15, <3>1 DEF Slots
  <2>2. \A n \in DOMAIN wire' : MessageSound(n)
    BY <1>3, <1>11, <1>12 DEF Sound
  <2>3. SlotsSound(slot, heap')
    <3> SUFFICES ASSUME NEW a \in Aspace, NEW p \in Proxy, slot[a][p] # 0
                 PROVE  heap'[slot[a][p]].proxy = p
      BY <1>4 DEF SlotsSound
    <3>1. slot[a][p] \in Cell \cup {0} /\ heap[slot[a][p]].proxy = p
      BY <1>3, <1>4 DEF Slots, SlotsSound
    <3>2. QED
      BY <1>15, <3>1
  <2>4. QED
    BY <1>3, <1>17, <1>18, <2>1, <2>2, <2>3 DEF Sound
<1>20. ASSUME NEW p \in Proxy
       PROVE  CountsSound(slot, heap', wire', out', disp, p) /\ FreeSound(slot, live, wire', out', disp, p)
  <2> DEFINE C == Counts(slot, heap, wire, out, disp, p)
             C2 == Counts(slot, heap', wire', out', disp, p)
             O == Owed(heap, out, p)
             O2 == Owed(heap', out', p)
  <2>1. CountsSound(slot, heap, wire, out, disp, p) /\ FreeSound(slot, live, wire, out, disp, p)
    BY DEF IInv
  <2>2. Total(DispAt(heap', disp, p)) = Total(DispAt(heap, disp, p))
    <3>1. ASSUME NEW c \in Aspace, NEW d \in Aspace
          PROVE  BusyIn(heap', disp[c][d], p) = BusyIn(heap, disp[c][d], p)
      <4> DEFINE k == disp[c][d]
      <4>1. k \in Dispatcher
        BY <1>3 DEF Disps
      <4> HIDE DEF k
      <4>3. \A i \in DOMAIN k.low : k.low[i].data \in Cell
        BY <4>1, LowAre
      <4>4. LowAt(heap', k.low, p) = LowAt(heap, k.low, p)
        BY <1>15, <4>3 DEF LowAt
      <4>5. BusyIn(heap', k, p) = BusyIn(heap, k, p)
        BY <4>4 DEF BusyIn, LowSum
      <4>6. QED
        BY <4>5 DEF k
    <3>2. QED
      BY <3>1, DispSame
  <2>3. Total(VectorAt(slot, heap', p)) = Total(VectorAt(slot, heap, p))
    <3>1. \A a \in Aspace : LocalIn(slot, heap', a, p) = LocalIn(slot, heap, a, p)
      <4>1. \A a \in Aspace : slot[a][p] \in Cell \cup {0}
        BY <1>3 DEF Slots
      <4>2. QED
        BY <1>15, <4>1 DEF LocalIn
    <3>2. QED
      BY <3>1, VectorsSame
  <2>4. Total(ThreadAt(out', p)) = Total(ThreadAt(out, p))
    BY <1>10, ThreadsSame
  <2>5. C \in Nat /\ C2 \in Nat /\ O \in Nat /\ O2 \in Nat
    BY <1>2, <1>13, SumsAreNumbers
  <2>6. C2 = C
    BY <1>12, <2>2, <2>3, <2>4 DEF Counts
  <2>7. O2 = O
    <3>1. \A u \in Thread \ {t} : LosingIn(heap', out', u, p) = LosingIn(heap, out, u, p)
      BY <1>10, <1>16 DEF LosingIn
    <3>2. Total(LosingAt(heap', out', p)) + LosingIn(heap, out, t, p)
            = Total(LosingAt(heap, out, p)) + LosingIn(heap', out', t, p)
      BY <1>3, <1>10, <3>1, LosingChange
    <3>3. LosingIn(heap, out, t, p) = LosersIn(heap, ls, p) /\ LosingIn(heap', out', t, p) = 0
      BY <1>1, <1>10 DEF LosingIn
    <3>4. Total(WaitingAt(heap', p)) = Total(WaitingAt(heap, p)) + LosersIn(heap, ls, p)
          /\ LosersIn(heap, ls, p) \in Nat
      BY <1>1, <1>9
    <3>5. /\ Total(LosingAt(heap, out, p)) \in Nat /\ Total(LosingAt(heap', out', p)) \in Nat
          /\ Total(WaitingAt(heap, p)) \in Nat
      BY <1>2, <1>13, SumsAreNumbers
    <3>6. QED
      BY <3>2, <3>3, <3>4, <3>5 DEF Owed
  <2>8. ASSUME Clean(slot, heap, wire, out, disp, p)
        PROVE  Clean(slot, heap', wire', out', disp, p)
    <3>1. ~Mentions(m.body, p)
      <4>1. \A j \in DOMAIN ls : heap[ls[j]].proxy # p
        BY <2>8 DEF Clean
      <4>2. QED
        BY <1>7, <1>11, <4>1
    <3>2. Fine(m.kind, m.body, p)
      BY <3>1 DEF Fine, Mentions
    <3>3. \A u \in Thread : \A i \in DOMAIN out'[u].losers : heap'[out'[u].losers[i]].proxy # p
      BY <1>5, <1>10, <1>15, <2>8 DEF Clean
    <3>4. \A a \in Aspace : slot[a][p] # 0 => heap'[slot[a][p]].count >= 1
      <4>1. \A a \in Aspace : slot[a][p] \in Cell \cup {0}
        BY <1>3 DEF Slots
      <4>2. QED
        BY <1>15, <2>8, <4>1 DEF Clean
    <3>5. QED
      BY <1>12, <2>8, <3>2, <3>3, <3>4 DEF Clean
  <2> HIDE DEF C, C2, O, O2
  <2>9. C2 + O <= C + O2
    BY <2>5, <2>6, <2>7
  <2>10. CountsSound(slot, heap', wire', out', disp, p)
    BY <1>2, <1>13, <2>1, <2>8, <2>9, CountsCarried DEF C, C2, O, O2
  <2>11. FreeSound(slot, live, wire', out', disp, p)
    <3>1. SUFFICES ASSUME slot[Owner][p] = 0
                   PROVE  /\ \A n \in DOMAIN wire' : ~Mentions(n.body, p)
                          /\ \A u \in Thread : ~Mentions(out'[u].body, p)
      BY <2>1 DEF FreeSound
    <3>2. /\ \A n \in DOMAIN wire : ~Mentions(n.body, p)
          /\ \A u \in Thread : ~Mentions(out[u].body, p)
      BY <2>1, <3>1 DEF FreeSound
    <3>3. LosersIn(heap, ls, p) <= 0
      <4>1. SumOf(out[t].body, p) = 0
        BY <3>2, SumOfUnmentioned
      <4>2. ThreadSound(heap, out, t)
        BY <1>4
      <4>3. LosersIn(heap, ls, p) <= SumOf(out[t].body, p)
        BY <1>1, <4>2 DEF ThreadSound, LosingIn
      <4>4. QED
        BY <4>1, <4>3
    <3>4. \A j \in DOMAIN ls : heap[ls[j]].proxy # p
      <4> SUFFICES ASSUME NEW j \in DOMAIN ls, heap[ls[j]].proxy = p PROVE FALSE
        OBVIOUS
      <4>1. ls \in Seq(Cell)
        BY <1>5
      <4> HIDE DEF ls
      <4>2. LosersIn(heap, ls, p) >= 1
        BY <4>1, LosersCount
      <4>3. LosersIn(heap, ls, p) \in Nat
        BY <1>9
      <4>4. QED
        BY <3>3, <4>2, <4>3
    <3>5. ~Mentions(m.body, p)
      BY <1>7, <1>11, <3>4
    <3>6. QED
      BY <1>10, <1>12, <3>2, <3>5
  <2>12. QED
    BY <2>10, <2>11
<1>21. QED
  BY <1>1, <1>14, <1>19, <1>20 DEF IInv

-----------------------------------------------------------------------------
(* Counts that come back.                                                  *)

Adding == [slot : Slots, heap : Heaps, dead : BOOLEAN]

\* r is what became of the slots s and the heap h when the first n items of the message
\* body were added.
AddedTo(s, h, a, body, r, n) ==
  /\ r \in Adding
  /\ \A c \in Cell : /\ r.heap[c].proxy = h[c].proxy /\ r.heap[c].waiters = h[c].waiters
                     /\ r.heap[c].self = h[c].self
                     /\ c \notin CellsOf(s, a) => r.heap[c].count = h[c].count
  /\ \A b \in Aspace, p \in Proxy :
       r.slot[b][p] # s[b][p] => /\ b = a /\ r.slot[b][p] = 0 /\ s[b][p] # 0 /\ ~h[s[b][p]].self
                                 /\ r.heap[s[b][p]].count = BaseCount
  /\ \A p \in Proxy : s[a][p] # 0 =>
       /\ Positive(r.heap[s[a][p]].count) <= Positive(h[s[a][p]].count) + SumOf(SubSeq(body, 1, n), p)
       /\ h[s[a][p]].count >= 1 /\ (\A i \in DOMAIN body : body[i][1] = p => body[i][2] >= 1)
            => r.heap[s[a][p]].count >= 1

\* A slot is set.
Slotted(s, a, q, v) == [s EXCEPT ![a][q] = v]

\* The vectors, after one entry changed.
LEMMA SlottedIs ==
  ASSUME NEW s \in Slots, NEW a \in Aspace, NEW q \in Proxy, NEW v \in Cell \cup {0}
  PROVE  /\ Slotted(s, a, q, v) \in Slots
         /\ \A b \in Aspace, p \in Proxy : Slotted(s, a, q, v)[b][p] = IF b = a /\ p = q THEN v ELSE s[b][p]
<1> DEFINE f == [s[a] EXCEPT ![q] = v]
<1>1. s \in [Aspace -> [Proxy -> Cell \cup {0}]] /\ s[a] \in [Proxy -> Cell \cup {0}]
  BY DEF Slots
<1>2. f \in [Proxy -> Cell \cup {0}] /\ f[q] = v /\ \A p \in Proxy : p # q => f[p] = s[a][p]
  BY <1>1
<1>3. Slotted(s, a, q, v) = [s EXCEPT ![a] = f]
  BY DEF Slotted
<1> HIDE DEF f
<1>4. /\ [s EXCEPT ![a] = f] \in [Aspace -> [Proxy -> Cell \cup {0}]]
      /\ [s EXCEPT ![a] = f][a] = f /\ \A b \in Aspace : b # a => [s EXCEPT ![a] = f][b] = s[b]
  BY <1>1, <1>2
<1>5. QED
  BY <1>2, <1>3, <1>4 DEF Slots

\* The count of one cell is set.  (Nothing happens for the slot of a proxy that is free.)
Recount(h, d, n) == [h EXCEPT ![d].count = n]

\* The proxy-data, after one count changed.
LEMMA RecountIs ==
  ASSUME NEW h \in Heaps, NEW d, NEW n, d \in Cell => n \in Int
  PROVE  /\ Recount(h, d, n) \in Heaps
         /\ \A c \in Cell : /\ Recount(h, d, n)[c].proxy = h[c].proxy
                            /\ Recount(h, d, n)[c].waiters = h[c].waiters
                            /\ Recount(h, d, n)[c].self = h[c].self
                            /\ Recount(h, d, n)[c].count = IF c = d THEN n ELSE h[c].count
<1> DEFINE x == [h[d] EXCEPT !.count = n]
<1>1. Recount(h, d, n) = [h EXCEPT ![d] = x]
  BY DEF Recount
<1>2. CASE d \in Cell
  <2>1. h[d] \in ProxyData /\ n \in Int
    BY <1>2 DEF Heaps
  <2>2. x \in ProxyData /\ x.count = n /\ x.proxy = h[d].proxy /\ x.waiters = h[d].waiters /\ x.self = h[d].self
    BY <2>1 DEF ProxyData
  <2> HIDE DEF x
  <2>3. Recount(h, d, n) \in Heaps /\ Recount(h, d, n)[d] = x
        /\ \A c \in Cell : c # d => Recount(h, d, n)[c] = h[c]
    BY <1>1, <1>2, <2>2 DEF Heaps
  <2>4. QED
    BY <2>2, <2>3
<1>3. CASE d \notin Cell
  <2> HIDE DEF x
  <2>1. Recount(h, d, n) \in Heaps /\ \A c \in Cell : Recount(h, d, n)[c] = h[c]
    BY <1>1, <1>3 DEF Heaps
  <2>2. QED
    BY <1>3, <2>1
<1>4. QED
  BY <1>2, <1>3

\* One step of the fold that adds returned counts.
LEMMA AddStep ==
  ASSUME NEW s \in Slots, NEW h \in Heaps, SlotsSound(s, h), NEW a \in Aspace, NEW body \in Body,
         NEW n \in 1 .. Len(body), NEW e, AddedTo(s, h, a, body, e, n - 1)
  PROVE  AddedTo(s, h, a, body, AddProxyCounts(a, e, body[n]), n)
<1> DEFINE q == body[n][1]
           x == body[n][2]
           d == e.slot[a][q]
           k == e.heap[d].count + x
           yes == k = BaseCount /\ ~e.heap[d].self
           fails == e.dead \/ body[n][3] # 0 \/ e.heap[d].tag # 0
           r == AddProxyCounts(a, e, body[n])
<1>1. /\ e \in Adding /\ e.slot \in Slots /\ e.heap \in Heaps
      /\ n \in DOMAIN body /\ body[n] \in Proxy \X Int \X (0 .. 3) /\ q \in Proxy /\ x \in Int
  BY BodyItems DEF AddedTo, Adding

<1>3. d \in Cell \cup {0} /\ 0 \notin Cell /\ (d \in Cell => k \in Int)
  <2>1. d \in Cell \cup {0} /\ 0 \notin Cell
    BY <1>1 DEF Slots, Cell
  <2>2. d \in Cell => e.heap[d].count \in Int
    BY <1>1 DEF Heaps, ProxyData
  <2>3. QED
    BY <1>1, <2>1, <2>2
<1>4. SubSeq(body, 1, n) = Append(SubSeq(body, 1, n - 1), body[n]) /\ SubSeq(body, 1, n - 1) \in Body
  BY Prefixes DEF Body
<1>5. ASSUME NEW p \in Proxy
      PROVE  /\ SumOf(SubSeq(body, 1, n), p) = SumOf(SubSeq(body, 1, n - 1), p) + IF p = q THEN Positive(x) ELSE 0
             /\ SumOf(SubSeq(body, 1, n - 1), p) \in Nat /\ Positive(x) \in Nat
  <2>1. SumOf(Append(SubSeq(body, 1, n - 1), body[n]), p) = SumOf(SubSeq(body, 1, n - 1), p) + CountOf(body[n], p)
    BY <1>1, <1>4, SumAppended
  <2>2. CountOf(body[n], p) = IF p = q THEN Positive(x) ELSE 0
    BY DEF CountOf
  <2>3. SumOf(SubSeq(body, 1, n - 1), p) \in Nat
    BY <1>4, SumIsNumber
  <2>4. Positive(x) \in Nat
    BY <1>1 DEF Positive
  <2> HIDE DEF x, q
  <2>5. QED
    BY <1>4, <2>1, <2>2, <2>3, <2>4
<1>16. CASE fails
  <2>1. r = [e EXCEPT !.dead = TRUE]
    BY <1>16 DEF AddProxyCounts
  <2>2. r \in Adding /\ r.heap = e.heap /\ r.slot = e.slot
    BY <1>1, <2>1 DEF Adding
  <2> HIDE DEF r
  <2>3. ASSUME NEW p \in Proxy, s[a][p] # 0
        PROVE  Positive(e.heap[s[a][p]].count) <= Positive(h[s[a][p]].count) + SumOf(SubSeq(body, 1, n), p)
    <3>1. Positive(e.heap[s[a][p]].count) <= Positive(h[s[a][p]].count) + SumOf(SubSeq(body, 1, n - 1), p)
      BY <2>3 DEF AddedTo
    <3>2. s[a][p] \in Cell \cup {0}
      BY DEF Slots
    <3>3. e.heap[s[a][p]].count \in Int /\ h[s[a][p]].count \in Int
      BY <1>1, <2>3, <3>2 DEF Heaps, ProxyData
    <3>4. Positive(e.heap[s[a][p]].count) \in Nat /\ Positive(h[s[a][p]].count) \in Nat
      BY <3>3 DEF Positive
    <3> HIDE DEF x, q
    <3>5. QED
      BY <1>5, <3>1, <3>4
  <2>4. AddedTo(s, h, a, body, r, n)
    BY <2>2, <2>3 DEF AddedTo
  <2>5. QED
    BY <2>4 DEF r
<1>17. SUFFICES ASSUME ~fails PROVE AddedTo(s, h, a, body, r, n)
  BY <1>16
<1>2. r = [slot |-> IF yes THEN Slotted(e.slot, a, q, 0) ELSE e.slot, heap |-> Recount(e.heap, d, k), dead |-> FALSE]
  BY <1>17 DEF AddProxyCounts, Slotted, Recount
<1> HIDE DEF r
<1>6. /\ r.slot \in Slots
      /\ \A b \in Aspace, p \in Proxy : r.slot[b][p] = IF b = a /\ p = q /\ yes THEN 0 ELSE e.slot[b][p]
  <2>1. q \in Proxy /\ e.slot \in Slots
    BY <1>1
  <2>2. r.slot = IF yes THEN Slotted(e.slot, a, q, 0) ELSE e.slot
    BY <1>2
  <2> HIDE DEF q, yes
  <2>3. /\ Slotted(e.slot, a, q, 0) \in Slots
        /\ \A b \in Aspace, p \in Proxy :
             Slotted(e.slot, a, q, 0)[b][p] = IF b = a /\ p = q THEN 0 ELSE e.slot[b][p]
    BY <2>1, SlottedIs
  <2>4. CASE yes
    BY <2>2, <2>3, <2>4
  <2>5. CASE ~yes
    BY <2>1, <2>2, <2>5
  <2>6. QED
    BY <2>4, <2>5
<1>7. /\ r.heap \in Heaps
      /\ \A c \in Cell : /\ r.heap[c].proxy = e.heap[c].proxy /\ r.heap[c].waiters = e.heap[c].waiters
                         /\ r.heap[c].self = e.heap[c].self
                         /\ r.heap[c].count = IF c = d THEN k ELSE e.heap[c].count
  <2>1. e.heap \in Heaps /\ r.heap = Recount(e.heap, d, k) /\ (d \in Cell => k \in Int)
    BY <1>1, <1>2, <1>3
  <2> HIDE DEF d, k
  <2>2. QED
    BY <2>1, RecountIs
<1>8. r \in Adding
  <2>1. r = [slot |-> r.slot, heap |-> r.heap, dead |-> FALSE]
    BY <1>2
  <2>2. \A v \in Slots, g \in Heaps : [slot |-> v, heap |-> g, dead |-> FALSE] \in Adding
    BY DEF Adding
  <2>3. r.slot \in Slots /\ r.heap \in Heaps
    BY <1>6, <1>7
  <2> HIDE DEF yes, k, d, x, q
  <2>4. QED
    BY <2>1, <2>2, <2>3
<1>9. d # 0 => d = s[a][q] /\ d \in Cell /\ d \in CellsOf(s, a)
  BY <1>1, <1>3 DEF AddedTo, CellsOf
<1>10. \A p \in Proxy : s[a][p] # 0 => s[a][p] \in Cell /\ (s[a][p] = s[a][q] => p = q)
  <2>1. \A p \in Proxy : s[a][p] \in Cell \cup {0}
    BY DEF Slots
  <2>2. \A p \in Proxy : s[a][p] # 0 => h[s[a][p]].proxy = p
    BY DEF SlotsSound
  <2>3. QED
    BY <1>1, <2>1, <2>2
<1>11. ASSUME NEW c \in Cell
       PROVE  /\ r.heap[c].proxy = h[c].proxy /\ r.heap[c].waiters = h[c].waiters
              /\ r.heap[c].self = h[c].self
              /\ c \notin CellsOf(s, a) => r.heap[c].count = h[c].count
  <2>1. /\ e.heap[c].proxy = h[c].proxy /\ e.heap[c].waiters = h[c].waiters
        /\ e.heap[c].self = h[c].self
        /\ c \notin CellsOf(s, a) => e.heap[c].count = h[c].count
    BY DEF AddedTo
  <2>2. c = d => c \in CellsOf(s, a)
    BY <1>3, <1>9
  <2> HIDE DEF d, k
  <2>3. QED
    BY <1>7, <2>1, <2>2
<1>12. ASSUME NEW b \in Aspace, NEW p \in Proxy, r.slot[b][p] # s[b][p]
       PROVE  /\ b = a /\ r.slot[b][p] = 0 /\ s[b][p] # 0 /\ ~h[s[b][p]].self
              /\ r.heap[s[b][p]].count = BaseCount
  <2>1. CASE e.slot[b][p] # s[b][p]
    <3>1. /\ b = a /\ e.slot[b][p] = 0 /\ s[b][p] # 0 /\ ~h[s[b][p]].self
          /\ e.heap[s[b][p]].count = BaseCount
      BY <2>1 DEF AddedTo
    <3>2. r.slot[b][p] = 0
      BY <1>6, <3>1
    <3>3. s[b][p] # d /\ s[b][p] \in Cell
      BY <1>9, <1>10, <3>1
    <3> HIDE DEF d, k
    <3>4. r.heap[s[b][p]].count = BaseCount
      BY <1>7, <3>1, <3>3
    <3>5. QED
      BY <3>1, <3>2, <3>4
  <2>2. CASE e.slot[b][p] = s[b][p]
    <3>1. b = a /\ p = q /\ yes /\ r.slot[b][p] = 0
      BY <1>6, <1>12, <2>2
    <3>2. d = s[b][p] /\ d # 0 /\ d \in Cell
      BY <1>3, <1>12, <2>2, <3>1
    <3>3. ~h[d].self
      BY <3>1, <3>2 DEF AddedTo
    <3>4. r.heap[d].count = k /\ k = BaseCount
      BY <1>7, <3>1, <3>2
    <3> HIDE DEF d, k
    <3>5. QED
      BY <3>1, <3>2, <3>3, <3>4
  <2>3. QED
    BY <2>1, <2>2
<1>13. ASSUME NEW p \in Proxy, s[a][p] # 0
       PROVE  /\ Positive(r.heap[s[a][p]].count) <= Positive(h[s[a][p]].count) + SumOf(SubSeq(body, 1, n), p)
              /\ h[s[a][p]].count >= 1 /\ (\A i \in DOMAIN body : body[i][1] = p => body[i][2] >= 1)
                   => r.heap[s[a][p]].count >= 1
  <2> DEFINE y == s[a][p]
             e1 == e.heap[y].count
             h1 == h[y].count
             r1 == r.heap[y].count
             all == \A i \in DOMAIN body : body[i][1] = p => body[i][2] >= 1
  <2>1. y \in Cell /\ e1 \in Int /\ h1 \in Int
    BY <1>1, <1>10, <1>13 DEF Heaps, ProxyData
  <2>2. /\ Positive(e1) <= Positive(h1) + SumOf(SubSeq(body, 1, n - 1), p)
        /\ h1 >= 1 /\ all => e1 >= 1
    BY <1>13 DEF AddedTo
  <2>3. r1 = e1 \/ (r1 = e1 + x /\ p = q)
    <3>1. CASE y = d
      <4>1. d = s[a][q] /\ d \in Cell
        BY <1>3, <1>9, <2>1, <3>1
      <4>2. p = q
        BY <1>10, <1>13, <3>1, <4>1
      <4>3. r.heap[d].count = k
        BY <1>7, <4>1
      <4>4. QED
        BY <3>1, <4>2, <4>3
    <3>2. CASE y # d
      BY <1>7, <2>1, <3>2
    <3>3. QED
      BY <3>1, <3>2
  <2>4. all /\ p = q => x >= 1
    BY <1>1
  <2> HIDE DEF e1, h1, r1, all, x, q
  <2>5. Positive(e1 + x) <= Positive(e1) + Positive(x) /\ Positive(e1) \in Nat /\ Positive(h1) \in Nat
    <3>1. e1 \in Int /\ h1 \in Int /\ x \in Int
      BY <1>1, <2>1
    <3>2. QED
      BY <3>1 DEF Positive
  <2>6. Positive(r1) <= Positive(h1) + SumOf(SubSeq(body, 1, n), p)
    <3>1. CASE r1 = e1
      BY <1>5, <2>2, <2>5, <3>1
    <3>2. CASE r1 = e1 + x /\ p = q
      <4>1. Positive(e1 + x) \in Int
        BY <1>1, <2>1 DEF Positive
      <4>2. QED
        BY <1>5, <2>2, <2>5, <3>2, <4>1
    <3>3. QED
      BY <2>3, <3>1, <3>2
  <2>7. h1 >= 1 /\ all => r1 >= 1
    BY <1>1, <2>1, <2>2, <2>3, <2>4
  <2>8. QED
    BY <2>6, <2>7 DEF h1, r1, all
<1>14. QED
  BY <1>8, <1>11, <1>12, <1>13 DEF AddedTo

Adds(s, h, a, body) ==
  LET Step(r, item) == AddProxyCounts(a, r, item)
  IN  Fold(Step, [slot |-> s, heap |-> h, dead |-> FALSE], body)

\* The whole fold: the owner has what the message had.
LEMMA AddFold ==
  ASSUME NEW s \in Slots, NEW h \in Heaps, SlotsSound(s, h), NEW a \in Aspace, NEW body \in Body
  PROVE  AddedTo(s, h, a, body, Adds(s, h, a, body), Len(body))
<1> DEFINE N == Len(body)
           start == [slot |-> s, heap |-> h, dead |-> FALSE]
           X == [n \in 0 .. N |-> {e \in Adding : AddedTo(s, h, a, body, e, n)}]
           G == [n \in 1 .. N |-> [e \in X[n - 1] |-> AddProxyCounts(a, e, body[n])]]
           Solves(f) == f = [n \in 0 .. N |-> IF n = 0 THEN start ELSE AddProxyCounts(a, f[n - 1], body[n])]
<1>1. N \in Nat
  BY BodyItems
<1>2. start \in X[0]
  <2>1. start \in Adding /\ start.slot = s /\ start.heap = h
    BY DEF Adding
  <2> HIDE DEF start
  <2>2. \A p : SumOf(SubSeq(body, 1, 0), p) = 0
    BY Prefixes, SumOfEmpty DEF Body
  <2>3. \A p \in Proxy : s[a][p] # 0 => h[s[a][p]].count \in Int
    <3>1. \A p \in Proxy : s[a][p] \in Cell \cup {0}
      BY DEF Slots
    <3>2. QED
      BY <3>1 DEF Heaps, ProxyData
  <2>4. ASSUME NEW p \in Proxy, s[a][p] # 0
        PROVE  Positive(start.heap[s[a][p]].count) <= Positive(h[s[a][p]].count) + SumOf(SubSeq(body, 1, 0), p)
    <3>1. Positive(h[s[a][p]].count) \in Nat
      BY <2>3, <2>4 DEF Positive
    <3>2. QED
      BY <2>1, <2>2, <3>1
  <2>5. AddedTo(s, h, a, body, start, 0)
    BY <2>1, <2>4 DEF AddedTo
  <2>6. QED
    BY <2>1, <2>5
<1>3. ASSUME NEW n \in 1 .. N, NEW e \in X[n - 1]
      PROVE  AddProxyCounts(a, e, body[n]) \in X[n] /\ G[n][e] = AddProxyCounts(a, e, body[n])
  <2>1. AddedTo(s, h, a, body, e, n - 1)
    OBVIOUS
  <2>2. AddedTo(s, h, a, body, AddProxyCounts(a, e, body[n]), n)
    BY <2>1, AddStep
  <2>3. AddProxyCounts(a, e, body[n]) \in Adding
    BY <2>2 DEF AddedTo
  <2>4. QED
    BY <2>2, <2>3
<1> HIDE DEF N, X, G, start
<1>4. \A n \in 1 .. N : \A e \in X[n - 1] : G[n][e] \in X[n]
  BY <1>3
<1> DEFINE f == Iterates(N, X, start, G)
<1>5. /\ f[0] = start /\ \A n \in 1 .. N : f[n] = G[n][f[n - 1]]
      /\ \A n \in 0 .. N : f[n] \in X[n]
  BY <1>1, <1>2, <1>4, Recursion
<1> HIDE DEF f
<1>6. ASSUME NEW n \in 1 .. N PROVE f[n] = AddProxyCounts(a, f[n - 1], body[n])
  <2>1. n - 1 \in 0 .. N
    BY <1>1
  <2>2. f[n - 1] \in X[n - 1] /\ f[n] = G[n][f[n - 1]]
    BY <1>5, <2>1
  <2>3. QED
    BY <1>3, <2>2
<1> DEFINE e == [n \in 0 .. N |-> f[n]]
<1>7. Solves(e)
  <2>1. e[0] = start /\ \A n \in 1 .. N : e[n] = f[n] /\ e[n - 1] = f[n - 1]
    BY <1>1, <1>5
  <2>2. \A n \in 0 .. N : e[n] = IF n = 0 THEN start ELSE AddProxyCounts(a, e[n - 1], body[n])
    BY <1>1, <1>6, <2>1
  <2>3. QED
    BY <2>2
<1> DEFINE g == CHOOSE g : Solves(g)
<1>8. Solves(g)
  <2>1. \E x : Solves(x)
    BY <1>7
  <2>2. QED
    BY <2>1
<1>9. Adds(s, h, a, body) = g[N]
  BY DEF Adds, Fold, start, N
<1> HIDE DEF g
<1>10. g[0] = start /\ \A n \in 1 .. N : g[n] = AddProxyCounts(a, g[n - 1], body[n])
  BY <1>1, <1>8
<1>11. \A n \in 1 .. N : g[n - 1] \in X[n - 1] => g[n] \in X[n]
  BY <1>3, <1>10
<1>12. g[N] \in X[N]
  <2>1. g[0] \in X[0]
    BY <1>2, <1>10
  <2>2. \A n \in 0 .. N : g[n] \in X[n]
    BY <1>1, <1>11, <2>1, RecursionStays
  <2>3. QED
    BY <1>1, <2>2
<1>13. QED
  BY <1>1, <1>9, <1>12 DEF X, N


\* Returned counts are added to those of the owner.
LEMMA ProcessReturnKeeps ==
  ASSUME IInv, NEW a \in Aspace, NEW b \in Aspace, ProcessReturn(a, b)
  PROVE  IInv'
<1> DEFINE body == disp[a][b].body
           r == Adds(slot, heap, a, body)
           x == IF r.dead THEN Dead ELSE Idle
<1>1. /\ disp[a][b].kind = "return" /\ slot' = r.slot /\ heap' = r.heap
      /\ disp' = Assigned(disp, a, b, x) /\ UNCHANGED <<live, wire, out, sends>>
  BY DEF ProcessReturn, Processing, Dead, Assigned, Adds
<1>2. StateOK(slot, heap, wire, out, disp) /\ live \in [Aspace -> SUBSET Proxy] /\ sends \in [Aspace -> Nat]
  BY TypesAre DEF IInv
<1>3. heap \in Heaps /\ WireOK(wire) /\ disp \in Disps /\ slot \in Slots /\ out \in Outs
      /\ Sound(slot, heap, live, wire, out, disp)
  BY <1>2 DEF StateOK, IInv
<1>4. SlotsSound(slot, heap) /\ HeldSound(slot, heap, live, disp)
      /\ (\A u \in Thread : ThreadSound(heap, out, u)) /\ WaitersSound(heap, out)
      /\ (\A c, d \in Aspace : DispatchSound(slot, disp[c][d], c, d))
  BY <1>3 DEF Sound
<1>5. body \in Body /\ disp[a][b] \in Dispatcher
  BY <1>3 DEF Disps, Dispatcher
<1>6. a = Owner
  BY <1>1, <1>4 DEF DispatchSound, Routed
<1>7. Finished(disp, disp', a, b)
  <2>1. x \in {Idle, Dead}
    OBVIOUS
  <2> HIDE DEF x
  <2>2. QED
    BY <1>1, <1>3, <2>1, DispatcherDone
<1>8. AddedTo(slot, heap, a, body, r, Len(body)) /\ SubSeq(body, 1, Len(body)) = body
  <2>1. AddedTo(slot, heap, a, body, r, Len(body))
    BY <1>3, <1>4, <1>5, AddFold
  <2>2. SubSeq(body, 1, Len(body)) = body
    BY <1>5, Prefixes DEF Body
  <2>3. QED
    BY <2>1, <2>2
<1> HIDE DEF r, body
<1>9. /\ slot' \in Slots /\ heap' \in Heaps
      /\ \A c \in Cell : /\ heap'[c].proxy = heap[c].proxy /\ heap'[c].waiters = heap[c].waiters
                         /\ heap'[c].self = heap[c].self
                         /\ c \notin CellsOf(slot, a) => heap'[c].count = heap[c].count
      /\ \A c \in Aspace, p \in Proxy :
           slot'[c][p] # slot[c][p] => /\ c = a /\ slot'[c][p] = 0 /\ slot[c][p] # 0 /\ ~heap[slot[c][p]].self
                                       /\ heap'[slot[c][p]].count = BaseCount
      /\ \A p \in Proxy : slot[a][p] # 0 =>
           /\ Positive(heap'[slot[a][p]].count) <= Positive(heap[slot[a][p]].count) + SumOf(body, p)
           /\ heap[slot[a][p]].count >= 1 /\ (\A i \in DOMAIN body : body[i][1] = p => body[i][2] >= 1)
                => heap'[slot[a][p]].count >= 1
  <2>1. r \in Adding
    BY <1>8 DEF AddedTo
  <2>2. slot' \in Slots /\ heap' \in Heaps
    BY <1>1, <2>1 DEF Adding
  <2>3. QED
    BY <1>1, <1>8, <2>2 DEF AddedTo
<1>10. Recounted(heap, heap')
  BY <1>9 DEF Recounted
<1>11. StateOK(slot', heap', wire, out, disp')
  BY <1>2, <1>7, <1>9 DEF StateOK, Finished
<1>12. TypeOK'
  BY <1>1, <1>2, <1>7, <1>9 DEF IInv, TypeOK, Slots, Heaps, Disps, Finished
<1>13. \A p : BusyIn(heap, disp[a][b], p) = SumOf(body, p)
  BY <1>1 DEF BusyIn, body
<1>14. \A p \in Proxy : slot[a][p] # 0 => slot[a][p] \in Cell /\ heap[slot[a][p]].count \in Int
  <2>1. \A p \in Proxy : slot[a][p] \in Cell \cup {0}
    BY <1>3 DEF Slots
  <2>2. \A c \in Cell : heap[c].count \in Int
    BY <1>3 DEF Heaps, ProxyData
  <2>3. QED
    BY <2>1, <2>2
\* A proxy that is freed is at home.
<1>15. ASSUME NEW p \in Proxy, slot'[a][p] # slot[a][p]
       PROVE  /\ p \notin live[Owner]
              /\ \A c \in Aspace : slot'[c][p] = 0
              /\ \A m \in DOMAIN wire : ~Mentions(m.body, p)
              /\ \A t \in Thread : ~Mentions(out[t].body, p)
              /\ \A c, d \in Aspace : c # a \/ d # b => ~Mentions(disp[c][d].body, p)
  <2>1. /\ slot'[a][p] = 0 /\ slot[a][p] # 0 /\ ~heap[slot[a][p]].self /\ heap'[slot[a][p]].count = BaseCount
        /\ Positive(heap'[slot[a][p]].count) <= Positive(heap[slot[a][p]].count) + SumOf(body, p)
    BY <1>9, <1>15
  <2>2. Positive(BaseCount) = BaseCount
    BY ProxyCountsAssumption DEF Positive
  <2>3. LocalIn(slot, heap, Owner, p) = heap[slot[Owner][p]].count
    BY <1>6, <2>1 DEF LocalIn
  <2>4. BaseCount <= Positive(LocalIn(slot, heap, Owner, p)) + BusyIn(heap, disp[Owner][b], p)
    BY <1>6, <1>13, <2>1, <2>2, <2>3
  <2>5. slot[Owner][p] # 0 /\ ~heap[slot[Owner][p]].self /\ Owner \in Aspace
    BY <1>6, <2>1
  <2>6. CountsSound(slot, heap, wire, out, disp, p)
    BY DEF IInv
  <2>7. /\ p \notin live[Owner]
        /\ \A c \in Aspace \ {Owner} : slot[c][p] = 0
        /\ \A m \in DOMAIN wire : ~Mentions(m.body, p)
        /\ \A t \in Thread : ~Mentions(out[t].body, p)
        /\ \A c, d \in Aspace : <<c, d>> # <<Owner, b>> => ~Mentions(disp[c][d].body, p)
    BY <1>2, <1>3, <2>4, <2>5, <2>6, AllAtHome
  <2>8. \A c \in Aspace : slot'[c][p] = 0
    BY <1>6, <1>9, <2>1, <2>7
  <2>9. QED
    BY <1>6, <2>7, <2>8
<1>16. \A c \in Aspace, p \in Proxy : HeldIn(live, disp, c, p) => slot'[c][p] = slot[c][p]
  BY <1>4, <1>9 DEF HeldSound
<1>17. Sound(slot', heap', live, wire, out, disp')
  <2>1. SlotsSound(slot', heap')
    <3>1. \A c \in Aspace, p \in Proxy : slot'[c][p] # 0 => slot'[c][p] = slot[c][p]
      BY <1>9
    <3>2. SlotsSound(slot, heap')
      BY <1>3, <1>4, <1>9, <1>10, RecountedFrame
    <3>3. QED
      BY <3>1, <3>2 DEF SlotsSound
  <2>2. HeldSound(slot', heap', live, disp')
    <3> SUFFICES ASSUME NEW c \in Aspace, NEW p \in Proxy, HeldIn(live, disp', c, p)
                 PROVE  slot'[c][p] # 0 /\ heap'[slot'[c][p]].self
      BY DEF HeldSound
    <3>1. HeldIn(live, disp, c, p)
      BY <1>7 DEF Finished
    <3>2. slot[c][p] # 0 /\ heap[slot[c][p]].self /\ slot'[c][p] = slot[c][p]
      BY <1>4, <1>16, <3>1 DEF HeldSound
    <3>3. slot[c][p] \in Cell
      <4>1. slot[c][p] \in Cell \cup {0}
        BY <1>3 DEF Slots
      <4>2. QED
        BY <3>2, <4>1
    <3>4. QED
      BY <1>9, <3>2, <3>3
  <2>3. ASSUME NEW c \in Aspace, NEW d \in Aspace PROVE DispatchSound(slot', disp[c][d], c, d)
    <3>1. DispatchSound(slot, disp[c][d], c, d)
      BY <1>4
    <3>2. CASE disp[c][d].kind \in {"run", "counts"}
      <4>1. \A p \in Proxy : Mentions(disp[c][d].body, p) => slot'[c][p] = slot[c][p]
        BY <1>16, <3>2 DEF HeldIn
      <4>2. \A q : BadFound(slot, c, q, disp[c][d].body) => BadFound(slot', c, q, disp[c][d].body)
        BY <4>1 DEF BadFound
      <4>3. QED
        BY <3>1, <4>2 DEF DispatchSound
    <3>3. CASE disp[c][d].kind \notin {"run", "counts"}
      BY <3>1, <3>3 DEF DispatchSound
    <3>4. QED
      BY <3>2, <3>3
  <2>4. \A c, d \in Aspace : DispatchSound(slot', disp'[c][d], c, d)
    BY <1>7, <2>3 DEF Finished
  <2>5. (\A u \in Thread : ThreadSound(heap', out, u)) /\ WaitersSound(heap', out)
    BY <1>3, <1>4, <1>9, <1>10, RecountedFrame
  <2>6. QED
    BY <1>3, <2>1, <2>2, <2>4, <2>5 DEF Sound
<1>18. ASSUME NEW p \in Proxy
       PROVE  CountsSound(slot', heap', wire, out, disp', p) /\ FreeSound(slot', live, wire, out, disp', p)
  <2> DEFINE C == Counts(slot, heap, wire, out, disp, p)
             C2 == Counts(slot', heap', wire, out, disp', p)
             O == Owed(heap, out, p)
             O2 == Owed(heap', out, p)
             V == Total(VectorAt(slot, heap, p))
             V2 == Total(VectorAt(slot', heap', p))
             L == Positive(LocalIn(slot, heap, a, p))
             L2 == Positive(LocalIn(slot', heap', a, p))
  <2>1. CountsSound(slot, heap, wire, out, disp, p) /\ FreeSound(slot, live, wire, out, disp, p)
    BY DEF IInv
  <2>2. V2 + L = V + L2
    <3>1. \A c \in Aspace \ {a} : LocalIn(slot, heap', c, p) = LocalIn(slot, heap, c, p)
      BY <1>3, <1>4, <1>9, VectorsOfOne
    <3>2. \A c \in Aspace \ {a} : LocalIn(slot', heap', c, p) = LocalIn(slot, heap, c, p)
      BY <1>9, <3>1 DEF LocalIn
    <3>3. QED
      BY <1>3, <1>9, <3>2, VectorsChange
  <2>3. L2 <= L + SumOf(body, p) /\ L \in Nat /\ L2 \in Nat /\ SumOf(body, p) \in Nat
    <3>1. LocalIn(slot, heap, a, p) \in Int /\ LocalIn(slot', heap', a, p) \in Int
      BY <1>3, <1>9, LocalIsInt
    <3>2. L \in Nat /\ L2 \in Nat
      BY <3>1 DEF Positive
    <3>3. SumOf(body, p) \in Nat
      BY <1>5, SumIsNumber DEF body
    <3>4. CASE slot'[a][p] = 0
      <4>1. L2 = 0
        BY <3>4 DEF LocalIn, Positive
      <4>2. QED
        BY <3>2, <3>3, <4>1
    <3>5. CASE slot'[a][p] # 0
      <4>1. slot'[a][p] = slot[a][p] /\ slot[a][p] # 0
        BY <1>9, <3>5
      <4>2. L2 = Positive(heap'[slot[a][p]].count) /\ L = Positive(heap[slot[a][p]].count)
        BY <4>1 DEF LocalIn
      <4>3. QED
        BY <1>9, <3>2, <3>3, <4>1, <4>2
    <3>6. QED
      BY <3>4, <3>5
  <2>4. Total(DispAt(heap', disp', p)) + SumOf(body, p) = Total(DispAt(heap, disp, p))
    <3>1. Total(DispAt(heap', disp', p)) = Total(DispAt(heap, disp', p))
      <4>1. \A c, d \in Aspace : BusyIn(heap', disp'[c][d], p) = BusyIn(heap, disp'[c][d], p)
        BY <1>3, <1>7, <1>9, <1>10, RecountedFrame DEF Disps, Finished
      <4>2. QED
        BY <4>1, DispSame
    <3>2. Total(DispAt(heap, disp', p)) + BusyIn(heap, disp[a][b], p) = Total(DispAt(heap, disp, p))
      BY <1>7 DEF Finished
    <3>3. QED
      BY <1>13, <3>1, <3>2
  <2>5. /\ C \in Nat /\ C2 \in Nat /\ O \in Nat /\ O2 \in Nat /\ V \in Nat /\ V2 \in Nat
        /\ Total(WireAt(wire, p)) \in Nat /\ Total(ThreadAt(out, p)) \in Nat
        /\ Total(DispAt(heap, disp, p)) \in Nat /\ Total(DispAt(heap', disp', p)) \in Nat
    BY <1>2, <1>11, SumsAreNumbers
  <2>6. O2 = O
    BY <1>3, <1>9, <1>10, RecountedFrame
  <2>7. /\ C = V + Total(WireAt(wire, p)) + Total(ThreadAt(out, p)) + Total(DispAt(heap, disp, p))
        /\ C2 = V2 + Total(WireAt(wire, p)) + Total(ThreadAt(out, p)) + Total(DispAt(heap', disp', p))
    BY DEF Counts
  <2> HIDE DEF C, C2, O, O2, V, V2, L, L2
  <2>8. C2 + O <= C + O2
    BY <2>2, <2>3, <2>4, <2>5, <2>6, <2>7
  <2>9. ASSUME Clean(slot, heap, wire, out, disp, p)
        PROVE  Clean(slot', heap', wire, out, disp', p)
    <3>1. ASSUME NEW c \in Aspace, slot'[c][p] # 0 PROVE heap'[slot'[c][p]].count >= 1
      <4>1. slot'[c][p] = slot[c][p] /\ slot[c][p] # 0 /\ heap[slot[c][p]].count >= 1
        BY <1>9, <2>9, <3>1 DEF Clean
      <4>2. CASE c = a
        <5>1. Fine("return", body, p)
          BY <1>1, <2>9 DEF Clean, body
        <5>2. \A i \in DOMAIN body : body[i][1] = p => body[i][2] >= 1
          BY <5>1 DEF Fine
        <5>3. QED
          BY <1>9, <4>1, <4>2, <5>2
      <4>3. CASE c # a
        <5>1. slot[c][p] \in Cell
          <6>1. slot[c][p] \in Cell \cup {0}
            BY <1>3 DEF Slots
          <6>2. QED
            BY <4>1, <6>1
        <5>2. slot[c][p] \notin CellsOf(slot, a)
          BY <1>4, <4>1, <4>3 DEF SlotsSound, CellsOf
        <5>3. QED
          BY <1>9, <4>1, <5>1, <5>2
      <4>4. QED
        BY <4>2, <4>3
    <3>2. \A u \in Thread : \A i \in DOMAIN out[u].losers : heap'[out[u].losers[i]].proxy # p
      <4>1. \A u \in Thread : \A i \in DOMAIN out[u].losers : out[u].losers[i] \in Cell
        BY <1>3, ListElements DEF Outs, Blocked
      <4>2. QED
        BY <1>9, <2>9, <4>1 DEF Clean
    <3>3. \A c, d \in Aspace : Fine(disp'[c][d].kind, disp'[c][d].body, p)
      BY <1>7, <2>9 DEF Clean, Finished
    <3>4. QED
      BY <2>9, <3>1, <3>2, <3>3 DEF Clean
  <2>10. CountsSound(slot', heap', wire, out, disp', p)
    BY <1>2, <1>11, <2>1, <2>8, <2>9, CountsCarried DEF C, C2, O, O2
  <2>11. FreeSound(slot', live, wire, out, disp', p)
    <3>1. \A c, d \in Aspace : Mentions(disp'[c][d].body, p) => Mentions(disp[c][d].body, p) /\ (c # a \/ d # b)
      BY <1>7 DEF Finished
    <3>2. CASE slot'[a][p] # slot[a][p]
      <4>1. \A c, d \in Aspace : ~Mentions(disp'[c][d].body, p)
        BY <1>15, <3>1, <3>2
      <4>2. QED
        BY <1>15, <3>2, <4>1 DEF FreeSound
    <3>3. CASE slot'[a][p] = slot[a][p]
      <4>1. \A c \in Aspace : slot[c][p] = 0 => slot'[c][p] = 0
        BY <1>9
      <4>2. QED
        BY <1>6, <2>1, <3>1, <3>3, <4>1 DEF FreeSound
    <3>4. QED
      BY <3>2, <3>3
  <2>12. QED
    BY <2>10, <2>11
<1>19. QED
  BY <1>1, <1>12, <1>17, <1>18 DEF IInv

-----------------------------------------------------------------------------
(* Decoding.                                                               *)

Bad == [data : Cell, more : Nat \ {0}]
Decoding == [slot : Slots, heap : Heaps, low : Seq(Bad), high : Seq(Cell)]

\* A list that begins with one more element.
LEMMA Prepended ==
  ASSUME NEW S, NEW x \in S, NEW xs \in Seq(S)
  PROVE  /\ <<x>> \o xs \in Seq(S) /\ Len(<<x>> \o xs) = Len(xs) + 1
         /\ DOMAIN (<<x>> \o xs) = 1 .. Len(xs) + 1 /\ (<<x>> \o xs)[1] = x
         /\ DOMAIN xs = 1 .. Len(xs) /\ Len(xs) \in Nat
         /\ \A i \in 1 .. Len(xs) : (<<x>> \o xs)[i + 1] = xs[i]
         /\ \A i \in DOMAIN (<<x>> \o xs) : (<<x>> \o xs)[i] = x \/ \E j \in DOMAIN xs : (<<x>> \o xs)[i] = xs[j]
<1>1. <<x>> \in Seq(S) /\ Len(<<x>>) = 1 /\ <<x>>[1] = x
  OBVIOUS
<1>2. /\ <<x>> \o xs \in Seq(S) /\ Len(<<x>> \o xs) = Len(xs) + 1
      /\ DOMAIN (<<x>> \o xs) = 1 .. Len(xs) + 1 /\ (<<x>> \o xs)[1] = x
      /\ DOMAIN xs = 1 .. Len(xs) /\ Len(xs) \in Nat
  BY <1>1
<1>3. \A i \in 1 .. Len(xs) : (<<x>> \o xs)[i + 1] = xs[i]
  BY <1>1
<1> DEFINE ys == <<x>> \o xs
<1> HIDE DEF ys
<1>4. ASSUME NEW i \in DOMAIN ys PROVE ys[i] = x \/ \E j \in DOMAIN xs : ys[i] = xs[j]
  <2>1. ys[1] = x /\ DOMAIN ys = 1 .. Len(xs) + 1 /\ Len(xs) \in Nat /\ DOMAIN xs = 1 .. Len(xs)
        /\ \A j \in 1 .. Len(xs) : ys[j + 1] = xs[j]
    BY <1>2, <1>3 DEF ys
  <2>2. i = 1 \/ (i - 1 \in 1 .. Len(xs) /\ (i - 1) + 1 = i)
    BY <2>1
  <2>3. QED
    BY <2>1, <2>2
<1>5. QED
  BY <1>2, <1>3, <1>4 DEF ys

\* The counts on the list low are a number.
LEMMA LowSumIsNat ==
  ASSUME NEW h, NEW low \in Seq(Bad), NEW p
  PROVE  /\ LowSum(h, low, p) \in Nat
         /\ DOMAIN LowAt(h, low, p) = DOMAIN low /\ DOMAIN low = 1 .. Len(low) /\ Len(low) \in Nat
         /\ \A i \in DOMAIN low : LowAt(h, low, p)[i] \in Nat
<1>1. /\ DOMAIN low = 1 .. Len(low) /\ Len(low) \in Nat /\ \A i \in DOMAIN low : low[i] \in Bad
  BY ListElements
<1>2. \A i \in DOMAIN low : low[i].more \in Nat
  BY <1>1 DEF Bad
<1>3. DOMAIN LowAt(h, low, p) = DOMAIN low /\ \A i \in DOMAIN low : LowAt(h, low, p)[i] \in Nat
  BY <1>2 DEF LowAt
<1>4. LowSum(h, low, p) \in Nat
  <2> DEFINE f == LowAt(h, low, p)
  <2>1. IsFiniteSet(1 .. Len(low))
    BY <1>1, FS_Interval
  <2>2. IsFiniteSet(DOMAIN f) /\ \A i \in DOMAIN f : f[i] \in Int
    BY <1>1, <1>3, <2>1
  <2> HIDE DEF f
  <2>3. Total(f) \in Nat
    BY <2>2, UnitsAreFinite
  <2>4. QED
    BY <2>3 DEF f, LowSum
<1>5. QED
  BY <1>1, <1>3, <1>4

\* One more bad proxy.
LEMMA LowPrepended ==
  ASSUME NEW h, NEW x \in Bad, NEW low \in Seq(Bad), NEW p
  PROVE  LowSum(h, <<x>> \o low, p) = LowSum(h, low, p) + IF h[x.data].proxy = p THEN x.more ELSE 0
<1> DEFINE ys == <<x>> \o low
           f == LowAt(h, low, p)
           g == LowAt(h, ys, p)
           n == Len(low)
           k == [i \in 2 .. n + 1 |-> g[i]]
           v == IF h[x.data].proxy = p THEN x.more ELSE 0
<1>1. /\ ys \in Seq(Bad) /\ DOMAIN ys = 1 .. n + 1 /\ ys[1] = x /\ n \in Nat
      /\ \A i \in 1 .. n : ys[i + 1] = low[i]
  BY Prepended
<1>2. DOMAIN f = 1 .. n /\ \A i \in 1 .. n : f[i] \in Int /\ Total(f) \in Nat
  BY LowSumIsNat DEF LowSum
<1> HIDE DEF ys
<1>3. DOMAIN g = 1 .. n + 1 /\ \A i \in 1 .. n + 1 : g[i] \in Int
  BY <1>1, LowSumIsNat
<1>4. g[1] = v /\ v \in Nat
  <2>1. 1 \in DOMAIN ys
    BY <1>1
  <2>2. x.more \in Nat
    BY DEF Bad
  <2>3. QED
    BY <1>1, <2>1, <2>2 DEF LowAt
<1>5. \A i \in 1 .. n : g[i + 1] = f[i]
  <2> SUFFICES ASSUME NEW i \in 1 .. n PROVE g[i + 1] = f[i]
    OBVIOUS
  <2>1. i + 1 \in DOMAIN ys /\ ys[i + 1] = low[i] /\ i \in DOMAIN low
    BY <1>1, LowSumIsNat
  <2>2. QED
    BY <2>1 DEF LowAt
<1> HIDE DEF f, g, v, n
<1>6. DOMAIN k = 2 .. n + 1 /\ \A i \in 1 .. n : k[i + 1] = f[i]
  <2>1. \A i \in 1 .. n : i + 1 \in 2 .. n + 1
    BY <1>1
  <2>2. QED
    BY <1>5, <2>1
<1>7. DOMAIN k = DOMAIN g \ {1} /\ \A i \in DOMAIN k : k[i] = g[i]
  BY <1>1, <1>3
<1> HIDE DEF k
<1>8. Total(k) = Total(f)
  <2>1. n \in Nat
    BY <1>1
  <2>2. QED
    BY <1>2, <1>6, <2>1, TotalShift
<1>9. Total(g) = Total(k) + Positive(g[1])
  <2>1. IsFiniteSet(DOMAIN g)
    BY <1>1, <1>3, FS_Interval
  <2>2. 1 \in DOMAIN g /\ \A i \in DOMAIN g : g[i] \in Int
    BY <1>1, <1>3
  <2>3. QED
    BY <1>7, <2>1, <2>2, TotalWithout
<1>10. Total(g) = Total(f) + v
  BY <1>4, <1>8, <1>9 DEF Positive
<1>11. QED
  BY <1>10 DEF LowSum, f, g, v, ys

\* An empty list low has none.
LEMMA LowOfEmpty ==
  ASSUME NEW h, NEW p
  PROVE  LowSum(h, <<>>, p) = 0
<1>1. DOMAIN LowAt(h, <<>>, p) = {}
  BY DEF LowAt
<1>2. \A i \in DOMAIN LowAt(h, <<>>, p) : LowAt(h, <<>>, p)[i] \in Int /\ LowAt(h, <<>>, p)[i] <= 0
  BY <1>1
<1>3. QED
  BY <1>2, TotalOfNone DEF LowSum

\* They depend only on the proxies of the data.
LEMMA LowSame ==
  ASSUME NEW h, NEW g, NEW low, NEW p, \A i \in DOMAIN low : g[low[i].data].proxy = h[low[i].data].proxy
  PROVE  LowSum(g, low, p) = LowSum(h, low, p)
<1>1. LowAt(g, low, p) = LowAt(h, low, p)
  BY DEF LowAt
<1>2. QED
  BY <1>1 DEF LowSum

\* The proxy-datas that are used, when a slot is filled with a fresh one.
LEMMA FreshIs ==
  ASSUME out \in Outs, NEW s \in Slots, NEW a \in Aspace, NEW q \in Proxy, s[a][q] = 0,
         Cardinality(FreeCells(s)) >= Cardinality({p \in Proxy : s[a][p] = 0})
  PROVE  LET d == FreshCell(s)
             s2 == Slotted(s, a, q, d) IN
         /\ d \in Cell /\ d \notin InUse(s)
         /\ Cardinality(FreeCells(s2)) >= Cardinality({p \in Proxy : s2[a][p] = 0})
<1> DEFINE d == FreshCell(s)
           s2 == Slotted(s, a, q, d)
           E == {p \in Proxy : s[a][p] = 0}
           E2 == {p \in Proxy : s2[a][p] = 0}
<1>1. IsFiniteSet(E) /\ q \in E /\ IsFiniteSet(FreeCells(s))
  <2>1. E \subseteq Proxy /\ FreeCells(s) \subseteq Cell
    BY DEF FreeCells
  <2>2. QED
    BY <2>1, FiniteSets, FS_Subset
<1>2. Cardinality(E) \in Nat /\ Cardinality(E) >= 1 /\ Cardinality(FreeCells(s)) \in Nat
  <2>1. Cardinality(E) \in Nat /\ Cardinality(FreeCells(s)) \in Nat
    BY <1>1, FS_CardinalityType
  <2>2. Cardinality(E) # 0
    BY <1>1, FS_EmptySet
  <2>3. QED
    BY <2>1, <2>2
<1>3. FreeCells(s) # {}
  BY <1>1, <1>2, FS_EmptySet
<1>4. d \in FreeCells(s)
  BY <1>3 DEF FreshCell
<1>5. d \in Cell /\ d \notin InUse(s)
  BY <1>4 DEF FreeCells
<1> HIDE DEF d
<1>6. \A b \in Aspace, p \in Proxy : s2[b][p] = IF b = a /\ p = q THEN d ELSE s[b][p]
  BY <1>5, SlottedIs
<1> HIDE DEF s2
<1>7. E2 = E \ {q}
  BY <1>5, <1>6 DEF Cell
<1>8. FreeCells(s) \ {d} \subseteq FreeCells(s2)
  BY <1>6 DEF FreeCells, InUse
<1>9. Cardinality(E \ {q}) = Cardinality(E) - 1 /\ Cardinality(FreeCells(s) \ {d}) = Cardinality(FreeCells(s)) - 1
  <2> HIDE DEF E
  <2>1. QED
    BY <1>1, <1>4, FS_RemoveElement
<1>10. Cardinality(FreeCells(s) \ {d}) <= Cardinality(FreeCells(s2)) /\ Cardinality(FreeCells(s2)) \in Nat
  <2>1. FreeCells(s2) \subseteq Cell
    BY DEF FreeCells
  <2>2. IsFiniteSet(FreeCells(s2))
    BY <2>1, FiniteSets, FS_Subset
  <2>3. QED
    BY <1>8, <2>2, FS_Subset, FS_CardinalityType
<1> HIDE DEF E, E2
<1>11. Cardinality(FreeCells(s2)) >= Cardinality(E2)
  <2>1. Cardinality(FreeCells(s)) >= Cardinality(E)
    BY DEF E
  <2>2. QED
    BY <1>2, <1>7, <1>9, <1>10, <2>1
<1>12. QED
  BY <1>5, <1>11 DEF d, s2, E2

\* What the decoding of one item, with proxy q and x counts, does.
BadsFound(s, a, r) ==
  /\ \A i \in DOMAIN r.low : \E p \in Proxy : s[a][p] = r.low[i].data
  /\ \A i \in DOMAIN r.high : \E p \in Proxy : s[a][p] = r.high[i]
Unused(s, h) == \A c \in Cell : c \notin InUse(s) => h[c].waiters = <<>>
Enough(s, a) == Cardinality(FreeCells(s)) >= Cardinality({p \in Proxy : s[a][p] = 0})

DecodedOne(a, q, x, e, r) ==
  /\ r \in Decoding
  /\ SlotsSound(r.slot, r.heap)
  /\ \A c \in Aspace, p \in Proxy :
       r.slot[c][p] # e.slot[c][p] => c = a /\ p = q /\ e.slot[c][p] = 0 /\ r.slot[c][p] \notin InUse(e.slot)
  /\ Enough(r.slot, a)
  /\ \A c \in Cell : /\ r.heap[c].waiters = e.heap[c].waiters
                     /\ c \in InUse(e.slot) => r.heap[c].proxy = e.heap[c].proxy /\ (e.heap[c].self => r.heap[c].self)
                     /\ c \notin CellsOf(r.slot, a) => r.heap[c].count = e.heap[c].count
  /\ r.slot[a][q] # 0 /\ r.heap[r.slot[a][q]].self
  /\ \A i \in DOMAIN r.low : r.low[i].data = r.slot[a][q] \/ \E j \in DOMAIN e.low : r.low[i] = e.low[j]
  /\ \A i \in DOMAIN r.high : r.high[i] = r.slot[a][q] \/ \E j \in DOMAIN e.high : r.high[i] = e.high[j]
  /\ \A p \in Proxy :
       /\ Positive(LocalIn(r.slot, r.heap, a, p)) + LowSum(r.heap, r.low, p)
            <= Positive(LocalIn(e.slot, e.heap, a, p)) + LowSum(e.heap, e.low, p) + IF p = q THEN x ELSE 0
       /\ (e.slot[a][p] # 0 => e.heap[e.slot[a][p]].count >= 1) /\ r.slot[a][p] # 0
            => r.heap[r.slot[a][p]].count >= 1

DecodeReady(a, e) ==
  e \in Decoding /\ SlotsSound(e.slot, e.heap) /\ Enough(e.slot, a) /\ Unused(e.slot, e.heap)
  /\ BadsFound(e.slot, a, e) /\ out \in Outs

\* What decoding has made so far is well typed.
LEMMA ReadyIs ==
  ASSUME NEW a \in Aspace, NEW e, DecodeReady(a, e)
  PROVE  /\ e.slot \in Slots /\ e.heap \in Heaps /\ e.low \in Seq(Bad) /\ e.high \in Seq(Cell)
         /\ 0 \notin Cell
         /\ \A c \in Aspace, p \in Proxy : e.slot[c][p] \in Cell \cup {0} /\ e.slot[c][p] \in InUse(e.slot)
         /\ \A c \in Cell : e.heap[c] \in ProxyData /\ e.heap[c].count \in Int
         /\ \A i \in DOMAIN e.low : e.low[i].data \in Cell /\ e.low[i].data \in InUse(e.slot)
         /\ \A p \in Proxy : /\ LocalIn(e.slot, e.heap, a, p) \in Int
                             /\ Positive(LocalIn(e.slot, e.heap, a, p)) \in Nat
                             /\ LowSum(e.heap, e.low, p) \in Nat
<1>1. e.slot \in Slots /\ e.heap \in Heaps /\ e.low \in Seq(Bad) /\ e.high \in Seq(Cell) /\ 0 \notin Cell
  BY DEF DecodeReady, Decoding, Cell
<1>2. \A c \in Aspace, p \in Proxy : e.slot[c][p] \in Cell \cup {0} /\ e.slot[c][p] \in InUse(e.slot)
  BY <1>1 DEF Slots, InUse
<1>3. \A c \in Cell : e.heap[c] \in ProxyData /\ e.heap[c].count \in Int
  BY <1>1 DEF Heaps, ProxyData
<1>4. \A i \in DOMAIN e.low : e.low[i].data \in Cell /\ e.low[i].data \in InUse(e.slot)
  <2>1. \A i \in DOMAIN e.low : e.low[i] \in Bad
    BY <1>1, ListElements
  <2>2. \A i \in DOMAIN e.low : e.low[i].data \in Cell
    BY <2>1 DEF Bad
  <2>3. QED
    BY <1>2, <2>2 DEF DecodeReady, BadsFound
<1>5. ASSUME NEW p \in Proxy
      PROVE  /\ LocalIn(e.slot, e.heap, a, p) \in Int
             /\ Positive(LocalIn(e.slot, e.heap, a, p)) \in Nat
             /\ LowSum(e.heap, e.low, p) \in Nat
  <2>1. LocalIn(e.slot, e.heap, a, p) \in Int
    BY <1>1, LocalIsInt
  <2>2. LowSum(e.heap, e.low, p) \in Nat
    BY <1>1, LowSumIsNat
  <2>3. QED
    BY <2>1, <2>2 DEF Positive
<1>6. QED
  BY <1>1, <1>2, <1>3, <1>4, <1>5

\* A proxy that was not known.
LEMMA DecodeNew ==
  ASSUME NEW a \in Aspace, NEW e, DecodeReady(a, e), NEW q \in Proxy, NEW x \in Nat, x >= 1,
         e.slot[a][q] = 0, NEW r, NEW d, d = FreshCell(e.slot),
         r = [slot |-> Slotted(e.slot, a, q, d), heap |-> [e.heap EXCEPT ![d] = NewData(q, x)],
              low |-> e.low, high |-> e.high]
  PROVE  DecodedOne(a, q, x, e, r)
<1>1. /\ e.slot \in Slots /\ e.heap \in Heaps /\ e.low \in Seq(Bad) /\ e.high \in Seq(Cell)
      /\ 0 \notin Cell
      /\ \A c \in Aspace, p \in Proxy : e.slot[c][p] \in Cell \cup {0} /\ e.slot[c][p] \in InUse(e.slot)
      /\ \A c \in Cell : e.heap[c] \in ProxyData /\ e.heap[c].count \in Int
      /\ \A i \in DOMAIN e.low : e.low[i].data \in Cell /\ e.low[i].data \in InUse(e.slot)
  BY ReadyIs
<1>2. d \in Cell /\ d \notin InUse(e.slot) /\ Enough(Slotted(e.slot, a, q, d), a)
  BY <1>1, FreshIs DEF DecodeReady, Enough
<1>3. /\ NewData(q, x) \in ProxyData /\ NewData(q, x).proxy = q /\ NewData(q, x).count = x
      /\ NewData(q, x).waiters = <<>> /\ NewData(q, x).self
  <2>1. <<>> \in Seq(Thread) /\ x \in Int
    OBVIOUS
  <2>2. QED
    BY <2>1 DEF NewData, ProxyData
<1>4. /\ r.slot \in Slots
      /\ \A c \in Aspace, p \in Proxy : r.slot[c][p] = IF c = a /\ p = q THEN d ELSE e.slot[c][p]
  BY <1>1, <1>2, SlottedIs
<1>5. r.heap \in Heaps /\ r.heap[d] = NewData(q, x) /\ \A c \in Cell : c # d => r.heap[c] = e.heap[c]
  BY <1>1, <1>2, <1>3 DEF Heaps
<1>6. r.low = e.low /\ r.high = e.high /\ r \in Decoding
  BY <1>1, <1>4, <1>5 DEF Decoding
<1>7. Enough(r.slot, a)
  BY <1>2
<1>8. SlotsSound(r.slot, r.heap)
  <2>0. SlotsSound(e.slot, e.heap)
    BY DEF DecodeReady
  <2>1. ASSUME NEW c \in Aspace, NEW p \in Proxy, r.slot[c][p] # 0 PROVE r.heap[r.slot[c][p]].proxy = p
    <3>1. CASE c = a /\ p = q
      BY <1>3, <1>4, <1>5, <3>1
    <3>2. CASE ~(c = a /\ p = q)
      <4>1. r.slot[c][p] = e.slot[c][p] /\ e.slot[c][p] # d /\ e.slot[c][p] \in Cell
        BY <1>1, <1>2, <1>4, <2>1, <3>2
      <4>2. e.heap[e.slot[c][p]].proxy = p
        BY <2>0, <2>1, <4>1 DEF SlotsSound
      <4>3. QED
        BY <1>5, <4>1, <4>2
    <3>3. QED
      BY <3>1, <3>2
  <2>2. ASSUME NEW b \in Aspace, NEW c \in Aspace, NEW p \in Proxy, NEW o \in Proxy,
               r.slot[b][p] # 0, r.slot[b][p] = r.slot[c][o]
        PROVE  b = c
    <3>1. CASE r.slot[b][p] = d
      <4>1. b = a /\ c = a
        BY <1>1, <1>2, <1>4, <2>2, <3>1
      <4>2. QED
        BY <4>1
    <3>2. CASE r.slot[b][p] # d
      <4>1. e.slot[b][p] = r.slot[b][p] /\ e.slot[c][o] = r.slot[c][o]
        BY <1>4, <2>2, <3>2
      <4>2. QED
        BY <2>0, <2>2, <4>1 DEF SlotsSound
    <3>3. QED
      BY <3>1, <3>2
  <2>3. QED
    BY <2>1, <2>2 DEF SlotsSound
<1>9. ASSUME NEW c \in Cell
      PROVE  /\ r.heap[c].waiters = e.heap[c].waiters
             /\ c \in InUse(e.slot) => r.heap[c].proxy = e.heap[c].proxy /\ (e.heap[c].self => r.heap[c].self)
             /\ c \notin CellsOf(r.slot, a) => r.heap[c].count = e.heap[c].count
  <2>1. d \in CellsOf(r.slot, a)
    BY <1>4 DEF CellsOf
  <2>2. CASE c = d
    BY <1>2, <1>3, <1>5, <2>1, <2>2 DEF DecodeReady, Unused
  <2>3. CASE c # d
    BY <1>5, <2>3
  <2>4. QED
    BY <2>2, <2>3
<1>10. ASSUME NEW p \in Proxy
       PROVE  /\ Positive(LocalIn(r.slot, r.heap, a, p)) + LowSum(r.heap, r.low, p)
                   <= Positive(LocalIn(e.slot, e.heap, a, p)) + LowSum(e.heap, e.low, p) + IF p = q THEN x ELSE 0
              /\ (e.slot[a][p] # 0 => e.heap[e.slot[a][p]].count >= 1) /\ r.slot[a][p] # 0
                   => r.heap[r.slot[a][p]].count >= 1
  <2>1. LowSum(r.heap, r.low, p) = LowSum(e.heap, e.low, p)
    <3>1. \A i \in DOMAIN e.low : r.heap[e.low[i].data].proxy = e.heap[e.low[i].data].proxy
      BY <1>1, <1>2, <1>5
    <3> DEFINE low == e.low
               g == r.heap
               h == e.heap
    <3>2. \A i \in DOMAIN low : g[low[i].data].proxy = h[low[i].data].proxy
      BY <3>1
    <3> HIDE DEF low, g, h
    <3>3. LowSum(g, low, p) = LowSum(h, low, p)
      BY <3>2, LowSame
    <3>4. QED
      BY <1>6, <3>3 DEF low, g, h
  <2>2. LowSum(e.heap, e.low, p) \in Nat /\ Positive(LocalIn(e.slot, e.heap, a, p)) \in Nat
    BY ReadyIs
  <2>3. CASE p = q
    <3>1. LocalIn(r.slot, r.heap, a, p) = x /\ Positive(x) = x /\ r.slot[a][p] = d
      BY <1>1, <1>2, <1>3, <1>4, <1>5, <2>3 DEF LocalIn, Positive
    <3>2. QED
      BY <1>3, <1>5, <2>1, <2>2, <2>3, <3>1
  <2>4. CASE p # q
    <3>1. r.slot[a][p] = e.slot[a][p]
      BY <1>4, <2>4
    <3>2. r.slot[a][p] # 0 => r.heap[r.slot[a][p]] = e.heap[e.slot[a][p]]
      BY <1>1, <1>2, <1>5, <3>1
    <3>3. LocalIn(r.slot, r.heap, a, p) = LocalIn(e.slot, e.heap, a, p)
      BY <3>1, <3>2 DEF LocalIn
    <3>4. QED
      BY <2>1, <2>2, <2>4, <3>1, <3>2, <3>3
  <2>5. QED
    BY <2>3, <2>4
<1>11. \A c \in Aspace, p \in Proxy :
         r.slot[c][p] # e.slot[c][p] => c = a /\ p = q /\ e.slot[c][p] = 0 /\ r.slot[c][p] \notin InUse(e.slot)
  BY <1>2, <1>4
<1>12. r.slot[a][q] # 0 /\ r.heap[r.slot[a][q]].self
  BY <1>1, <1>2, <1>3, <1>4, <1>5
<1>13. QED
  BY <1>6, <1>7, <1>8, <1>9, <1>10, <1>11, <1>12 DEF DecodedOne

\* The x counts that came for the proxy-data d are put on the list low, or added to
\* its own, and d may go on the list high; y is what became of d.
Booked(e, r, d, x, y) ==
  /\ r = [slot |-> e.slot, heap |-> [e.heap EXCEPT ![d] = y], low |-> r.low, high |-> r.high]
  /\ y.proxy = e.heap[d].proxy /\ y.waiters = e.heap[d].waiters /\ y.self
  /\ \/ /\ e.heap[d].count < 1 /\ y.count = e.heap[d].count
        /\ r.low = <<[data |-> d, more |-> x]>> \o e.low /\ r.high = e.high
     \/ /\ ~(e.heap[d].count < 1) /\ y.count = e.heap[d].count + x
        /\ r.low = e.low /\ (r.high = e.high \/ r.high = <<d>> \o e.high)

\* A proxy that was known: the counts are added, or set aside when it had none.
LEMMA DecodeKnown ==
  ASSUME NEW a \in Aspace, NEW e, DecodeReady(a, e), NEW q \in Proxy, NEW x \in Nat, x >= 1,
         NEW d \in Cell, d = e.slot[a][q], NEW r, NEW y \in ProxyData, Booked(e, r, d, x, y)
  PROVE  DecodedOne(a, q, x, e, r)
<1> DEFINE new == [data |-> d, more |-> x]
<1>1. /\ e.slot \in Slots /\ e.heap \in Heaps /\ e.low \in Seq(Bad) /\ e.high \in Seq(Cell)
      /\ 0 \notin Cell
      /\ \A c \in Aspace, p \in Proxy : e.slot[c][p] \in Cell \cup {0} /\ e.slot[c][p] \in InUse(e.slot)
      /\ \A c \in Cell : e.heap[c] \in ProxyData /\ e.heap[c].count \in Int
      /\ \A i \in DOMAIN e.low : e.low[i].data \in Cell /\ e.low[i].data \in InUse(e.slot)
  BY ReadyIs
<1>2. SlotsSound(e.slot, e.heap) /\ Enough(e.slot, a)
  BY DEF DecodeReady
<1>3. /\ r.slot = e.slot /\ r.heap = [e.heap EXCEPT ![d] = y]
      /\ r = [slot |-> r.slot, heap |-> r.heap, low |-> r.low, high |-> r.high]
      /\ y.proxy = e.heap[d].proxy /\ y.waiters = e.heap[d].waiters /\ y.self
  BY DEF Booked
<1>4. r.heap \in Heaps /\ r.heap[d] = y /\ \A c \in Cell : c # d => r.heap[c] = e.heap[c]
  <2> DEFINE h == e.heap
             k == r.heap
  <2>1. h \in [Cell -> ProxyData] /\ k = [h EXCEPT ![d] = y]
    BY <1>1, <1>3 DEF Heaps
  <2> HIDE DEF h, k
  <2>2. k \in [Cell -> ProxyData] /\ k[d] = y /\ \A c \in Cell : c # d => k[c] = h[c]
    BY <2>1
  <2>3. QED
    BY <2>2 DEF h, k, Heaps
<1>5. new \in Bad /\ new.data = d /\ new.more = x
  BY DEF Bad
<1> HIDE DEF new
<1>6. /\ r.low = e.low \/ r.low = <<new>> \o e.low
      /\ r.high = e.high \/ r.high = <<d>> \o e.high
  BY DEF new, Booked
<1>7. /\ <<new>> \o e.low \in Seq(Bad)
      /\ \A i \in DOMAIN (<<new>> \o e.low) :
           (<<new>> \o e.low)[i] = new \/ \E j \in DOMAIN e.low : (<<new>> \o e.low)[i] = e.low[j]
  <2> DEFINE low == e.low
  <2>1. low \in Seq(Bad) /\ new \in Bad
    BY <1>1, <1>5
  <2> HIDE DEF low
  <2>2. /\ <<new>> \o low \in Seq(Bad)
        /\ \A i \in DOMAIN (<<new>> \o low) :
             (<<new>> \o low)[i] = new \/ \E j \in DOMAIN low : (<<new>> \o low)[i] = low[j]
    BY <2>1, Prepended
  <2>3. QED
    BY <2>2 DEF low
<1>8. /\ <<d>> \o e.high \in Seq(Cell)
      /\ \A i \in DOMAIN (<<d>> \o e.high) :
           (<<d>> \o e.high)[i] = d \/ \E j \in DOMAIN e.high : (<<d>> \o e.high)[i] = e.high[j]
  <2> DEFINE high == e.high
  <2>1. high \in Seq(Cell)
    BY <1>1
  <2> HIDE DEF high
  <2>2. /\ <<d>> \o high \in Seq(Cell)
        /\ \A i \in DOMAIN (<<d>> \o high) :
             (<<d>> \o high)[i] = d \/ \E j \in DOMAIN high : (<<d>> \o high)[i] = high[j]
    BY <2>1, Prepended
  <2>3. QED
    BY <2>2 DEF high
<1>9. /\ r.low \in Seq(Bad)
      /\ \A i \in DOMAIN r.low : r.low[i] = new \/ \E j \in DOMAIN e.low : r.low[i] = e.low[j]
  <2>1. CASE r.low = e.low
    BY <1>1, <2>1
  <2>2. CASE r.low = <<new>> \o e.low
    BY <1>7, <2>2
  <2>3. QED
    BY <1>6, <2>1, <2>2
<1>10. /\ r.high \in Seq(Cell)
       /\ \A i \in DOMAIN r.high : r.high[i] = d \/ \E j \in DOMAIN e.high : r.high[i] = e.high[j]
  <2>1. CASE r.high = e.high
    BY <1>1, <2>1
  <2>2. CASE r.high = <<d>> \o e.high
    BY <1>8, <2>2
  <2>3. QED
    BY <1>6, <2>1, <2>2
<1>11. r \in Decoding
  BY <1>1, <1>3, <1>4, <1>9, <1>10 DEF Decoding
<1>12. \A c \in Cell : r.heap[c].proxy = e.heap[c].proxy /\ r.heap[c].waiters = e.heap[c].waiters
                       /\ (c # d => r.heap[c].count = e.heap[c].count)
                       /\ (e.heap[c].self => r.heap[c].self)
  BY <1>3, <1>4
<1>13. SlotsSound(r.slot, r.heap)
  <2>1. \A c \in Aspace, p \in Proxy : e.slot[c][p] # 0 => e.slot[c][p] \in Cell /\ e.heap[e.slot[c][p]].proxy = p
    BY <1>1, <1>2 DEF SlotsSound
  <2>2. \A c \in Aspace, p \in Proxy : e.slot[c][p] # 0 => r.heap[e.slot[c][p]].proxy = p
    BY <1>12, <2>1
  <2>3. \A c \in Aspace, p \in Proxy : r.slot[c][p] # 0 => r.heap[r.slot[c][p]].proxy = p
    <3> SUFFICES ASSUME NEW c \in Aspace, NEW p \in Proxy, r.slot[c][p] # 0
                 PROVE  r.heap[r.slot[c][p]].proxy = p
      OBVIOUS
    <3>1. r.slot[c][p] = e.slot[c][p]
      BY <1>3
    <3>2. r.heap[e.slot[c][p]].proxy = p
      BY <2>2, <3>1
    <3>3. QED
      BY <3>1, <3>2
  <2>4. \A b, c \in Aspace, p, o \in Proxy : e.slot[b][p] # 0 /\ e.slot[b][p] = e.slot[c][o] => b = c
    BY <1>2 DEF SlotsSound
  <2>5. \A b, c \in Aspace, p, o \in Proxy : r.slot[b][p] # 0 /\ r.slot[b][p] = r.slot[c][o] => b = c
    <3>1. r.slot = e.slot
      BY <1>3
    <3>2. QED
      BY <2>4, <3>1
  <2> DEFINE s == r.slot
             h == r.heap
  <2>6. /\ \A c \in Aspace, p \in Proxy : s[c][p] # 0 => h[s[c][p]].proxy = p
        /\ \A b, c \in Aspace, p, o \in Proxy : s[b][p] # 0 /\ s[b][p] = s[c][o] => b = c
    BY <2>3, <2>5
  <2> HIDE DEF s, h
  <2>7. SlotsSound(s, h)
    BY <2>6 DEF SlotsSound
  <2>8. QED
    BY <2>7 DEF s, h
<1>14. d \in CellsOf(r.slot, a)
  BY <1>3 DEF CellsOf
<1>15. ASSUME NEW p \in Proxy
       PROVE  /\ Positive(LocalIn(r.slot, r.heap, a, p)) + LowSum(r.heap, r.low, p)
                   <= Positive(LocalIn(e.slot, e.heap, a, p)) + LowSum(e.heap, e.low, p) + IF p = q THEN x ELSE 0
              /\ (e.slot[a][p] # 0 => e.heap[e.slot[a][p]].count >= 1) /\ r.slot[a][p] # 0
                   => r.heap[r.slot[a][p]].count >= 1
  <2> DEFINE L == Positive(LocalIn(e.slot, e.heap, a, p))
             L2 == Positive(LocalIn(r.slot, r.heap, a, p))
             B == LowSum(e.heap, e.low, p)
             B2 == LowSum(r.heap, r.low, p)
             k == e.heap[d].count
  <2>1. B \in Nat /\ L \in Nat
    BY ReadyIs
  <2>2. LowSum(r.heap, e.low, p) = B
    <3> DEFINE low == e.low
    <3>1. \A i \in DOMAIN low : r.heap[low[i].data].proxy = e.heap[low[i].data].proxy
      BY <1>1, <1>12
    <3> HIDE DEF low
    <3> DEFINE g == e.heap
               h == r.heap
    <3>2. \A i \in DOMAIN low : h[low[i].data].proxy = g[low[i].data].proxy
      BY <3>1
    <3> HIDE DEF g, h
    <3>3. LowSum(h, low, p) = LowSum(g, low, p)
      BY <3>2, LowSame
    <3>4. QED
      BY <3>3 DEF low, g, h
  <2>3. e.heap[d].proxy = q
    BY <1>1, <1>2 DEF SlotsSound
  <2>4. p = q => L = Positive(k) /\ L2 = Positive(y.count) /\ r.slot[a][p] = d
    BY <1>1, <1>3, <1>4 DEF LocalIn
  <2>5. p # q => L2 = L /\ r.slot[a][p] = e.slot[a][p]
                 /\ (e.slot[a][p] # 0 => r.heap[r.slot[a][p]].count = e.heap[e.slot[a][p]].count)
    <3> SUFFICES ASSUME p # q
                 PROVE  L2 = L /\ r.slot[a][p] = e.slot[a][p]
                        /\ (e.slot[a][p] # 0 => r.heap[r.slot[a][p]].count = e.heap[e.slot[a][p]].count)
      OBVIOUS
    <3>1. e.slot[a][p] # 0 => e.heap[e.slot[a][p]].proxy = p /\ e.slot[a][p] \in Cell
      BY <1>1, <1>2 DEF SlotsSound
    <3>2. e.slot[a][p] # d
      BY <1>1, <2>3, <3>1
    <3>3. e.slot[a][p] # 0 => r.heap[e.slot[a][p]].count = e.heap[e.slot[a][p]].count
      BY <1>12, <3>1, <3>2
    <3>4. LocalIn(r.slot, r.heap, a, p) = LocalIn(e.slot, e.heap, a, p)
      BY <1>3, <3>3 DEF LocalIn
    <3>5. QED
      BY <1>3, <3>3, <3>4
  <2>6. k \in Int /\ p = q => e.slot[a][p] # 0
    BY <1>1
  <2>7. CASE k < 1 /\ y.count = k /\ r.low = <<new>> \o e.low
    <3> DEFINE low == e.low
               h == r.heap
    <3>a. low \in Seq(Bad)
      BY <1>1
    <3> HIDE DEF low, h
    <3>b. LowSum(h, <<new>> \o low, p) = LowSum(h, low, p) + IF h[new.data].proxy = p THEN new.more ELSE 0
      BY <1>5, <3>a, LowPrepended
    <3>1. LowSum(r.heap, <<new>> \o e.low, p) = LowSum(r.heap, e.low, p) + IF r.heap[new.data].proxy = p THEN new.more ELSE 0
      BY <3>b DEF low, h
    <3>2. r.heap[new.data].proxy = q
      BY <1>5, <1>12, <2>3
    <3>3. B2 = B + IF p = q THEN x ELSE 0
      BY <1>5, <2>2, <2>7, <3>1, <3>2
    <3>4. L2 = L
      BY <2>4, <2>5, <2>7
    <3> HIDE DEF L, L2, B, B2
    <3>5. L2 + B2 <= L + B + IF p = q THEN x ELSE 0
      BY <2>1, <3>3, <3>4
    <3>6. (e.slot[a][p] # 0 => e.heap[e.slot[a][p]].count >= 1) /\ r.slot[a][p] # 0
            => r.heap[r.slot[a][p]].count >= 1
      <4>1. CASE p = q
        <5>1. e.heap[e.slot[a][p]].count < 1 /\ e.slot[a][p] # 0 /\ e.heap[e.slot[a][p]].count \in Int
          BY <1>1, <2>7, <4>1
        <5>2. QED
          BY <5>1
      <4>2. CASE p # q
        BY <2>5, <4>2
      <4>3. QED
        BY <4>1, <4>2
    <3>7. QED
      BY <3>5, <3>6 DEF L, L2, B, B2
  <2>8. CASE ~(k < 1) /\ y.count = k + x /\ r.low = e.low
    <3>1. B2 = B
      BY <2>2, <2>8
    <3>2. k \in Int /\ k >= 1
      <4>1. k \in Int /\ ~(k < 1)
        BY <1>1, <2>8
      <4> HIDE DEF k
      <4>2. QED
        BY <4>1
    <3>3. CASE p = q
      <4>1. L = k /\ L2 = k + x /\ r.heap[r.slot[a][p]].count = k + x
        <5>1. L = Positive(k) /\ L2 = Positive(k + x) /\ r.heap[r.slot[a][p]].count = k + x
          BY <1>4, <2>4, <2>8, <3>3
        <5> HIDE DEF L, L2, k
        <5>2. Positive(k) = k /\ Positive(k + x) = k + x
          BY <3>2 DEF Positive
        <5>3. QED
          BY <5>1, <5>2
      <4> HIDE DEF L, L2, B, B2, k
      <4>2. L2 + B2 <= L + B + IF p = q THEN x ELSE 0
        BY <2>1, <3>1, <3>2, <3>3, <4>1
      <4>3. r.heap[r.slot[a][p]].count >= 1
        BY <3>2, <4>1
      <4>4. QED
        BY <4>2, <4>3 DEF L, L2, B, B2
    <3>4. CASE p # q
      <4>1. L2 = L
        BY <2>5, <3>4
      <4> HIDE DEF L, L2, B, B2, k
      <4>2. L2 + B2 <= L + B + IF p = q THEN x ELSE 0
        BY <2>1, <3>1, <3>4, <4>1
      <4>3. QED
        BY <2>5, <3>4, <4>2 DEF L, L2, B, B2
    <3>5. QED
      BY <3>3, <3>4
  <2>9. QED
    BY <2>7, <2>8 DEF new, Booked
<1>16. QED
  <2>1. Enough(r.slot, a) /\ r.slot[a][q] # 0 /\ r.heap[r.slot[a][q]].self /\ r.slot[a][q] = d
    BY <1>1, <1>2, <1>3, <1>4
  <2>2. \A c \in Cell : /\ r.heap[c].waiters = e.heap[c].waiters
                        /\ c \in InUse(e.slot) => r.heap[c].proxy = e.heap[c].proxy /\ (e.heap[c].self => r.heap[c].self)
                        /\ c \notin CellsOf(r.slot, a) => r.heap[c].count = e.heap[c].count
    BY <1>12, <1>14
  <2>3. \A i \in DOMAIN r.low : r.low[i].data = r.slot[a][q] \/ \E j \in DOMAIN e.low : r.low[i] = e.low[j]
    BY <1>5, <1>9, <2>1
  <2>4. \A i \in DOMAIN r.high : r.high[i] = r.slot[a][q] \/ \E j \in DOMAIN e.high : r.high[i] = e.high[j]
    BY <1>10, <2>1
  <2>5. QED
    BY <1>3, <1>11, <1>13, <1>15, <2>1, <2>2, <2>3, <2>4 DEF DecodedOne

\* One item of a message is decoded: its counts are added to the proxy-data, put on the list low, or to
\* a new proxy-data.
LEMMA DecodeStep ==
  ASSUME NEW a \in Aspace, NEW e, DecodeReady(a, e), NEW item \in Proxy \X Int \X (0 .. 3), item[2] >= 1
  PROVE  DecodedOne(a, item[1], item[2], e, DecodeProxy(a, e, item))
<1> DEFINE q == item[1]
           x == item[2]
           d == e.slot[a][q]
           new == FreshCell(e.slot)
           r == DecodeProxy(a, e, item)
           y == [e.heap[d] EXCEPT !.self = TRUE]
           z == [e.heap[d] EXCEPT !.count = @ + x, !.tag = 0, !.self = TRUE]
<1>1. q \in Proxy /\ x \in Nat /\ x >= 1
  OBVIOUS
<1>2. e = [slot |-> e.slot, heap |-> e.heap, low |-> e.low, high |-> e.high]
  BY DEF DecodeReady, Decoding
<1>3. /\ e.slot \in Slots /\ e.heap \in Heaps /\ 0 \notin Cell /\ d \in Cell \cup {0}
      /\ \A c \in Cell : e.heap[c] \in ProxyData /\ e.heap[c].count \in Int
  BY <1>1, ReadyIs
<1>4. CASE d = 0
  <2>1. r = [slot |-> Slotted(e.slot, a, q, new), heap |-> [e.heap EXCEPT ![new] = NewData(q, x)],
             low |-> e.low, high |-> e.high]
    BY <1>2, <1>4 DEF DecodeProxy, Slotted
  <2> HIDE DEF r, q, x
  <2>2. DecodedOne(a, q, x, e, r)
    BY <1>1, <1>4, <2>1, DecodeNew
  <2>3. QED
    BY <2>2 DEF r, q, x
<1>5. CASE d # 0 /\ e.heap[d].count < 1
  <2>1. r = [slot |-> e.slot, heap |-> [e.heap EXCEPT ![d] = y],
             low |-> <<[data |-> d, more |-> x]>> \o e.low, high |-> e.high]
    BY <1>2, <1>5 DEF DecodeProxy
  <2>2. /\ r = [slot |-> e.slot, heap |-> [e.heap EXCEPT ![d] = y], low |-> r.low, high |-> r.high]
        /\ r.low = <<[data |-> d, more |-> x]>> \o e.low /\ r.high = e.high
    BY <2>1
  <2>3. d \in Cell
    BY <1>3, <1>5
  <2>4. /\ y \in ProxyData /\ y.proxy = e.heap[d].proxy /\ y.waiters = e.heap[d].waiters /\ y.self
        /\ y.count = e.heap[d].count
    BY <1>3, <2>3 DEF ProxyData
  <2> HIDE DEF r, q, x, y, d
  <2>5. d = e.slot[a][q]
    BY DEF d
  <2>6. Booked(e, r, d, x, y)
    BY <1>5, <2>2, <2>4 DEF Booked
  <2>7. DecodedOne(a, q, x, e, r)
    BY <1>1, <2>3, <2>4, <2>5, <2>6, DecodeKnown
  <2>8. QED
    BY <2>7 DEF r, q, x
<1>6. CASE d # 0 /\ ~(e.heap[d].count < 1)
  <2> DEFINE high == IF MaxCount < e.heap[d].count + x /\ a # Owner THEN <<d>> \o e.high ELSE e.high
  <2>1. r = [slot |-> e.slot, heap |-> [e.heap EXCEPT ![d] = z], low |-> e.low, high |-> high]
    BY <1>2, <1>3, <1>6 DEF DecodeProxy, Heaps
  <2>2. /\ r = [slot |-> e.slot, heap |-> [e.heap EXCEPT ![d] = z], low |-> r.low, high |-> r.high]
        /\ r.low = e.low /\ (r.high = e.high \/ r.high = <<d>> \o e.high)
    <3> DEFINE h2 == [e.heap EXCEPT ![d] = z]
               longer == <<d>> \o e.high
               g == e.high
    <3>1. high = longer \/ high = g
      OBVIOUS
    <3>2. r = [slot |-> e.slot, heap |-> h2, low |-> e.low, high |-> high]
      BY <2>1
    <3> HIDE DEF r, high, h2, longer, g
    <3>3. /\ r = [slot |-> e.slot, heap |-> h2, low |-> r.low, high |-> r.high]
          /\ r.low = e.low /\ (r.high = g \/ r.high = longer)
      BY <3>1, <3>2
    <3>4. QED
      BY <3>3 DEF h2, longer, g
  <2>3. d \in Cell
    BY <1>3, <1>6
  <2>4. /\ z \in ProxyData /\ z.proxy = e.heap[d].proxy /\ z.waiters = e.heap[d].waiters /\ z.self
        /\ z.count = e.heap[d].count + x
    <3> DEFINE o == e.heap[d]
               k == o.count + x
    <3>1. o \in ProxyData /\ k \in Int
      BY <1>1, <1>3, <2>3
    <3>2. z = [o EXCEPT !.count = k, !.tag = 0, !.self = TRUE]
      BY <3>1 DEF ProxyData
    <3> HIDE DEF z, o, k
    <3>3. z = [proxy |-> o.proxy, count |-> k, tag |-> 0, waiters |-> o.waiters, asked |-> o.asked, self |-> TRUE]
      BY <3>1, <3>2 DEF ProxyData
    <3>4. /\ z \in ProxyData /\ z.proxy = o.proxy /\ z.waiters = o.waiters /\ z.self
          /\ z.count = k
      BY <3>1, <3>3 DEF ProxyData
    <3>5. QED
      BY <3>4 DEF o, k
  <2> HIDE DEF r, q, x, z, d
  <2>5. d = e.slot[a][q]
    BY DEF d
  <2>6. Booked(e, r, d, x, z)
    BY <1>6, <2>2, <2>4 DEF Booked
  <2>7. DecodedOne(a, q, x, e, r)
    BY <1>1, <2>3, <2>4, <2>5, <2>6, DecodeKnown
  <2>8. QED
    BY <2>7 DEF r, q, x
<1>7. QED
  BY <1>4, <1>5, <1>6

\* r is what became of the slots s and the heap h when the first n items of the message
\* body were decoded.
DecodedTo(s, h, a, body, r, n) ==
  /\ r \in Decoding
  /\ SlotsSound(r.slot, r.heap)
  /\ Enough(r.slot, a)
  /\ \A c \in Aspace, p \in Proxy :
       r.slot[c][p] # s[c][p] => /\ c = a /\ s[c][p] = 0 /\ r.slot[c][p] \notin InUse(s)
                                 /\ \E i \in 1 .. n : body[i][1] = p
  /\ \A c \in Cell : /\ r.heap[c].waiters = h[c].waiters
                     /\ c \in InUse(s) => r.heap[c].proxy = h[c].proxy /\ (h[c].self => r.heap[c].self)
                     /\ c \notin CellsOf(r.slot, a) => r.heap[c].count = h[c].count
  /\ \A i \in 1 .. n : r.slot[a][body[i][1]] # 0 /\ r.heap[r.slot[a][body[i][1]]].self
  /\ \A i \in DOMAIN r.low : \E j \in 1 .. n : r.low[i].data = r.slot[a][body[j][1]]
  /\ \A i \in DOMAIN r.high : \E j \in 1 .. n : r.high[i] = r.slot[a][body[j][1]]
  /\ \A p \in Proxy :
       /\ Positive(LocalIn(r.slot, r.heap, a, p)) + LowSum(r.heap, r.low, p)
            <= Positive(LocalIn(s, h, a, p)) + SumOf(SubSeq(body, 1, n), p)
       /\ (s[a][p] # 0 => h[s[a][p]].count >= 1) /\ r.slot[a][p] # 0
            => r.heap[r.slot[a][p]].count >= 1

\* One more item.
LEMMA DecodeNext ==
  ASSUME NEW s \in Slots, NEW h \in Heaps, NEW a \in Aspace, NEW body \in Body, NEW n \in 1 .. Len(body),
         out \in Outs, Unused(s, h), NEW e, DecodedTo(s, h, a, body, e, n - 1)
  PROVE  DecodeReady(a, e) /\ InUse(s) \ {0} \subseteq InUse(e.slot)
<1>1. e.slot \in Slots /\ e.low \in Seq(Bad) /\ e.high \in Seq(Cell) /\ e \in Decoding /\ 0 \notin Cell
  BY DEF DecodedTo, Decoding, Cell
<1>2. ASSUME NEW c \in InUse(s), c # 0 PROVE c \in InUse(e.slot)
  <2>1. CASE \E b \in Aspace, p \in Proxy : c = s[b][p]
    <3>1. PICK b \in Aspace, p \in Proxy : c = s[b][p]
      BY <2>1
    <3>2. e.slot[b][p] = s[b][p]
      BY <1>2, <3>1 DEF DecodedTo
    <3>3. QED
      BY <3>1, <3>2 DEF InUse
  <2>2. CASE ~\E b \in Aspace, p \in Proxy : c = s[b][p]
    BY <1>2, <2>2 DEF InUse
  <2>3. QED
    BY <2>1, <2>2
<1>3. Unused(e.slot, e.heap)
  <2>1. \A c \in Cell : e.heap[c].waiters = h[c].waiters
    BY DEF DecodedTo
  <2>2. \A c \in Cell : c \notin InUse(e.slot) => c \notin InUse(s)
    BY <1>1, <1>2
  <2>3. QED
    BY <2>1, <2>2 DEF Unused
<1>4. \A i \in 1 .. n - 1 : body[i][1] \in Proxy
  BY BodyItems
<1>5. BadsFound(e.slot, a, e)
  <2>1. \A i \in DOMAIN e.low : \E p \in Proxy : e.slot[a][p] = e.low[i].data
    BY <1>4 DEF DecodedTo
  <2>2. \A i \in DOMAIN e.high : \E p \in Proxy : e.slot[a][p] = e.high[i]
    BY <1>4 DEF DecodedTo
  <2>3. QED
    BY <2>1, <2>2 DEF BadsFound
<1>6. QED
  BY <1>1, <1>2, <1>3, <1>5 DEF DecodedTo, DecodeReady

\* One item after the others.
LEMMA DecodeCompose ==
  ASSUME NEW s \in Slots, NEW h \in Heaps, NEW a \in Aspace, NEW body \in Body, NEW n \in 1 .. Len(body),
         \A i \in DOMAIN body : body[i][2] >= 1,
         out \in Outs, Unused(s, h), NEW e, DecodedTo(s, h, a, body, e, n - 1),
         NEW r, DecodedOne(a, body[n][1], body[n][2], e, r)
  PROVE  DecodedTo(s, h, a, body, r, n)
<1> DEFINE q == body[n][1]
           x == body[n][2]
<1>1. /\ DecodeReady(a, e) /\ InUse(s) \ {0} \subseteq InUse(e.slot)
  BY DecodeNext
<1>2. /\ e.slot \in Slots /\ e.heap \in Heaps /\ e.low \in Seq(Bad) /\ e.high \in Seq(Cell) /\ 0 \notin Cell
      /\ \A c \in Aspace, p \in Proxy : e.slot[c][p] \in Cell \cup {0} /\ e.slot[c][p] \in InUse(e.slot)
      /\ \A i \in DOMAIN e.low : e.low[i].data \in Cell
  BY <1>1, ReadyIs
<1>3. /\ r \in Decoding /\ SlotsSound(r.slot, r.heap) /\ Enough(r.slot, a)
      /\ \A c \in Aspace, p \in Proxy :
           r.slot[c][p] # e.slot[c][p] => c = a /\ p = q /\ e.slot[c][p] = 0 /\ r.slot[c][p] \notin InUse(e.slot)
      /\ r.slot[a][q] # 0 /\ r.heap[r.slot[a][q]].self
  BY DEF DecodedOne
<1>4. /\ \A i \in 1 .. n : /\ i \in DOMAIN body /\ body[i][1] \in Proxy /\ body[i][2] >= 1 /\ body[i][2] \in Int
      /\ n \in Nat /\ n \in 1 .. n /\ \A i \in 1 .. n : i \in 1 .. n - 1 \/ i = n
      /\ \A i \in 1 .. n - 1 : i \in 1 .. n
  BY BodyItems
<1>5. ASSUME NEW c \in Aspace, NEW p \in Proxy, r.slot[c][p] # s[c][p]
      PROVE  /\ c = a /\ s[c][p] = 0 /\ r.slot[c][p] \notin InUse(s)
             /\ \E i \in 1 .. n : body[i][1] = p
  <2>1. CASE r.slot[c][p] = e.slot[c][p]
    <3>1. /\ c = a /\ s[c][p] = 0 /\ e.slot[c][p] \notin InUse(s)
          /\ \E i \in 1 .. n - 1 : body[i][1] = p
      BY <1>5, <2>1 DEF DecodedTo
    <3>2. QED
      BY <1>4, <2>1, <3>1
  <2>2. CASE r.slot[c][p] # e.slot[c][p]
    <3>1. c = a /\ p = q /\ e.slot[c][p] = 0 /\ r.slot[c][p] \notin InUse(e.slot)
      BY <1>3, <2>2
    <3>2. s[c][p] = 0
      <4>1. s[c][p] # e.slot[c][p] => s[c][p] = 0
        BY DEF DecodedTo
      <4>2. QED
        BY <3>1, <4>1
    <3>3. r.slot[c][p] # 0
      BY <1>3, <3>1
    <3>4. r.slot[c][p] \notin InUse(s)
      BY <1>1, <3>1, <3>3
    <3>5. QED
      BY <1>4, <3>1, <3>2, <3>4
  <2>3. QED
    BY <2>1, <2>2
<1>6. ASSUME NEW c \in Cell
      PROVE  /\ r.heap[c].waiters = h[c].waiters
             /\ c \in InUse(s) => r.heap[c].proxy = h[c].proxy /\ (h[c].self => r.heap[c].self)
             /\ c \notin CellsOf(r.slot, a) => r.heap[c].count = h[c].count
  <2>1. /\ e.heap[c].waiters = h[c].waiters
        /\ c \in InUse(s) => e.heap[c].proxy = h[c].proxy /\ (h[c].self => e.heap[c].self)
        /\ c \notin CellsOf(e.slot, a) => e.heap[c].count = h[c].count
    BY DEF DecodedTo
  <2>2. /\ r.heap[c].waiters = e.heap[c].waiters
        /\ c \in InUse(e.slot) => r.heap[c].proxy = e.heap[c].proxy /\ (e.heap[c].self => r.heap[c].self)
        /\ c \notin CellsOf(r.slot, a) => r.heap[c].count = e.heap[c].count
    BY DEF DecodedOne
  <2>3. c \notin CellsOf(r.slot, a) => c \notin CellsOf(e.slot, a)
    <3>1. \A p \in Proxy : e.slot[a][p] # 0 => r.slot[a][p] = e.slot[a][p]
      BY <1>3
    <3>2. c # 0
      BY <1>2
    <3>3. QED
      BY <3>1, <3>2 DEF CellsOf
  <2>4. c \in InUse(s) => c \in InUse(e.slot)
    BY <1>1, <1>2
  <2>5. QED
    BY <2>1, <2>2, <2>3, <2>4
\* What was decoded before is still there.
<1>7. ASSUME NEW i \in 1 .. n - 1
      PROVE  /\ r.slot[a][body[i][1]] = e.slot[a][body[i][1]]
             /\ r.slot[a][body[i][1]] # 0 /\ r.heap[r.slot[a][body[i][1]]].self
  <2> DEFINE p == body[i][1]
             c == e.slot[a][p]
  <2>1. p \in Proxy /\ c # 0 /\ e.heap[c].self
    BY <1>4 DEF DecodedTo
  <2>2. r.slot[a][p] = c /\ c \in Cell /\ c \in InUse(e.slot)
    BY <1>2, <1>3, <2>1
  <2>3. r.heap[c].self
    BY <2>1, <2>2 DEF DecodedOne
  <2>4. QED
    BY <2>1, <2>2, <2>3
<1>8. \A i \in 1 .. n : r.slot[a][body[i][1]] # 0 /\ r.heap[r.slot[a][body[i][1]]].self
  BY <1>3, <1>4, <1>7
<1>9. ASSUME NEW i \in DOMAIN r.low PROVE \E j \in 1 .. n : r.low[i].data = r.slot[a][body[j][1]]
  <2>1. CASE r.low[i].data = r.slot[a][q]
    BY <1>4, <2>1
  <2>2. CASE r.low[i].data # r.slot[a][q]
    <3>1. PICK j \in DOMAIN e.low : r.low[i] = e.low[j]
      BY <2>2 DEF DecodedOne
    <3>2. PICK k \in 1 .. n - 1 : e.low[j].data = e.slot[a][body[k][1]]
      BY DEF DecodedTo
    <3>3. QED
      BY <1>4, <1>7, <3>1, <3>2
  <2>3. QED
    BY <2>1, <2>2
<1>10. ASSUME NEW i \in DOMAIN r.high PROVE \E j \in 1 .. n : r.high[i] = r.slot[a][body[j][1]]
  <2>1. CASE r.high[i] = r.slot[a][q]
    BY <1>4, <2>1
  <2>2. CASE r.high[i] # r.slot[a][q]
    <3>1. PICK j \in DOMAIN e.high : r.high[i] = e.high[j]
      BY <2>2 DEF DecodedOne
    <3>2. PICK k \in 1 .. n - 1 : e.high[j] = e.slot[a][body[k][1]]
      BY DEF DecodedTo
    <3>3. QED
      BY <1>4, <1>7, <3>1, <3>2
  <2>3. QED
    BY <2>1, <2>2
<1>11. ASSUME NEW p \in Proxy
       PROVE  /\ Positive(LocalIn(r.slot, r.heap, a, p)) + LowSum(r.heap, r.low, p)
                   <= Positive(LocalIn(s, h, a, p)) + SumOf(SubSeq(body, 1, n), p)
              /\ (s[a][p] # 0 => h[s[a][p]].count >= 1) /\ r.slot[a][p] # 0
                   => r.heap[r.slot[a][p]].count >= 1
  <2> DEFINE L0 == Positive(LocalIn(s, h, a, p))
             L1 == Positive(LocalIn(e.slot, e.heap, a, p))
             L2 == Positive(LocalIn(r.slot, r.heap, a, p))
             B1 == LowSum(e.heap, e.low, p)
             B2 == LowSum(r.heap, r.low, p)
             S1 == SumOf(SubSeq(body, 1, n - 1), p)
             S2 == SumOf(SubSeq(body, 1, n), p)
             y == IF p = q THEN x ELSE 0
  <2>1. /\ L1 + B1 <= L0 + S1
        /\ (s[a][p] # 0 => h[s[a][p]].count >= 1) /\ e.slot[a][p] # 0 => e.heap[e.slot[a][p]].count >= 1
    BY DEF DecodedTo
  <2>2. /\ L2 + B2 <= L1 + B1 + y
        /\ (e.slot[a][p] # 0 => e.heap[e.slot[a][p]].count >= 1) /\ r.slot[a][p] # 0
             => r.heap[r.slot[a][p]].count >= 1
    BY DEF DecodedOne
  <2>3. S2 = S1 + y /\ S1 \in Nat
    <3>1. /\ SubSeq(body, 1, n) = Append(SubSeq(body, 1, n - 1), body[n])
          /\ SubSeq(body, 1, n - 1) \in Body /\ body[n] \in Proxy \X Int \X (0 .. 3)
      BY Prefixes DEF Body
    <3>2. S2 = S1 + CountOf(body[n], p) /\ S1 \in Nat
      BY <3>1, SumAppended, SumIsNumber
    <3>3. CountOf(body[n], p) = y
      BY <1>4 DEF CountOf, Positive
    <3>4. QED
      BY <3>2, <3>3
  <2>4. L1 \in Nat /\ B1 \in Nat
    BY <1>1, ReadyIs
  <2>5. L0 \in Int /\ L2 \in Int /\ B2 \in Int
    <3>1. LocalIn(s, h, a, p) \in Int
      BY LocalIsInt
    <3>2. LocalIn(r.slot, r.heap, a, p) \in Int /\ B2 \in Int
      <4>1. r.slot \in Slots /\ r.heap \in Heaps /\ r.low \in Seq(Bad)
        BY <1>3 DEF Decoding
      <4>2. LocalIn(r.slot, r.heap, a, p) \in Int
        BY <4>1, LocalIsInt
      <4>3. B2 \in Int
        <5> DEFINE g == r.heap
                   low == r.low
        <5>1. low \in Seq(Bad)
          BY <4>1
        <5> HIDE DEF g, low
        <5>2. LowSum(g, low, p) \in Nat
          BY <5>1, LowSumIsNat
        <5>3. QED
          BY <5>2 DEF g, low
      <4>4. QED
        BY <4>2, <4>3
    <3>3. QED
      BY <3>1, <3>2 DEF Positive
  <2>6. y \in Int
    BY <1>4
  <2>7. L2 + B2 <= L0 + S2
    <3> HIDE DEF L0, L1, L2, B1, B2, S1, S2, y
    <3>1. QED
      BY <2>1, <2>2, <2>3, <2>4, <2>5, <2>6
  <2>8. QED
    BY <2>1, <2>2, <2>7
<1>12. QED
  BY <1>3, <1>5, <1>6, <1>8, <1>9, <1>10, <1>11 DEF DecodedTo

\* Before the first item.
LEMMA DecodeStart ==
  ASSUME NEW s \in Slots, NEW h \in Heaps, SlotsSound(s, h), NEW a \in Aspace, Enough(s, a),
         NEW body \in Body, NEW r, r = [slot |-> s, heap |-> h, low |-> <<>>, high |-> <<>>]
  PROVE  DecodedTo(s, h, a, body, r, 0)
<1>1. r \in Decoding
  <2>1. <<>> \in Seq(Bad) /\ <<>> \in Seq(Cell)
    OBVIOUS
  <2>2. QED
    BY <2>1 DEF Decoding
<1>2. r.slot = s /\ r.heap = h /\ r.low = <<>> /\ r.high = <<>> /\ DOMAIN r.low = {} /\ DOMAIN r.high = {}
  OBVIOUS
<1>3. ASSUME NEW p \in Proxy
      PROVE  /\ Positive(LocalIn(s, h, a, p)) + LowSum(h, <<>>, p)
                  <= Positive(LocalIn(s, h, a, p)) + SumOf(SubSeq(body, 1, 0), p)
  <2>1. SumOf(SubSeq(body, 1, 0), p) = 0
    BY Prefixes, SumOfEmpty DEF Body
  <2>2. LowSum(h, <<>>, p) = 0
    BY LowOfEmpty
  <2>3. LocalIn(s, h, a, p) \in Int
    BY LocalIsInt
  <2>4. QED
    BY <2>1, <2>2, <2>3 DEF Positive
<1>4. QED
  <2> HIDE DEF Positive
  <2>1. \A p \in Proxy :
          /\ Positive(LocalIn(r.slot, r.heap, a, p)) + LowSum(r.heap, r.low, p)
               <= Positive(LocalIn(s, h, a, p)) + SumOf(SubSeq(body, 1, 0), p)
          /\ (s[a][p] # 0 => h[s[a][p]].count >= 1) /\ r.slot[a][p] # 0
               => r.heap[r.slot[a][p]].count >= 1
    BY <1>2, <1>3
  <2>2. QED
    BY <1>1, <1>2, <2>1 DEF DecodedTo

Decodes(s, h, a, body) ==
  LET Step(r, item) == DecodeProxy(a, r, item) IN
  Fold(Step, [slot |-> s, heap |-> h, low |-> <<>>, high |-> <<>>], body)

\* The whole fold.
LEMMA DecodeFold ==
  ASSUME NEW s \in Slots, NEW h \in Heaps, SlotsSound(s, h), NEW a \in Aspace, Enough(s, a),
         NEW body \in Body, \A i \in DOMAIN body : body[i][2] >= 1, out \in Outs, Unused(s, h)
  PROVE  DecodedTo(s, h, a, body, Decodes(s, h, a, body), Len(body))
<1> DEFINE N == Len(body)
           start == [slot |-> s, heap |-> h, low |-> <<>>, high |-> <<>>]
           X == [n \in 0 .. N |-> {e \in Decoding : DecodedTo(s, h, a, body, e, n)}]
           G == [n \in 1 .. N |-> [e \in X[n - 1] |-> DecodeProxy(a, e, body[n])]]
           Solves(f) == f = [n \in 0 .. N |-> IF n = 0 THEN start ELSE DecodeProxy(a, f[n - 1], body[n])]
<1>1. N \in Nat
  BY BodyItems
<1>2. start \in X[0]
  <2>1. DecodedTo(s, h, a, body, start, 0)
    BY DecodeStart
  <2>2. start \in Decoding
    BY <2>1 DEF DecodedTo
  <2>3. QED
    BY <1>1, <2>1, <2>2
<1>3. ASSUME NEW n \in 1 .. N, NEW e \in X[n - 1]
      PROVE  DecodeProxy(a, e, body[n]) \in X[n] /\ G[n][e] = DecodeProxy(a, e, body[n])
  <2>1. DecodedTo(s, h, a, body, e, n - 1)
    OBVIOUS
  <2>2. body[n] \in Proxy \X Int \X (0 .. 3) /\ body[n][2] >= 1 /\ n \in 1 .. Len(body)
    BY BodyItems
  <2>3. DecodeReady(a, e)
    BY <2>1, <2>2, DecodeNext
  <2>4. DecodedOne(a, body[n][1], body[n][2], e, DecodeProxy(a, e, body[n]))
    BY <2>2, <2>3, DecodeStep
  <2>5. DecodedTo(s, h, a, body, DecodeProxy(a, e, body[n]), n)
    BY <2>1, <2>2, <2>4, DecodeCompose
  <2>6. DecodeProxy(a, e, body[n]) \in Decoding
    BY <2>5 DEF DecodedTo
  <2>7. QED
    BY <2>5, <2>6
<1> HIDE DEF N, X, G, start
<1>4. \A n \in 1 .. N : \A e \in X[n - 1] : G[n][e] \in X[n]
  BY <1>3
<1> DEFINE f == Iterates(N, X, start, G)
<1>5. /\ f[0] = start /\ \A n \in 1 .. N : f[n] = G[n][f[n - 1]]
      /\ \A n \in 0 .. N : f[n] \in X[n]
  BY <1>1, <1>2, <1>4, Recursion
<1> HIDE DEF f
<1>6. ASSUME NEW n \in 1 .. N PROVE f[n] = DecodeProxy(a, f[n - 1], body[n])
  <2>1. n - 1 \in 0 .. N
    BY <1>1
  <2>2. f[n - 1] \in X[n - 1] /\ f[n] = G[n][f[n - 1]]
    BY <1>5, <2>1
  <2>3. QED
    BY <1>3, <2>2
<1> DEFINE e == [n \in 0 .. N |-> f[n]]
<1>7. Solves(e)
  <2>1. e[0] = start /\ \A n \in 1 .. N : e[n] = f[n] /\ e[n - 1] = f[n - 1]
    BY <1>1, <1>5
  <2>2. \A n \in 0 .. N : e[n] = IF n = 0 THEN start ELSE DecodeProxy(a, e[n - 1], body[n])
    BY <1>1, <1>6, <2>1
  <2>3. QED
    BY <2>2
<1> DEFINE g == CHOOSE g : Solves(g)
<1>8. Solves(g)
  <2>1. \E x : Solves(x)
    BY <1>7
  <2>2. QED
    BY <2>1
<1>9. Decodes(s, h, a, body) = g[N]
  BY DEF Decodes, Fold, start, N
<1> HIDE DEF g
<1>10. g[0] = start /\ \A n \in 1 .. N : g[n] = DecodeProxy(a, g[n - 1], body[n])
  BY <1>1, <1>8
<1>11. \A n \in 1 .. N : g[n - 1] \in X[n - 1] => g[n] \in X[n]
  BY <1>3, <1>10
<1>12. g[N] \in X[N]
  <2>1. g[0] \in X[0]
    BY <1>2, <1>10
  <2>2. \A n \in 0 .. N : g[n] \in X[n]
    BY <1>1, <1>11, <2>1, RecursionStays
  <2>3. QED
    BY <1>1, <2>2
<1>13. QED
  BY <1>1, <1>9, <1>12 DEF X, N

\* What the decoding of the message m leaves.
NewDispatcher(m, r) ==
  [stage |-> Adjusting(r.low, r.high), body |-> m.body, kind |-> m.kind, low |-> r.low, high |-> r.high]
Decoded(a, m, r) ==
  /\ r \in Decoding
  /\ SlotsSound(r.slot, r.heap)
  /\ \A c \in Aspace, p \in Proxy :
       r.slot[c][p] # slot[c][p] => /\ c = a /\ slot[c][p] = 0 /\ r.slot[c][p] \notin InUse(slot)
                                    /\ Mentions(m.body, p)
  /\ \A c \in Cell : /\ r.heap[c].waiters = heap[c].waiters
                     /\ c \in InUse(slot) => r.heap[c].proxy = heap[c].proxy /\ (heap[c].self => r.heap[c].self)
                     /\ c \notin CellsOf(r.slot, a) => r.heap[c].count = heap[c].count
  /\ m.kind \in {"run", "counts"} =>
       \A p \in Proxy : Mentions(m.body, p) => r.slot[a][p] # 0 /\ r.heap[r.slot[a][p]].self
  /\ \A i \in DOMAIN r.low : BadFound(r.slot, a, r.low[i].data, m.body)
  /\ \A i \in DOMAIN r.high : BadFound(r.slot, a, r.high[i], m.body)
  /\ m.kind \notin {"run", "counts"} => r.low = <<>> /\ r.high = <<>>
  /\ \A p \in Proxy :
       /\ Positive(LocalIn(r.slot, r.heap, a, p)) + BusyIn(r.heap, NewDispatcher(m, r), p)
            <= Positive(LocalIn(slot, heap, a, p)) + SumOf(m.body, p)
       /\ (slot[a][p] # 0 => heap[slot[a][p]].count >= 1) /\ r.slot[a][p] # 0
            => r.heap[r.slot[a][p]].count >= 1

\* Nobody waits at a proxy-data that is not in use.
LEMMA UnusedIs ==
  ASSUME WaitersSound(heap, out), heap \in Heaps
  PROVE  Unused(slot, heap)
<1> SUFFICES ASSUME NEW c \in Cell, heap[c].waiters # <<>> PROVE c \in InUse(slot)
  BY DEF Unused
<1>1. heap[c].waiters \in Seq(Thread)
  BY DEF Heaps, ProxyData
<1>2. 1 \in DOMAIN heap[c].waiters /\ heap[c].waiters[1] \in Thread
  BY <1>1
<1>3. WaiterSound(out, heap[c].waiters[1], c)
  BY <1>2 DEF WaitersSound
<1>4. PICK j \in DOMAIN out[heap[c].waiters[1]].losers : out[heap[c].waiters[1]].losers[j] = c
  BY <1>3 DEF WaiterSound
<1>5. QED
  BY <1>2, <1>4 DEF InUse

\* A message of a kind that brings no counts, or returns them.
LEMMA NothingDecoded ==
  ASSUME slot \in Slots, heap \in Heaps, SlotsSound(slot, heap), NEW a \in Aspace,
         NEW m \in Message, m.kind \notin {"run", "counts"},
         NEW r, r = [slot |-> slot, heap |-> heap, low |-> <<>>, high |-> <<>>]
  PROVE  Decoded(a, m, r)
<1>1. r \in Decoding
  <2>1. <<>> \in Seq(Bad) /\ <<>> \in Seq(Cell)
    OBVIOUS
  <2>2. QED
    BY <2>1 DEF Decoding
<1>2. r.slot = slot /\ r.heap = heap /\ r.low = <<>> /\ r.high = <<>> /\ DOMAIN r.low = {} /\ DOMAIN r.high = {}
  OBVIOUS
<1>3. ASSUME NEW p \in Proxy
      PROVE  BusyIn(heap, NewDispatcher(m, r), p) <= SumOf(m.body, p) /\ BusyIn(heap, NewDispatcher(m, r), p) \in Nat
             /\ SumOf(m.body, p) \in Nat
  <2>1. SumOf(m.body, p) \in Nat
    BY SumIsNumber DEF Message
  <2>2. LowSum(heap, <<>>, p) = 0
    BY LowOfEmpty
  <2>3. BusyIn(heap, NewDispatcher(m, r), p) = IF m.kind = "return" THEN SumOf(m.body, p) ELSE LowSum(heap, <<>>, p)
    BY <1>2 DEF BusyIn, NewDispatcher
  <2>4. QED
    BY <2>1, <2>2, <2>3
<1>4. ASSUME NEW p \in Proxy
      PROVE  Positive(LocalIn(slot, heap, a, p)) + BusyIn(heap, NewDispatcher(m, r), p)
               <= Positive(LocalIn(slot, heap, a, p)) + SumOf(m.body, p)
  <2>1. Positive(LocalIn(slot, heap, a, p)) \in Int
    BY LocalIsInt DEF Positive
  <2>2. QED
    BY <1>3, <2>1
<1>5. \A p \in Proxy :
        /\ Positive(LocalIn(r.slot, r.heap, a, p)) + BusyIn(r.heap, NewDispatcher(m, r), p)
             <= Positive(LocalIn(slot, heap, a, p)) + SumOf(m.body, p)
        /\ (slot[a][p] # 0 => heap[slot[a][p]].count >= 1) /\ r.slot[a][p] # 0
             => r.heap[r.slot[a][p]].count >= 1
  BY <1>2, <1>4
<1>6. QED
  BY <1>1, <1>2, <1>5 DEF Decoded

\* A message that is decoded: the counts it had are in the vector or on the list low.
LEMMA SomethingDecoded ==
  ASSUME slot \in Slots, heap \in Heaps, SlotsSound(slot, heap), NEW a \in Aspace, Enough(slot, a),
         out \in Outs, Unused(slot, heap),
         NEW m \in Message, m.kind \in {"run", "counts"}, Counted(m.kind, m.body),
         NEW r, r = Decodes(slot, heap, a, m.body)
  PROVE  Decoded(a, m, r)
<1> DEFINE body == m.body
<1>1. body \in Body /\ \A i \in DOMAIN body : body[i][2] >= 1
  BY DEF Message, Counted
<1>2. DecodedTo(slot, heap, a, body, r, Len(body))
  BY <1>1, DecodeFold
<1>3. /\ DOMAIN body = 1 .. Len(body) /\ SubSeq(body, 1, Len(body)) = body
      /\ \A i \in DOMAIN body : body[i][1] \in Proxy /\ Mentions(body, body[i][1])
  BY <1>1, BodyItems, Prefixes DEF Body
<1>4. \A p : Mentions(body, p) <=> \E i \in 1 .. Len(body) : body[i][1] = p
  BY <1>3 DEF Mentions
<1>5. \A p \in Proxy : BusyIn(r.heap, NewDispatcher(m, r), p) = LowSum(r.heap, r.low, p)
  BY DEF BusyIn, NewDispatcher
<1>6. \A i \in DOMAIN r.low : BadFound(r.slot, a, r.low[i].data, body)
  BY <1>2, <1>3 DEF DecodedTo, BadFound
<1>7. \A i \in DOMAIN r.high : BadFound(r.slot, a, r.high[i], body)
  BY <1>2, <1>3 DEF DecodedTo, BadFound
<1>8. \A p \in Proxy : Mentions(body, p) => r.slot[a][p] # 0 /\ r.heap[r.slot[a][p]].self
  <2> SUFFICES ASSUME NEW p \in Proxy, Mentions(body, p)
               PROVE  r.slot[a][p] # 0 /\ r.heap[r.slot[a][p]].self
    OBVIOUS
  <2>1. PICK i \in 1 .. Len(body) : body[i][1] = p
    BY <1>4
  <2>2. r.slot[a][body[i][1]] # 0 /\ r.heap[r.slot[a][body[i][1]]].self
    BY <1>2 DEF DecodedTo
  <2>3. QED
    BY <2>1, <2>2
<1>9. \A p \in Proxy :
        /\ Positive(LocalIn(r.slot, r.heap, a, p)) + BusyIn(r.heap, NewDispatcher(m, r), p)
             <= Positive(LocalIn(slot, heap, a, p)) + SumOf(body, p)
        /\ (slot[a][p] # 0 => heap[slot[a][p]].count >= 1) /\ r.slot[a][p] # 0
             => r.heap[r.slot[a][p]].count >= 1
  BY <1>2, <1>3, <1>5 DEF DecodedTo
<1>10. \A c \in Aspace, p \in Proxy :
         r.slot[c][p] # slot[c][p] => /\ c = a /\ slot[c][p] = 0 /\ r.slot[c][p] \notin InUse(slot)
                                      /\ Mentions(body, p)
  BY <1>2, <1>4 DEF DecodedTo
<1>11. /\ r \in Decoding /\ SlotsSound(r.slot, r.heap)
       /\ \A c \in Cell : /\ r.heap[c].waiters = heap[c].waiters
                          /\ c \in InUse(slot) => r.heap[c].proxy = heap[c].proxy /\ (heap[c].self => r.heap[c].self)
                          /\ c \notin CellsOf(r.slot, a) => r.heap[c].count = heap[c].count
  BY <1>2 DEF DecodedTo
<1> HIDE DEF body
<1>12. QED
  BY <1>6, <1>7, <1>8, <1>9, <1>10, <1>11 DEF Decoded, body

\* The dispatcher has the message, and the lists that decoding made.
LEMMA AdjustingIs ==
  ASSUME NEW m \in Message, NEW r \in Decoding
  PROVE  /\ NewDispatcher(m, r) \in Dispatcher
         /\ NewDispatcher(m, r).stage \in {"adjust", "return", "process"}
         /\ NewDispatcher(m, r).body = m.body /\ NewDispatcher(m, r).kind = m.kind
         /\ NewDispatcher(m, r).low = r.low /\ NewDispatcher(m, r).high = r.high
<1>1. Adjusting(r.low, r.high) \in {"adjust", "return", "process"}
  BY DEF Adjusting
<1>2. r.low \in Seq([data : Cell, more : Nat \ {0}]) /\ r.high \in Seq(Cell)
  BY DEF Decoding, Bad
<1>3. m.body \in Body /\ m.kind \in {"run", "request", "counts", "return"}
  BY DEF Message
<1>4. QED
  BY <1>1, <1>2, <1>3 DEF NewDispatcher, Dispatcher

\* A message is taken from the wire and decoded: no count appears or is lost.
LEMMA DecodeKeeps ==
  ASSUME IInv, NEW a \in Aspace, NEW b \in Aspace, Decode(a, b)
  PROVE  IInv'
<1> DEFINE R(m) == IF m.kind \in {"run", "counts"} THEN Decodes(slot, heap, a, m.body)
                   ELSE [slot |-> slot, heap |-> heap, low |-> <<>>, high |-> <<>>]
           U == InUse(slot) \cap Cell
<1>1. PICK m \in DOMAIN wire :
        /\ m.to = a /\ m.from = b /\ disp[a][b].stage = "idle" /\ Enough(slot, a)
        /\ wire' = wire (-) SetToBag({m})
        /\ slot' = R(m).slot /\ heap' = R(m).heap
        /\ disp' = Assigned(disp, a, b, NewDispatcher(m, R(m)))
        /\ UNCHANGED <<live, out, sends>>
  BY DEF Decode, BagToSet, Enough, Decodes, Assigned, NewDispatcher
<1> DEFINE r == R(m)
           x == NewDispatcher(m, r)
<1>2. StateOK(slot, heap, wire, out, disp) /\ live \in [Aspace -> SUBSET Proxy] /\ sends \in [Aspace -> Nat]
  BY TypesAre DEF IInv
<1>3. heap \in Heaps /\ WireOK(wire) /\ disp \in Disps /\ slot \in Slots /\ out \in Outs
      /\ Sound(slot, heap, live, wire, out, disp)
  BY <1>2 DEF StateOK, IInv
<1>4. SlotsSound(slot, heap) /\ HeldSound(slot, heap, live, disp)
      /\ (\A u \in Thread : ThreadSound(heap, out, u)) /\ WaitersSound(heap, out)
      /\ (\A c, d \in Aspace : DispatchSound(slot, disp[c][d], c, d))
      /\ (\A n \in DOMAIN wire : MessageSound(n))
  BY <1>3 DEF Sound
<1>5. m \in Message /\ Counted(m.kind, m.body) /\ Routed(m.kind, b, a)
  BY <1>1, <1>3, <1>4 DEF WireOK, MessageSound
<1>6. Unused(slot, heap)
  BY <1>3, <1>4, UnusedIs
<1>7. Decoded(a, m, r)
  <2>1. CASE m.kind \in {"run", "counts"}
    BY <1>1, <1>3, <1>4, <1>5, <1>6, <2>1, SomethingDecoded
  <2>2. CASE m.kind \notin {"run", "counts"}
    BY <1>3, <1>4, <1>5, <2>2, NothingDecoded
  <2>3. QED
    BY <2>1, <2>2
<1>8. slot' = r.slot /\ heap' = r.heap /\ disp' = Assigned(disp, a, b, x)
  BY <1>1
<1> HIDE DEF r, R
<1>9. /\ slot' \in Slots /\ heap' \in Heaps /\ r \in Decoding /\ SlotsSound(slot', heap')
      /\ \A c \in Aspace, p \in Proxy :
           slot'[c][p] # slot[c][p] => c = a /\ slot[c][p] = 0 /\ slot'[c][p] \notin InUse(slot) /\ Mentions(m.body, p)
      /\ \A c \in Cell : /\ heap'[c].waiters = heap[c].waiters
                         /\ c \in InUse(slot) => heap'[c].proxy = heap[c].proxy /\ (heap[c].self => heap'[c].self)
                         /\ c \notin CellsOf(slot', a) => heap'[c].count = heap[c].count
  <2>1. r \in Decoding
    BY <1>7 DEF Decoded
  <2>2. slot' \in Slots /\ heap' \in Heaps
    BY <1>8, <2>1 DEF Decoding
  <2>3. QED
    BY <1>7, <1>8, <2>1, <2>2 DEF Decoded
<1>10. /\ x \in Dispatcher /\ x.stage \in {"adjust", "return", "process"}
       /\ x.body = m.body /\ x.kind = m.kind /\ x.low = r.low /\ x.high = r.high
  BY <1>5, <1>9, AdjustingIs
<1>11. /\ \A i \in DOMAIN x.low : BadFound(slot', a, x.low[i].data, m.body)
       /\ \A i \in DOMAIN x.high : BadFound(slot', a, x.high[i], m.body)
       /\ m.kind \notin {"run", "counts"} => x.low = <<>> /\ x.high = <<>>
       /\ m.kind \in {"run", "counts"} =>
            \A p \in Proxy : Mentions(m.body, p) => slot'[a][p] # 0 /\ heap'[slot'[a][p]].self
  BY <1>7, <1>8, <1>10 DEF Decoded
<1>12. \A p \in Proxy :
         /\ Positive(LocalIn(slot', heap', a, p)) + BusyIn(heap', x, p)
              <= Positive(LocalIn(slot, heap, a, p)) + SumOf(m.body, p)
         /\ (slot[a][p] # 0 => heap[slot[a][p]].count >= 1) /\ slot'[a][p] # 0
              => heap'[slot'[a][p]].count >= 1
  BY <1>7, <1>8 DEF Decoded
<1> HIDE DEF x
<1>13. /\ disp' \in Disps /\ disp'[a][b] = x
       /\ \A c, d \in Aspace : c # a \/ d # b => disp'[c][d] = disp[c][d]
       /\ \A c, d \in Aspace : disp[c][d] \in Dispatcher
  <2>1. x \in Dispatcher /\ disp \in Disps
    BY <1>3, <1>10
  <2>2. /\ Assigned(disp, a, b, x) \in Disps /\ Assigned(disp, a, b, x)[a][b] = x
        /\ \A c, d \in Aspace : c # a \/ d # b => Assigned(disp, a, b, x)[c][d] = disp[c][d]
        /\ \A c, d \in Aspace : disp[c][d] \in Dispatcher /\ Assigned(disp, a, b, x)[c][d] \in Dispatcher
    BY <2>1, DispatcherSet
  <2>3. QED
    BY <1>8, <2>2
<1>14. /\ WireOK(wire') /\ DOMAIN wire' \subseteq DOMAIN wire
       /\ \A p : Total(WireAt(wire', p)) + SumOf(m.body, p) = Total(WireAt(wire, p))
  BY <1>1, <1>3, Taken
<1>15. StateOK(slot', heap', wire', out', disp') /\ out' = out /\ live' = live
  BY <1>1, <1>2, <1>9, <1>13, <1>14 DEF StateOK
<1>16. TypeOK'
  BY <1>1, <1>2, <1>9, <1>13, <1>14, <1>15 DEF IInv, TypeOK, Slots, Heaps, Disps, WireOK, StateOK
<1>17. /\ 0 \notin Cell
       /\ \A c \in Aspace, p \in Proxy : /\ slot[c][p] \in Cell \cup {0} /\ slot[c][p] \in InUse(slot)
                                         /\ slot'[c][p] \in Cell \cup {0}
                                         /\ slot[c][p] # 0 => slot'[c][p] = slot[c][p]
       /\ U \subseteq Cell
  BY <1>3, <1>9 DEF Slots, InUse, Cell
<1>18. Retains(heap, heap', U)
  BY <1>6, <1>9 DEF Retains, Unused
<1>19. LosersWithin(out, U)
  <2>1. \A t \in Thread : \A i \in DOMAIN out[t].losers : out[t].losers[i] \in Cell
    BY <1>3, ListElements DEF Outs, Blocked
  <2>2. \A t \in Thread : \A i \in DOMAIN out[t].losers : out[t].losers[i] \in InUse(slot)
    BY DEF InUse
  <2>3. QED
    BY <2>1, <2>2 DEF LosersWithin
\* The bad proxies of the other dispatchers are still found.
<1>20. ASSUME NEW c \in Aspace, NEW d \in Aspace, NEW y \in Cell, BadFound(slot, c, y, disp[c][d].body)
       PROVE  BadFound(slot', c, y, disp[c][d].body) /\ y \in U
  <2>1. PICK p \in Proxy : Mentions(disp[c][d].body, p) /\ slot[c][p] = y
    BY <1>20 DEF BadFound
  <2>2. slot'[c][p] = y /\ y \in U
    BY <1>17, <2>1
  <2>3. QED
    BY <2>1, <2>2 DEF BadFound
<1>21. ASSUME NEW c \in Aspace, NEW d \in Aspace PROVE LowWithin(disp[c][d], U)
  <2>1. \A i \in DOMAIN disp[c][d].low : disp[c][d].low[i].data \in Cell
    BY <1>13, LowAre
  <2>2. \A i \in DOMAIN disp[c][d].low : BadFound(slot, c, disp[c][d].low[i].data, disp[c][d].body)
    BY <1>4 DEF DispatchSound
  <2>3. QED
    BY <1>20, <2>1, <2>2 DEF LowWithin
<1>22. Sound(slot', heap', live, wire', out, disp')
  <2>1. HeldSound(slot', heap', live, disp')
    <3> SUFFICES ASSUME NEW c \in Aspace, NEW p \in Proxy, HeldIn(live, disp', c, p)
                 PROVE  slot'[c][p] # 0 /\ heap'[slot'[c][p]].self
      BY DEF HeldSound
    <3>1. CASE HeldIn(live, disp, c, p)
      <4>1. slot[c][p] # 0 /\ heap[slot[c][p]].self
        BY <1>4, <3>1 DEF HeldSound
      <4>2. slot'[c][p] = slot[c][p] /\ slot[c][p] \in Cell /\ slot[c][p] \in InUse(slot)
        BY <1>17, <4>1
      <4>3. QED
        BY <1>9, <4>1, <4>2
    <3>2. CASE ~HeldIn(live, disp, c, p)
      <4>1. PICK d \in Aspace : disp'[c][d].kind \in {"run", "counts"} /\ Mentions(disp'[c][d].body, p)
        BY <3>2 DEF HeldIn
      <4>2. c = a /\ d = b
        BY <1>13, <3>2, <4>1 DEF HeldIn
      <4>3. m.kind \in {"run", "counts"} /\ Mentions(m.body, p)
        BY <1>10, <1>13, <4>1, <4>2
      <4>4. QED
        BY <1>11, <4>2, <4>3
    <3>3. QED
      BY <3>1, <3>2
  <2>2. ASSUME NEW c \in Aspace, NEW d \in Aspace PROVE DispatchSound(slot', disp'[c][d], c, d)
    <3>1. CASE c = a /\ d = b
      <4>1. DispatchSound(slot', x, a, b)
        BY <1>5, <1>10, <1>11 DEF DispatchSound
      <4>2. QED
        BY <1>13, <3>1, <4>1
    <3>2. CASE ~(c = a /\ d = b)
      <4> DEFINE y == disp[c][d]
      <4>1. y \in Dispatcher /\ DispatchSound(slot, y, c, d) /\ disp'[c][d] = y
        BY <1>4, <1>13, <3>2
      <4>2. \A i \in DOMAIN y.low : BadFound(slot', c, y.low[i].data, y.body)
        <5>1. \A i \in DOMAIN y.low : y.low[i].data \in Cell
          BY <4>1, LowAre
        <5>2. QED
          BY <1>20, <4>1, <5>1 DEF DispatchSound
      <4>3. \A i \in DOMAIN y.high : BadFound(slot', c, y.high[i], y.body)
        <5>1. y.high \in Seq(Cell)
          BY <4>1 DEF Dispatcher
        <5>2. \A i \in DOMAIN y.high : y.high[i] \in Cell
          BY <5>1, ListElements
        <5>3. QED
          BY <1>20, <4>1, <5>2 DEF DispatchSound
      <4> HIDE DEF y
      <4>4. DispatchSound(slot', y, c, d)
        BY <4>1, <4>2, <4>3 DEF DispatchSound
      <4>5. QED
        BY <4>1, <4>4
    <3>3. QED
      BY <3>1, <3>2
  <2>3. \A u \in Thread : ThreadSound(heap', out, u)
    BY <1>3, <1>4, <1>9, <1>17, <1>18, <1>19, RetainsThread
  <2>4. WaitersSound(heap', out)
    BY <1>4, <1>18, RetainsWaiters
  <2>5. \A n \in DOMAIN wire' : MessageSound(n)
    BY <1>4, <1>14
  <2>6. QED
    BY <1>9, <2>1, <2>2, <2>3, <2>4, <2>5 DEF Sound
<1>23. ASSUME NEW p \in Proxy
       PROVE  CountsSound(slot', heap', wire', out, disp', p) /\ FreeSound(slot', live, wire', out, disp', p)
  <2> DEFINE C == Counts(slot, heap, wire, out, disp, p)
             C2 == Counts(slot', heap', wire', out, disp', p)
             O == Owed(heap, out, p)
             O2 == Owed(heap', out, p)
             V == Total(VectorAt(slot, heap, p))
             V2 == Total(VectorAt(slot', heap', p))
             W == Total(WireAt(wire, p))
             W2 == Total(WireAt(wire', p))
             D == Total(DispAt(heap, disp, p))
             D2 == Total(DispAt(heap', disp', p))
             L == Positive(LocalIn(slot, heap, a, p))
             L2 == Positive(LocalIn(slot', heap', a, p))
             S == SumOf(m.body, p)
             B == BusyIn(heap, disp[a][b], p)
             B2 == BusyIn(heap', x, p)
  <2>1. CountsSound(slot, heap, wire, out, disp, p) /\ FreeSound(slot, live, wire, out, disp, p)
    BY DEF IInv
  <2>2. V2 + L = V + L2
    <3>1. ASSUME NEW c \in Aspace \ {a} PROVE LocalIn(slot', heap', c, p) = LocalIn(slot, heap, c, p)
      <4>1. slot'[c][p] = slot[c][p]
        BY <1>9
      <4>2. CASE slot[c][p] = 0
        BY <4>1, <4>2 DEF LocalIn
      <4>3. CASE slot[c][p] # 0
        <5>1. slot[c][p] \in Cell
          BY <1>17, <4>3
        <5>2. slot'[c][p] \notin CellsOf(slot', a)
          BY <1>9, <4>1, <4>3 DEF SlotsSound, CellsOf
        <5>3. QED
          BY <1>9, <4>1, <4>3, <5>1, <5>2 DEF LocalIn
      <4>4. QED
        BY <4>2, <4>3
    <3>2. QED
      BY <1>3, <1>9, <3>1, VectorsChange
  <2>3. L2 + B2 <= L + S
    BY <1>12
  <2>4. D2 + B = D + B2
    <3>1. ASSUME NEW c \in Aspace, NEW d \in Aspace, c # a \/ d # b
          PROVE  BusyIn(heap', disp'[c][d], p) = BusyIn(heap, disp[c][d], p)
      <4>1. disp'[c][d] = disp[c][d] /\ LowWithin(disp[c][d], U)
        BY <1>13, <1>21, <3>1
      <4>2. BusyIn(heap', disp[c][d], p) = BusyIn(heap, disp[c][d], p)
        BY <1>17, <1>18, <4>1, RetainsBusy
      <4>3. QED
        BY <4>1, <4>2
    <3>2. Total(DispAt(heap', disp', p)) + BusyIn(heap, disp[a][b], p)
            = Total(DispAt(heap, disp, p)) + BusyIn(heap', disp'[a][b], p)
      BY <1>3, <1>13, <3>1, DispChange
    <3>3. QED
      BY <1>13, <3>2
  <2>5. W2 + S = W
    BY <1>14
  <2>6. /\ C \in Nat /\ C2 \in Nat /\ O \in Nat /\ O2 \in Nat /\ V \in Nat /\ V2 \in Nat
        /\ W \in Nat /\ W2 \in Nat /\ Total(ThreadAt(out, p)) \in Nat /\ D \in Nat /\ D2 \in Nat
    BY <1>2, <1>15, SumsAreNumbers
  <2>7. L \in Nat /\ L2 \in Nat /\ S \in Nat /\ B \in Nat /\ B2 \in Nat
    <3>1. LocalIn(slot, heap, a, p) \in Int /\ LocalIn(slot', heap', a, p) \in Int
      BY <1>3, <1>9, LocalIsInt
    <3>2. S \in Nat
      BY <1>5, SumIsNumber DEF Message
    <3>3. B \in Nat /\ B2 \in Nat
      BY <1>10, <1>13, BusyIsNat
    <3>4. QED
      BY <3>1, <3>2, <3>3 DEF Positive
  <2>8. O2 = O
    BY <1>3, <1>9, <1>17, <1>18, <1>19, RetainsOwed
  <2>9. /\ C = V + W + Total(ThreadAt(out, p)) + D
        /\ C2 = V2 + W2 + Total(ThreadAt(out, p)) + D2
    BY DEF Counts
  <2> HIDE DEF C, C2, O, O2, V, V2, W, W2, D, D2, L, L2, S, B, B2
  <2>10. C2 + O <= C + O2
    BY <2>2, <2>3, <2>4, <2>5, <2>6, <2>7, <2>8, <2>9
  <2>11. ASSUME Clean(slot, heap, wire, out, disp, p)
         PROVE  Clean(slot', heap', wire', out, disp', p)
    <3>1. ASSUME NEW c \in Aspace, slot'[c][p] # 0 PROVE heap'[slot'[c][p]].count >= 1
      <4>1. CASE c = a
        BY <1>12, <2>11, <3>1, <4>1 DEF Clean
      <4>2. CASE c # a
        <5>1. slot'[c][p] = slot[c][p] /\ slot[c][p] \in Cell /\ heap[slot[c][p]].count >= 1
          BY <1>9, <1>17, <2>11, <3>1, <4>2 DEF Clean
        <5>2. slot'[c][p] \notin CellsOf(slot', a)
          BY <1>9, <3>1, <4>2 DEF SlotsSound, CellsOf
        <5>3. QED
          BY <1>9, <5>1, <5>2
      <4>3. QED
        BY <4>1, <4>2
    <3>2. \A u \in Thread : \A i \in DOMAIN out[u].losers : heap'[out[u].losers[i]].proxy # p
      <4>1. \A u \in Thread : \A i \in DOMAIN out[u].losers :
              heap'[out[u].losers[i]].proxy = heap[out[u].losers[i]].proxy
        BY <1>17, <1>18, <1>19 DEF Retains, LosersWithin
      <4>2. QED
        BY <2>11, <4>1 DEF Clean
    <3>3. \A n \in DOMAIN wire' : Fine(n.kind, n.body, p)
      BY <1>14, <2>11 DEF Clean
    <3>4. ASSUME NEW c \in Aspace, NEW d \in Aspace PROVE Fine(disp'[c][d].kind, disp'[c][d].body, p)
      <4>1. CASE c = a /\ d = b
        <5>1. Fine(m.kind, m.body, p)
          BY <2>11 DEF Clean
        <5>2. QED
          BY <1>10, <1>13, <4>1, <5>1
      <4>2. CASE ~(c = a /\ d = b)
        BY <1>13, <2>11, <4>2 DEF Clean
      <4>3. QED
        BY <4>1, <4>2
    <3>5. QED
      BY <3>1, <3>2, <3>3, <3>4 DEF Clean
  <2>12. CountsSound(slot', heap', wire', out, disp', p)
    BY <1>2, <1>15, <2>1, <2>10, <2>11, CountsCarried DEF C, C2, O, O2
  <2>13. FreeSound(slot', live, wire', out, disp', p)
    <3> SUFFICES ASSUME slot'[Owner][p] = 0
                 PROVE  /\ p \notin live[Owner]
                        /\ \A c \in Aspace : slot'[c][p] = 0
                        /\ \A n \in DOMAIN wire' : ~Mentions(n.body, p)
                        /\ \A t \in Thread : ~Mentions(out[t].body, p)
                        /\ \A c, d \in Aspace : ~Mentions(disp'[c][d].body, p)
      BY DEF FreeSound
    <3>1. slot[Owner][p] = 0
      BY <1>17, FiniteSets
    <3>2. /\ p \notin live[Owner]
          /\ \A c \in Aspace : slot[c][p] = 0
          /\ \A n \in DOMAIN wire : ~Mentions(n.body, p)
          /\ \A t \in Thread : ~Mentions(out[t].body, p)
          /\ \A c, d \in Aspace : ~Mentions(disp[c][d].body, p)
      BY <2>1, <3>1 DEF FreeSound
    <3>3. ~Mentions(m.body, p)
      BY <3>2
    <3>4. \A c \in Aspace : slot'[c][p] = 0
      BY <1>9, <3>2, <3>3
    <3>5. \A c, d \in Aspace : ~Mentions(disp'[c][d].body, p)
      <4>1. ASSUME NEW c \in Aspace, NEW d \in Aspace PROVE ~Mentions(disp'[c][d].body, p)
        <5>1. CASE c = a /\ d = b
          BY <1>10, <1>13, <3>3, <5>1
        <5>2. CASE ~(c = a /\ d = b)
          BY <1>13, <3>2, <5>2
        <5>3. QED
          BY <5>1, <5>2
      <4>2. QED
        BY <4>1
    <3>6. QED
      BY <1>14, <3>2, <3>4, <3>5
  <2>14. QED
    BY <2>12, <2>13
<1>24. QED
  BY <1>15, <1>16, <1>22, <1>23 DEF IInv

-----------------------------------------------------------------------------
(* Counts for those who wait.                                              *)

\* One more pair on the list low.
LEMMA LowAppended ==
  ASSUME NEW h, NEW x \in Bad, NEW low \in Seq(Bad), NEW p
  PROVE  /\ LowSum(h, Append(low, x), p) = LowSum(h, low, p) + IF h[x.data].proxy = p THEN x.more ELSE 0
         /\ LowSum(h, low, p) \in Nat
<1> DEFINE ys == Append(low, x)
           f == LowAt(h, low, p)
           g == LowAt(h, ys, p)
           n == Len(low)
           v == IF h[x.data].proxy = p THEN x.more ELSE 0
<1>1. /\ ys \in Seq(Bad) /\ DOMAIN ys = 1 .. n + 1 /\ ys[n + 1] = x /\ n \in Nat
      /\ \A i \in 1 .. n : ys[i] = low[i]
  OBVIOUS
<1>2. DOMAIN f = 1 .. n /\ \A i \in 1 .. n : f[i] \in Int
  BY LowSumIsNat
<1> HIDE DEF ys
<1>3. DOMAIN g = 1 .. n + 1 /\ \A i \in 1 .. n + 1 : g[i] \in Int
  BY <1>1, LowSumIsNat
<1>4. g[n + 1] = v /\ v \in Nat
  <2>1. n + 1 \in DOMAIN ys
    BY <1>1
  <2>2. x.more \in Nat
    BY DEF Bad
  <2>3. QED
    BY <1>1, <2>1, <2>2 DEF LowAt
<1>5. \A i \in 1 .. n : g[i] = f[i]
  <2> SUFFICES ASSUME NEW i \in 1 .. n PROVE g[i] = f[i]
    OBVIOUS
  <2>1. i \in DOMAIN ys /\ ys[i] = low[i] /\ i \in DOMAIN low
    BY <1>1, LowSumIsNat
  <2>2. QED
    BY <2>1 DEF LowAt
<1>6. Total(f) \in Nat
  BY LowSumIsNat DEF LowSum
<1> HIDE DEF f, g, v, n
<1>7. DOMAIN f = DOMAIN g \ {n + 1} /\ n + 1 \in DOMAIN g /\ \A i \in DOMAIN f : f[i] = g[i]
  BY <1>1, <1>2, <1>3, <1>5
<1>8. IsFiniteSet(DOMAIN g) /\ \A i \in DOMAIN g : g[i] \in Int
  <2>1. n + 1 \in Int
    BY <1>1
  <2>2. QED
    BY <1>3, <2>1, FS_Interval
<1>9. Total(g) = Total(f) + Positive(g[n + 1])
  <2> DEFINE k == n + 1
  <2> HIDE DEF k
  <2>1. DOMAIN f = DOMAIN g \ {k} /\ k \in DOMAIN g /\ \A i \in DOMAIN f : f[i] = g[i]
    BY <1>7 DEF k
  <2>2. Total(g) = Total(f) + Positive(g[k])
    BY <1>8, <2>1, TotalWithout
  <2>3. QED
    BY <2>2 DEF k
<1>10. Total(g) = Total(f) + v
  BY <1>4, <1>9 DEF Positive
<1>11. QED
  BY <1>6, <1>10 DEF LowSum, f, g, ys, v

\* The first u of a list, and the others.
SplitAt(ws, u, rest, t) ==
  /\ rest \in Seq(Thread) /\ Len(rest) = Len(ws) - u
  /\ \A i \in DOMAIN rest : \E j \in DOMAIN ws : rest[i] = ws[j]
  /\ Cardinality({i \in DOMAIN ws : ws[i] = t})
       = Cardinality({i \in 1 .. u : ws[i] = t}) + Cardinality({i \in DOMAIN rest : rest[i] = t})
  /\ Cardinality({i \in DOMAIN rest : rest[i] = t}) \in Nat
  /\ Cardinality({i \in 1 .. u : ws[i] = t}) \in Nat

\* The waiters on a list are those served and those left.
LEMMA CountsSplit ==
  ASSUME NEW ws \in Seq(Thread), NEW u \in 0 .. Len(ws), NEW t
  PROVE  SplitAt(ws, u, SubSeq(ws, u + 1, Len(ws)), t)
<1> DEFINE n == Len(ws)
           rest == SubSeq(ws, u + 1, n)
           A == {i \in 1 .. n : ws[i] = t}
           B == {i \in 1 .. u : ws[i] = t}
           C == {i \in u + 1 .. n : ws[i] = t}
           D == {i \in 1 .. n - u : rest[i] = t}
           move == [i \in D |-> i + u]
<1>1. /\ n \in Nat /\ u \in Nat /\ u <= n /\ DOMAIN ws = 1 .. n /\ n - u \in Nat
      /\ rest \in Seq(Thread) /\ Len(rest) = n - u /\ DOMAIN rest = 1 .. n - u
      /\ \A i \in 1 .. n - u : rest[i] = ws[i + u]
  OBVIOUS
<1> HIDE DEF n, rest
<1>2. \A i \in 1 .. n - u : i + u \in 1 .. n /\ i + u \in u + 1 .. n
  BY <1>1
<1>3. \A i \in DOMAIN rest : \E j \in DOMAIN ws : rest[i] = ws[j]
  BY <1>1, <1>2
<1>4. IsFiniteSet(1 .. n) /\ IsFiniteSet(1 .. u) /\ IsFiniteSet(u + 1 .. n) /\ IsFiniteSet(1 .. n - u)
  <2>1. u + 1 \in Int /\ n \in Int /\ u \in Int /\ n - u \in Int /\ 1 \in Int
    BY <1>1
  <2>2. QED
    BY <2>1, FS_Interval
<1>5. IsFiniteSet(B) /\ IsFiniteSet(C) /\ IsFiniteSet(D)
  <2>1. B \subseteq 1 .. u /\ C \subseteq u + 1 .. n /\ D \subseteq 1 .. n - u
    OBVIOUS
  <2>2. QED
    BY <1>4, <2>1, FS_Subset
<1>6. A = B \cup C /\ B \cap C = {}
  BY <1>1
<1>7. move \in Bijection(D, C)
  <2>1. \A i \in D : i + u \in C
    BY <1>1, <1>2
  <2>2. \A k \in C : k - u \in D /\ (k - u) + u = k
    BY <1>1
  <2>3. move \in [D -> C] /\ \A i \in D : move[i] = i + u
    BY <2>1
  <2>4. \A i, j \in D : i + u = j + u => i = j
    BY <1>1
  <2>5. \A k \in C : \E i \in D : move[i] = k
    BY <2>2, <2>3
  <2>6. \A i, j \in D : move[i] = move[j] => i = j
    BY <2>3, <2>4
  <2> HIDE DEF move, D, C
  <2>7. move \in Injection(D, C)
    BY <2>3, <2>6 DEF Injection, IsInjective
  <2>8. move \in Surjection(D, C)
    BY <2>3, <2>5 DEF Surjection
  <2>9. QED
    BY <2>7, <2>8 DEF Bijection
<1> HIDE DEF A, B, C, D, move
<1>8. Cardinality(C) = Cardinality(D)
  BY <1>5, <1>7, FS_Bijection DEF ExistsBijection
<1>9. Cardinality(B) \in Nat /\ Cardinality(C) \in Nat /\ Cardinality(D) \in Nat
  BY <1>5, FS_CardinalityType
<1>10. Cardinality(A) = Cardinality(B) + Cardinality(D)
  <2>1. Cardinality(B \cup C) = Cardinality(B) + Cardinality(C) - Cardinality(B \cap C)
    BY <1>5, FS_Union
  <2>2. Cardinality(B \cap C) = 0
    BY <1>6, FS_EmptySet
  <2>3. QED
    BY <1>6, <1>8, <1>9, <2>1, <2>2
<1>11. /\ Cardinality({i \in DOMAIN ws : ws[i] = t})
            = Cardinality({i \in 1 .. u : ws[i] = t}) + Cardinality({i \in DOMAIN rest : rest[i] = t})
       /\ Cardinality({i \in DOMAIN rest : rest[i] = t}) \in Nat
       /\ Cardinality({i \in 1 .. u : ws[i] = t}) \in Nat
  BY <1>1, <1>9, <1>10 DEF A, B, D
<1>12. SplitAt(ws, u, rest, t)
  BY <1>1, <1>3, <1>11 DEF SplitAt, n
<1>13. QED
  BY <1>12 DEF n, rest

\* While the waiters are served the count of a thread is a number.
Served == [stage : {"free", "encoded", "waiting", "ready"}, from : Aspace, to : Aspace,
           body : Body, losers : Seq(Cell), count : Int]

\* What the arrival of m counts at the proxy-data d does: k of them are there to use.
ServedOne(h, h2, o, o2, d, m) ==
  /\ h2 \in Heaps
  /\ \A c \in Cell : c # d => h2[c] = h[c]
  /\ h2[d].proxy = h[d].proxy /\ h2[d].self = h[d].self
  /\ \E k \in 0 .. m - 1 : \E u \in 0 .. k :
       h2[d].count = k - u /\ Len(h2[d].waiters) + u = Len(h[d].waiters)
  /\ \A i \in DOMAIN h2[d].waiters : \E j \in DOMAIN h[d].waiters : h2[d].waiters[i] = h[d].waiters[j]
  /\ \A t \in Thread : /\ PlacesIn(h2, d, t) <= PlacesIn(h, d, t)
                       /\ o2[t] = [o[t] EXCEPT !.count = o2[t].count] /\ o2[t] \in Served
                       /\ o2[t].count + PlacesIn(h, d, t) = o[t].count + PlacesIn(h2, d, t)

\* The counts of one pair that are there to use release as many waiters, and the rest
\* goes to the proxy-data.
LEMMA Serves ==
  ASSUME NEW h \in Heaps, NEW o, \A t \in Thread : o[t] \in Served,
         NEW d \in Cell, NEW m \in Nat \ {0}, NEW e, e.heap = h, e.out = o, NEW pair, pair.data = d, pair.more = m,
         NEW r, r = ServeWaiters(e, pair, Unserved(e, pair))
  PROVE  ServedOne(h, r.heap, o, r.out, d, m)
<1> DEFINE ws == h[d].waiters
           n == NumberOf(m)
           tag == TagOf(m)
           u == Smaller(Len(ws), n)
           rest == SubSeq(ws, u + 1, Len(ws))
           y == [h[d] EXCEPT !.count = n - u, !.tag = tag, !.waiters = rest, !.asked = TRUE]
           Given(t) == Cardinality({i \in 1 .. u : ws[i] = t})
<1>1. h[d] \in ProxyData /\ ws \in Seq(Thread) /\ Len(ws) \in Nat
  BY DEF Heaps, ProxyData
<1>0. n \in 0 .. m - 1 /\ tag \in 0 .. 3
  BY DEF NumberOf, TagOf
<1>2. u \in 0 .. n /\ u \in 0 .. Len(ws)
  BY <1>0, <1>1 DEF Smaller
<1>3. n = NumberOf(pair.more) /\ tag = TagOf(pair.more) /\ u = Used(e, pair) /\ rest = Unserved(e, pair)
  BY DEF Used, Unserved
<1> HIDE DEF u, n, tag
<1>4. /\ rest \in Seq(Thread) /\ Len(rest) = Len(ws) - u
      /\ \A i \in DOMAIN rest : \E j \in DOMAIN ws : rest[i] = ws[j]
      /\ \A t : /\ Cardinality({i \in DOMAIN ws : ws[i] = t})
                     = Cardinality({i \in 1 .. u : ws[i] = t}) + Cardinality({i \in DOMAIN rest : rest[i] = t})
                /\ Cardinality({i \in DOMAIN rest : rest[i] = t}) \in Nat
                /\ Cardinality({i \in 1 .. u : ws[i] = t}) \in Nat
  <2> HIDE DEF ws
  <2>0. ws \in Seq(Thread) /\ u \in 0 .. Len(ws)
    BY <1>1, <1>2
  <2>1. ASSUME NEW t
        PROVE  /\ rest \in Seq(Thread) /\ Len(rest) = Len(ws) - u
               /\ \A i \in DOMAIN rest : \E j \in DOMAIN ws : rest[i] = ws[j]
               /\ Cardinality({i \in DOMAIN ws : ws[i] = t})
                    = Cardinality({i \in 1 .. u : ws[i] = t}) + Cardinality({i \in DOMAIN rest : rest[i] = t})
               /\ Cardinality({i \in DOMAIN rest : rest[i] = t}) \in Nat
               /\ Cardinality({i \in 1 .. u : ws[i] = t}) \in Nat
    <3>1. SplitAt(ws, u, rest, t)
      BY <2>0, CountsSplit
    <3> HIDE DEF rest
    <3>2. QED
      BY <3>1 DEF SplitAt
  <2>2. QED
    BY <2>1
<1>5. /\ r.heap = [h EXCEPT ![d].count = n - u, ![d].tag = tag, ![d].waiters = rest, ![d].asked = TRUE]
      /\ r.out = [t \in Thread |-> [o[t] EXCEPT !.count = @ - Given(t)]]
  BY <1>3 DEF ServeWaiters
<1> HIDE DEF rest, ws
<1>6. r.heap = [h EXCEPT ![d] = y]
  BY <1>5 DEF Heaps
<1>7. /\ y \in ProxyData /\ y.proxy = h[d].proxy /\ y.self = h[d].self /\ y.count = n - u /\ y.waiters = rest
  <2>1. n - u \in Int
    BY <1>0, <1>2
  <2> DEFINE k == n - u
             x == h[d]
  <2> HIDE DEF k, x
  <2>2. y = [x EXCEPT !.count = k, !.tag = tag, !.waiters = rest, !.asked = TRUE] /\ x \in ProxyData /\ k \in Int
    BY <1>1, <2>1 DEF k, x
  <2> HIDE DEF y
  <2>3. y = [proxy |-> x.proxy, count |-> k, tag |-> tag, waiters |-> rest, asked |-> TRUE, self |-> x.self]
    BY <2>2 DEF ProxyData
  <2>4. /\ y \in ProxyData /\ y.proxy = x.proxy /\ y.self = x.self /\ y.count = k /\ y.waiters = rest
    BY <1>0, <1>4, <2>2, <2>3 DEF ProxyData
  <2>5. QED
    BY <2>4 DEF k, x
<1> HIDE DEF y
<1>8. r.heap \in Heaps /\ r.heap[d] = y /\ \A c \in Cell : c # d => r.heap[c] = h[c]
  BY <1>6, <1>7 DEF Heaps
<1>9. ASSUME NEW t \in Thread
      PROVE  /\ PlacesIn(r.heap, d, t) <= PlacesIn(h, d, t)
             /\ r.out[t] = [o[t] EXCEPT !.count = r.out[t].count] /\ r.out[t] \in Served
             /\ r.out[t].count + PlacesIn(h, d, t) = o[t].count + PlacesIn(r.heap, d, t)
  <2> DEFINE P == PlacesIn(h, d, t)
             P2 == PlacesIn(r.heap, d, t)
             k == Given(t)
             x == o[t]
             v == x.count - k
             z == r.out[t]
  <2>1. P = Cardinality({i \in DOMAIN ws : ws[i] = t})
    BY DEF PlacesIn, ws
  <2>2. P2 = Cardinality({i \in DOMAIN rest : rest[i] = t})
    BY <1>7, <1>8 DEF PlacesIn
  <2>3. P = k + P2 /\ k \in Nat /\ P2 \in Nat
    BY <1>4, <2>1, <2>2
  <2>4. z = [x EXCEPT !.count = v] /\ x \in Served
    BY <1>5
  <2> HIDE DEF P, P2, k, x, z, Given
  <2>5. v \in Int /\ x.count \in Int
    BY <2>3, <2>4 DEF Served
  <2> HIDE DEF v
  <2>6. z.count = v /\ z = [x EXCEPT !.count = z.count] /\ z \in Served
    BY <2>4, <2>5 DEF Served
  <2>7. P2 <= P /\ z.count + P = x.count + P2
    BY <2>3, <2>5, <2>6 DEF v
  <2>8. QED
    BY <2>6, <2>7 DEF P, P2, x, z
<1>10. QED
  <2>1. \E k \in 0 .. m - 1 : \E v \in 0 .. k :
          r.heap[d].count = k - v /\ Len(r.heap[d].waiters) + v = Len(h[d].waiters)
    <3>1. Len(rest) + u = Len(ws)
      BY <1>1, <1>2, <1>4
    <3>2. r.heap[d].count = n - u /\ Len(r.heap[d].waiters) + u = Len(h[d].waiters)
      BY <1>7, <1>8, <3>1 DEF ws
    <3>3. QED
      BY <1>0, <1>2, <3>2
  <2>2. \A i \in DOMAIN r.heap[d].waiters : \E j \in DOMAIN h[d].waiters : r.heap[d].waiters[i] = h[d].waiters[j]
    BY <1>4, <1>7, <1>8 DEF ws
  <2>3. QED
    BY <1>2, <1>7, <1>8, <1>9, <2>1, <2>2 DEF ServedOne

Serving == [heap : Heaps, out : [Thread -> Served], dead : BOOLEAN]

\* From h to h2 the proxy-data c of p got some of the m counts: a proxy-data that
\* changed lost some, since Scheme reads a quarter of what arrived.
Lessens(h, h2, c, p, m) ==
  /\ Positive(h2[c].count) + Total(WaitingAt(h, p)) <= Positive(h[c].count) + m + Total(WaitingAt(h2, p))
  /\ \/ h2[c] = h[c]
     \/ Positive(h2[c].count) + Total(WaitingAt(h, p)) < Positive(h[c].count) + m + Total(WaitingAt(h2, p))

\* r is what became of the heap h and the threads o when the first n of the bad proxies
\* were looked at.
ServedTo(h, o, low, r, n) ==
  /\ r \in Serving
  /\ \A c \in Cell :
       /\ r.heap[c].proxy = h[c].proxy /\ r.heap[c].self = h[c].self
       /\ (\A i \in 1 .. n : low[i].data # c) => r.heap[c] = h[c]
       /\ \A i \in DOMAIN r.heap[c].waiters : \E j \in DOMAIN h[c].waiters : r.heap[c].waiters[i] = h[c].waiters[j]
       /\ \A t \in Thread : PlacesIn(r.heap, c, t) <= PlacesIn(h, c, t)
  /\ \A t \in Thread : /\ r.out[t] = [o[t] EXCEPT !.count = r.out[t].count]
                       /\ r.out[t].count + Total(PlacesAt(h, t)) = o[t].count + Total(PlacesAt(r.heap, t))
  /\ \A p \in Proxy, c \in Cell :
       h[c].proxy = p /\ (\A i \in 1 .. Len(low) : h[low[i].data].proxy = p => low[i].data = c)
         => Lessens(h, r.heap, c, p, LowSum(h, SubSeq(low, 1, n), p))

\* One pair after the others.
LEMMA ServeCompose ==
  ASSUME NEW h \in Heaps, NEW o \in [Thread -> Served], NEW low \in Seq(Bad), NEW n \in 1 .. Len(low),
         NEW e, ServedTo(h, o, low, e, n - 1), NEW r \in Serving,
         ServedOne(e.heap, r.heap, e.out, r.out, low[n].data, low[n].more)
  PROVE  ServedTo(h, o, low, r, n)
<1> DEFINE d == low[n].data
           m == low[n].more
           g == e.heap
           k == r.heap
<1>1. /\ d \in Cell /\ m \in Nat /\ m >= 1 /\ low[n] \in Bad /\ n \in 1 .. n
      /\ \A i \in 1 .. n - 1 : i \in 1 .. n
  <2>1. low[n] \in Bad
    BY ListElements
  <2>2. QED
    BY <2>1 DEF Bad
<1>2. g \in Heaps /\ k \in Heaps /\ e.out \in [Thread -> Served] /\ r.out \in [Thread -> Served]
  BY DEF ServedTo, Serving
<1> HIDE DEF d, m
<1>3. /\ \A c \in Cell : c # d => k[c] = g[c]
      /\ k[d].proxy = g[d].proxy /\ k[d].self = g[d].self
      /\ \A i \in DOMAIN k[d].waiters : \E j \in DOMAIN g[d].waiters : k[d].waiters[i] = g[d].waiters[j]
      /\ \A t \in Thread : /\ PlacesIn(k, d, t) <= PlacesIn(g, d, t)
                           /\ r.out[t] = [e.out[t] EXCEPT !.count = r.out[t].count]
                           /\ r.out[t].count + PlacesIn(g, d, t) = e.out[t].count + PlacesIn(k, d, t)
  BY DEF ServedOne, d, m
<1>4. PICK v \in 0 .. m - 1 : \E u \in 0 .. v : k[d].count = v - u /\ Len(k[d].waiters) + u = Len(g[d].waiters)
  BY DEF ServedOne, d, m
<1>5. \A c \in Cell :
        /\ g[c].proxy = h[c].proxy /\ g[c].self = h[c].self
        /\ (\A i \in 1 .. n - 1 : low[i].data # c) => g[c] = h[c]
        /\ \A i \in DOMAIN g[c].waiters : \E j \in DOMAIN h[c].waiters : g[c].waiters[i] = h[c].waiters[j]
        /\ \A t \in Thread : PlacesIn(g, c, t) <= PlacesIn(h, c, t)
  BY DEF ServedTo
<1>6. \A t \in Thread : /\ e.out[t] = [o[t] EXCEPT !.count = e.out[t].count]
                        /\ e.out[t].count + Total(PlacesAt(h, t)) = o[t].count + Total(PlacesAt(g, t))
  BY DEF ServedTo
<1>7. \A p \in Proxy, c \in Cell :
        h[c].proxy = p /\ (\A i \in 1 .. Len(low) : h[low[i].data].proxy = p => low[i].data = c)
          => Lessens(h, g, c, p, LowSum(h, SubSeq(low, 1, n - 1), p))
  BY DEF ServedTo
<1> HIDE DEF g, k
<1>8. /\ \A c \in Cell : /\ k[c].count \in Int /\ g[c].count \in Int /\ h[c].count \in Int
                         /\ k[c].waiters \in Seq(Thread) /\ g[c].waiters \in Seq(Thread)
                         /\ Len(k[c].waiters) \in Nat /\ Len(g[c].waiters) \in Nat
      /\ \A t \in Thread : o[t].count \in Int /\ e.out[t].count \in Int /\ r.out[t].count \in Int
  <2>1. \A c \in Cell : /\ k[c].count \in Int /\ g[c].count \in Int /\ h[c].count \in Int
                         /\ k[c].waiters \in Seq(Thread) /\ g[c].waiters \in Seq(Thread)
    BY <1>2 DEF Heaps, ProxyData
  <2>2. \A t \in Thread : o[t].count \in Int /\ e.out[t].count \in Int /\ r.out[t].count \in Int
    BY <1>2 DEF Served
  <2>3. QED
    BY <2>1, <2>2
<1>9. ASSUME NEW c \in Cell
      PROVE  /\ k[c].proxy = h[c].proxy /\ k[c].self = h[c].self
             /\ (\A i \in 1 .. n : low[i].data # c) => k[c] = h[c]
             /\ \A i \in DOMAIN k[c].waiters : \E j \in DOMAIN h[c].waiters : k[c].waiters[i] = h[c].waiters[j]
             /\ \A t \in Thread : PlacesIn(k, c, t) <= PlacesIn(h, c, t)
  <2>1. CASE c # d
    <3>1. k[c] = g[c]
      BY <1>3, <2>1
    <3>2. \A t \in Thread : PlacesIn(k, c, t) = PlacesIn(g, c, t)
      BY <3>1 DEF PlacesIn
    <3>3. (\A i \in 1 .. n : low[i].data # c) => \A i \in 1 .. n - 1 : low[i].data # c
      BY <1>1
    <3>4. QED
      BY <1>5, <3>1, <3>2, <3>3
  <2>2. CASE c = d
    <3>1. ~(\A i \in 1 .. n : low[i].data # c)
      BY <1>1, <2>2 DEF d
    <3>3. ASSUME NEW t \in Thread PROVE PlacesIn(k, c, t) <= PlacesIn(h, c, t)
      <4>1. PlacesIn(k, c, t) <= PlacesIn(g, c, t) /\ PlacesIn(g, c, t) <= PlacesIn(h, c, t)
        BY <1>3, <1>5, <2>2
      <4>2. PlacesIn(k, c, t) \in Nat /\ PlacesIn(g, c, t) \in Nat /\ PlacesIn(h, c, t) \in Nat
        BY <1>2, PlacesAre
      <4>3. QED
        BY <4>1, <4>2
    <3>4. \A i \in DOMAIN k[c].waiters : \E j \in DOMAIN h[c].waiters : k[c].waiters[i] = h[c].waiters[j]
      BY <1>3, <1>5, <2>2
    <3>5. QED
      BY <1>3, <1>5, <2>2, <3>1, <3>3, <3>4
  <2>3. QED
    BY <2>1, <2>2
<1>10. ASSUME NEW t \in Thread
       PROVE  /\ r.out[t] = [o[t] EXCEPT !.count = r.out[t].count]
              /\ r.out[t].count + Total(PlacesAt(h, t)) = o[t].count + Total(PlacesAt(k, t))
  <2>1. Total(PlacesAt(k, t)) + PlacesIn(g, d, t) = Total(PlacesAt(g, t)) + PlacesIn(k, d, t)
    <3>1. \A c \in Cell : c # d => k[c].waiters = g[c].waiters
      BY <1>3
    <3>2. QED
      BY <1>1, <1>2, <3>1, PlacesChange
  <2>2. /\ Total(PlacesAt(k, t)) \in Nat /\ Total(PlacesAt(g, t)) \in Nat /\ Total(PlacesAt(h, t)) \in Nat
    BY <1>2, PlacesNat
  <2>3. PlacesIn(g, d, t) \in Nat /\ PlacesIn(k, d, t) \in Nat
    BY <1>1, <1>2, PlacesAre
  <2>4. r.out[t].count + Total(PlacesAt(h, t)) = o[t].count + Total(PlacesAt(k, t))
    <3> DEFINE TH == Total(PlacesAt(h, t))
               TG == Total(PlacesAt(g, t))
               TK == Total(PlacesAt(k, t))
               PG == PlacesIn(g, d, t)
               PK == PlacesIn(k, d, t)
               x == o[t].count
               y == e.out[t].count
               z == r.out[t].count
    <3>1. /\ z + PG = y + PK /\ y + TH = x + TG /\ TK + PG = TG + PK
          /\ TH \in Nat /\ TG \in Nat /\ TK \in Nat /\ PG \in Nat /\ PK \in Nat
          /\ x \in Int /\ y \in Int /\ z \in Int
      BY <1>3, <1>6, <1>8, <2>1, <2>2, <2>3
    <3> HIDE DEF TH, TG, TK, PG, PK, x, y, z
    <3>2. z + TH = x + TK
      BY <3>1
    <3>3. QED
      BY <3>2 DEF TH, TK, x, z
  <2>5. r.out[t] = [o[t] EXCEPT !.count = r.out[t].count]
    <3> DEFINE x == o[t]
               y == e.out[t]
               z == r.out[t]
    <3>1. x \in Served /\ y = [x EXCEPT !.count = y.count] /\ z = [y EXCEPT !.count = z.count] /\ y \in Served
      BY <1>2, <1>3, <1>6
    <3> HIDE DEF x, y, z
    <3>2. z = [x EXCEPT !.count = z.count]
      BY <3>1 DEF Served
    <3>3. QED
      BY <3>2 DEF x, y, z
  <2>6. QED
    BY <2>4, <2>5
<1>11. ASSUME NEW p \in Proxy, NEW c \in Cell, h[c].proxy = p,
              \A i \in 1 .. Len(low) : h[low[i].data].proxy = p => low[i].data = c
       PROVE  Lessens(h, k, c, p, LowSum(h, SubSeq(low, 1, n), p))
  <2> DEFINE W0 == Total(WaitingAt(h, p))
             W1 == Total(WaitingAt(g, p))
             W2 == Total(WaitingAt(k, p))
             S1 == LowSum(h, SubSeq(low, 1, n - 1), p)
             S2 == LowSum(h, SubSeq(low, 1, n), p)
             K0 == Positive(h[c].count)
             K1 == Positive(g[c].count)
             K2 == Positive(k[c].count)
  <2>1. K1 + W0 <= K0 + S1 + W1 /\ (g[c] = h[c] \/ K1 + W0 < K0 + S1 + W1)
    BY <1>7, <1>11 DEF Lessens
  <2>2. S2 = S1 + (IF h[d].proxy = p THEN m ELSE 0) /\ S1 \in Nat
    <3>1. /\ SubSeq(low, 1, n) = Append(SubSeq(low, 1, n - 1), low[n])
          /\ SubSeq(low, 1, n - 1) \in Seq(Bad)
      BY Prefixes
    <3> DEFINE xs == SubSeq(low, 1, n - 1)
               x == low[n]
    <3>2. xs \in Seq(Bad) /\ x \in Bad
      BY <1>1, <3>1
    <3> HIDE DEF xs, x
    <3>3. /\ LowSum(h, Append(xs, x), p) = LowSum(h, xs, p) + IF h[x.data].proxy = p THEN x.more ELSE 0
          /\ LowSum(h, xs, p) \in Nat
      BY <3>2, LowAppended
    <3>4. QED
      BY <3>1, <3>3 DEF xs, x, d, m
  <2>3. /\ W0 \in Nat /\ W1 \in Nat /\ W2 \in Nat
        /\ W2 + WaitingAt(g, p)[d] = W1 + WaitingAt(k, p)[d]
    <3>1. \A y \in Cell \ {d} : k[y].proxy = g[y].proxy /\ k[y].waiters = g[y].waiters
      BY <1>3
    <3>2. W2 + WaitingAt(g, p)[d] = W1 + WaitingAt(k, p)[d]
      BY <1>1, <1>2, <3>1, WaitingChange
    <3>3. QED
      BY <1>2, <3>2, WaitingNat
  <2>4. /\ WaitingAt(g, p)[d] = IF h[d].proxy = p THEN Len(g[d].waiters) ELSE 0
        /\ WaitingAt(k, p)[d] = IF h[d].proxy = p THEN Len(k[d].waiters) ELSE 0
    BY <1>1, <1>3, <1>5 DEF WaitingAt
  <2>5. K0 \in Nat /\ K1 \in Nat /\ K2 \in Nat
    BY <1>8 DEF Positive
  <2>6. CASE h[d].proxy = p
    <3>1. c = d
      BY <1>1, <1>11, <2>6 DEF d
    <3>2. PICK u \in 0 .. v : k[d].count = v - u /\ Len(k[d].waiters) + u = Len(g[d].waiters)
      BY <1>4
    <3>3. /\ K2 = v - u /\ Len(k[d].waiters) \in Nat /\ Len(g[d].waiters) \in Nat
          /\ v \in Nat /\ v < m /\ u \in Nat /\ u <= v
      BY <1>1, <1>8, <3>1, <3>2 DEF Positive
    <3>4. S2 = S1 + m /\ W2 + Len(g[d].waiters) = W1 + Len(k[d].waiters)
      BY <2>2, <2>3, <2>4, <2>6
    <3> HIDE DEF W0, W1, W2, S1, S2, K0, K1, K2
    <3>5. QED
      <4>1. K2 + W0 < K0 + S2 + W2
        <5> DEFINE A == Len(g[d].waiters)
                   B == Len(k[d].waiters)
        <5>1. /\ K2 = v - u /\ B + u = A /\ S2 = S1 + m /\ W2 + A = W1 + B
              /\ A \in Nat /\ B \in Nat /\ v \in Nat /\ v < m /\ u \in Nat /\ m \in Nat
              /\ K0 \in Nat /\ K1 \in Nat /\ S1 \in Nat /\ W0 \in Nat /\ W1 \in Nat /\ W2 \in Nat
              /\ K1 + W0 <= K0 + S1 + W1
          BY <1>1, <2>1, <2>2, <2>3, <2>5, <3>2, <3>3, <3>4
        <5> HIDE DEF A, B
        <5>2. W0 <= K0 + S1 + W1 /\ W1 = W2 + u
          BY <5>1
        <5>3. QED
          BY <5>1, <5>2
      <4>2. K2 + W0 <= K0 + S2 + W2
        BY <1>1, <2>2, <2>3, <2>5, <3>4, <4>1
      <4>3. QED
        BY <4>1, <4>2 DEF Lessens, W0, W2, S2, K0, K2
  <2>7. CASE h[d].proxy # p
    <3>1. K2 = K1 /\ k[c] = g[c]
      BY <1>3, <1>11, <2>7
    <3>2. S2 = S1 /\ W2 = W1
      BY <2>2, <2>3, <2>4, <2>7
    <3> HIDE DEF W0, W1, W2, S1, S2, K0, K1, K2
    <3>3. K2 + W0 <= K0 + S2 + W2 /\ (k[c] = h[c] \/ K2 + W0 < K0 + S2 + W2)
      BY <2>1, <3>1, <3>2
    <3>4. QED
      BY <3>3 DEF Lessens, W0, W2, S2, K0, K2
  <2>8. QED
    BY <2>6, <2>7
<1>12. QED
  <2>1. \A c \in Cell :
          /\ k[c].proxy = h[c].proxy /\ k[c].self = h[c].self
          /\ (\A i \in 1 .. n : low[i].data # c) => k[c] = h[c]
          /\ \A i \in DOMAIN k[c].waiters : \E j \in DOMAIN h[c].waiters : k[c].waiters[i] = h[c].waiters[j]
          /\ \A t \in Thread : PlacesIn(k, c, t) <= PlacesIn(h, c, t)
    BY <1>9
  <2>2. \A p \in Proxy, c \in Cell :
          h[c].proxy = p /\ (\A i \in 1 .. Len(low) : h[low[i].data].proxy = p => low[i].data = c)
            => Lessens(h, k, c, p, LowSum(h, SubSeq(low, 1, n), p))
    BY <1>11
  <2>3. \A t \in Thread : /\ r.out[t] = [o[t] EXCEPT !.count = r.out[t].count]
                          /\ r.out[t].count + Total(PlacesAt(h, t)) = o[t].count + Total(PlacesAt(k, t))
    BY <1>10
  <2>4. QED
    BY <2>1, <2>2, <2>3 DEF ServedTo, k

\* Nothing happens after the failure.
LEMMA ServeNothing ==
  ASSUME NEW h \in Heaps, NEW o \in [Thread -> Served], NEW low \in Seq(Bad), NEW n \in 1 .. Len(low),
         NEW e, ServedTo(h, o, low, e, n - 1), NEW r \in Serving, r.heap = e.heap, r.out = e.out
  PROVE  ServedTo(h, o, low, r, n)
<1> DEFINE g == e.heap
<1>1. /\ n \in 1 .. n /\ \A i \in 1 .. n - 1 : i \in 1 .. n
      /\ low[n] \in Bad /\ g \in Heaps
  <2>1. low[n] \in Bad
    BY ListElements
  <2>2. QED
    BY <2>1 DEF ServedTo, Serving
<1>2. \A c \in Cell :
        /\ g[c].proxy = h[c].proxy /\ g[c].self = h[c].self
        /\ (\A i \in 1 .. n : low[i].data # c) => g[c] = h[c]
        /\ \A i \in DOMAIN g[c].waiters : \E j \in DOMAIN h[c].waiters : g[c].waiters[i] = h[c].waiters[j]
        /\ \A t \in Thread : PlacesIn(g, c, t) <= PlacesIn(h, c, t)
  BY <1>1 DEF ServedTo
<1>3. \A t \in Thread : /\ r.out[t] = [o[t] EXCEPT !.count = r.out[t].count]
                        /\ r.out[t].count + Total(PlacesAt(h, t)) = o[t].count + Total(PlacesAt(g, t))
  BY DEF ServedTo
<1>4. ASSUME NEW p \in Proxy, NEW c \in Cell, h[c].proxy = p,
             \A i \in 1 .. Len(low) : h[low[i].data].proxy = p => low[i].data = c
      PROVE  Lessens(h, g, c, p, LowSum(h, SubSeq(low, 1, n), p))
  <2> DEFINE W0 == Total(WaitingAt(h, p))
             W1 == Total(WaitingAt(g, p))
             S1 == LowSum(h, SubSeq(low, 1, n - 1), p)
             S2 == LowSum(h, SubSeq(low, 1, n), p)
             K0 == Positive(h[c].count)
             K1 == Positive(g[c].count)
  <2>1. K1 + W0 <= K0 + S1 + W1 /\ (g[c] = h[c] \/ K1 + W0 < K0 + S1 + W1)
    BY <1>4 DEF ServedTo, Lessens
  <2>2. S1 <= S2 /\ S1 \in Nat /\ S2 \in Nat
    <3>1. /\ SubSeq(low, 1, n) = Append(SubSeq(low, 1, n - 1), low[n])
          /\ SubSeq(low, 1, n - 1) \in Seq(Bad)
      BY Prefixes
    <3> DEFINE xs == SubSeq(low, 1, n - 1)
               x == low[n]
    <3>2. xs \in Seq(Bad) /\ x \in Bad
      BY <1>1, <3>1
    <3> HIDE DEF xs, x
    <3>3. /\ LowSum(h, Append(xs, x), p) = LowSum(h, xs, p) + IF h[x.data].proxy = p THEN x.more ELSE 0
          /\ LowSum(h, xs, p) \in Nat
      BY <3>2, LowAppended
    <3>4. x.more \in Nat
      BY <3>2 DEF Bad
    <3> DEFINE A == LowSum(h, Append(xs, x), p)
               B == LowSum(h, xs, p)
    <3>5. (A = B + x.more \/ A = B + 0) /\ B \in Nat
      BY <3>3
    <3> HIDE DEF A, B
    <3>6. B <= A /\ B \in Nat /\ A \in Nat
      BY <3>4, <3>5
    <3>7. S1 = B /\ S2 = A
      BY <3>1 DEF xs, x, A, B
    <3>8. QED
      BY <3>6, <3>7
  <2>3. W0 \in Nat /\ W1 \in Nat
    BY <1>1, WaitingNat
  <2>4. K0 \in Nat /\ K1 \in Nat
    <3>1. g[c].count \in Int /\ h[c].count \in Int
      BY <1>1 DEF Heaps, ProxyData
    <3>2. QED
      BY <3>1 DEF Positive
  <2> HIDE DEF W0, W1, S1, S2, K0, K1
  <2>5. K1 + W0 <= K0 + S2 + W1 /\ (g[c] = h[c] \/ K1 + W0 < K0 + S2 + W1)
    BY <2>1, <2>2, <2>3, <2>4
  <2>6. QED
    BY <2>5 DEF Lessens, W0, W1, S2, K0, K1
<1>5. QED
  <2>1. \A p \in Proxy, c \in Cell :
          h[c].proxy = p /\ (\A i \in 1 .. Len(low) : h[low[i].data].proxy = p => low[i].data = c)
            => Lessens(h, g, c, p, LowSum(h, SubSeq(low, 1, n), p))
    BY <1>4
  <2>2. g = r.heap
    OBVIOUS
  <2> HIDE DEF g
  <2>3. QED
    BY <1>2, <1>3, <2>1, <2>2 DEF ServedTo

\* One step of the fold.
LEMMA ServeStep ==
  ASSUME NEW h \in Heaps, NEW o \in [Thread -> Served], NEW low \in Seq(Bad), NEW n \in 1 .. Len(low),
         NEW e, ServedTo(h, o, low, e, n - 1)
  PROVE  ServedTo(h, o, low, CheckProxyWaiters(e, low[n]), n)
<1> DEFINE pair == low[n]
           r == CheckProxyWaiters(e, pair)
<1>1. /\ pair \in Bad /\ e \in Serving /\ e.heap \in Heaps /\ e.out \in [Thread -> Served]
  <2>1. pair \in Bad
    BY ListElements
  <2>2. QED
    BY <2>1 DEF ServedTo, Serving
<1>2. pair.data \in Cell /\ pair.more \in Nat \ {0}
  BY <1>1 DEF Bad
<1> DEFINE data == e.heap[pair.data]
           fails == IF data.waiters = <<>> THEN data.asked ELSE TagOf(pair.more) # 0
<1>3. CASE e.dead \/ fails
  <2>1. r = [e EXCEPT !.dead = TRUE]
    BY <1>3 DEF CheckProxyWaiters
  <2>2. r = [heap |-> e.heap, out |-> e.out, dead |-> TRUE]
    BY <1>1, <2>1 DEF Serving
  <2>3. r \in Serving /\ r.heap = e.heap /\ r.out = e.out
    BY <1>1, <2>2 DEF Serving
  <2> HIDE DEF r
  <2>4. ServedTo(h, o, low, r, n)
    BY <2>3, ServeNothing
  <2>5. QED
    BY <2>4 DEF r
<1>4. CASE ~(e.dead \/ fails)
  <2>1. r = ServeWaiters(e, pair, Unserved(e, pair))
    BY <1>4 DEF CheckProxyWaiters
  <2>2. r = [heap |-> r.heap, out |-> r.out, dead |-> FALSE] /\ r.out = [t \in Thread |-> r.out[t]]
    <3> DEFINE ws == Unserved(e, pair)
    <3> HIDE DEF ws
    <3>1. r = ServeWaiters(e, pair, ws)
      BY <2>1 DEF ws
    <3> HIDE DEF r
    <3>2. /\ r = [heap |-> r.heap, out |-> r.out, dead |-> FALSE]
          /\ \E g : r.out = [t \in Thread |-> g[t]]
      <4> DEFINE Left(t) == [e.out[t] EXCEPT !.count = @ - Cardinality({i \in 1 .. Used(e, pair) : e.heap[pair.data].waiters[i] = t})]
                 g == [t \in Thread |-> Left(t)]
                 h2 == [e.heap EXCEPT ![pair.data].count = NumberOf(pair.more) - Used(e, pair),
                                      ![pair.data].tag = TagOf(pair.more),
                                      ![pair.data].waiters = ws, ![pair.data].asked = TRUE]
      <4>1. r = [heap |-> h2, out |-> g, dead |-> FALSE]
        BY <3>1 DEF ServeWaiters
      <4>2. g = [t \in Thread |-> g[t]]
        OBVIOUS
      <4> HIDE DEF g, h2
      <4>3. QED
        BY <4>1, <4>2
    <3>3. QED
      BY <3>2
  <2> HIDE DEF r
  <2>3. ServedOne(e.heap, r.heap, e.out, r.out, pair.data, pair.more)
    <3> DEFINE g == e.heap
               q == e.out
               d == pair.data
               m == pair.more
    <3>1. /\ g \in Heaps /\ \A t \in Thread : q[t] \in Served
      BY <1>1
    <3>2. d \in Cell /\ m \in Nat \ {0} /\ e.heap = g /\ e.out = q /\ pair.data = d /\ pair.more = m
      BY <1>2
    <3>3. r = ServeWaiters(e, pair, Unserved(e, pair))
      BY <2>1
    <3> HIDE DEF g, q, d, m, pair
    <3>4. ServedOne(g, r.heap, q, r.out, d, m)
      BY <3>1, <3>2, <3>3, Serves
    <3>5. QED
      BY <3>2, <3>4
  <2>4. r \in Serving
    <3>1. r.heap \in Heaps /\ \A t \in Thread : r.out[t] \in Served
      BY <2>3 DEF ServedOne
    <3>2. r.out \in [Thread -> Served]
      BY <2>2, <3>1
    <3> DEFINE g == r.heap
               q == r.out
    <3>3. r = [heap |-> g, out |-> q, dead |-> FALSE] /\ g \in Heaps /\ q \in [Thread -> Served]
      BY <2>2, <3>1, <3>2
    <3> HIDE DEF g, q
    <3>4. QED
      BY <3>3 DEF Serving
  <2>5. ServedTo(h, o, low, r, n)
    BY <2>3, <2>4, ServeCompose
  <2>6. QED
    BY <2>5 DEF r
<1>5. QED
  BY <1>3, <1>4

\* Before the first pair.
LEMMA ServeStart ==
  ASSUME NEW h \in Heaps, NEW o \in [Thread -> Served], NEW low \in Seq(Bad)
  PROVE  ServedTo(h, o, low, [heap |-> h, out |-> o, dead |-> FALSE], 0)
<1> DEFINE r == [heap |-> h, out |-> o, dead |-> FALSE]
<1>1. r \in Serving /\ r.heap = h /\ r.out = o
  BY DEF Serving
<1> HIDE DEF r
<1>2. ASSUME NEW c \in Cell, NEW t \in Thread PROVE PlacesIn(h, c, t) <= PlacesIn(h, c, t)
  <2>1. PlacesIn(h, c, t) \in Nat
    BY PlacesAre
  <2>2. QED
    BY <2>1
<1>3. \A t \in Thread : o[t] = [o[t] EXCEPT !.count = o[t].count]
  BY DEF Served
<1>4. ASSUME NEW p \in Proxy, NEW c \in Cell
      PROVE  Lessens(h, h, c, p, LowSum(h, SubSeq(low, 1, 0), p))
  <2>1. LowSum(h, SubSeq(low, 1, 0), p) = 0
    <3>1. SubSeq(low, 1, 0) = <<>>
      BY Prefixes
    <3>2. QED
      BY <3>1, LowOfEmpty
  <2>2. Total(WaitingAt(h, p)) \in Nat
    BY WaitingNat
  <2>3. h[c].count \in Int
    BY DEF Heaps, ProxyData
  <2>4. QED
    BY <2>1, <2>2, <2>3 DEF Positive, Lessens
<1>5. ServedTo(h, o, low, r, 0)
  <2>1. \A p \in Proxy, c \in Cell :
          h[c].proxy = p /\ (\A i \in 1 .. Len(low) : h[low[i].data].proxy = p => low[i].data = c)
            => Lessens(h, h, c, p, LowSum(h, SubSeq(low, 1, 0), p))
    BY <1>4
  <2>2. \A c \in Cell :
       /\ h[c].proxy = h[c].proxy /\ h[c].self = h[c].self
       /\ \A i \in DOMAIN h[c].waiters : \E j \in DOMAIN h[c].waiters : h[c].waiters[i] = h[c].waiters[j]
       /\ \A t \in Thread : PlacesIn(h, c, t) <= PlacesIn(h, c, t)
    BY <1>2
  <2>3. QED
    BY <1>1, <1>3, <2>1, <2>2 DEF ServedTo
<1>6. QED
  BY <1>5 DEF r

Releases(h, o, low) == Fold(CheckProxyWaiters, [heap |-> h, out |-> o, dead |-> FALSE], low)

\* The whole fold.
LEMMA ReleaseFold ==
  ASSUME NEW h \in Heaps, NEW o \in [Thread -> Served], NEW low \in Seq(Bad)
  PROVE  ServedTo(h, o, low, Releases(h, o, low), Len(low))
<1> DEFINE N == Len(low)
           start == [heap |-> h, out |-> o, dead |-> FALSE]
           X == [n \in 0 .. N |-> {e \in Serving : ServedTo(h, o, low, e, n)}]
           G == [n \in 1 .. N |-> [e \in X[n - 1] |-> CheckProxyWaiters(e, low[n])]]
           Solves(f) == f = [n \in 0 .. N |-> IF n = 0 THEN start ELSE CheckProxyWaiters(f[n - 1], low[n])]
<1>1. N \in Nat
  BY ListElements
<1>2. start \in X[0]
  <2>1. ServedTo(h, o, low, start, 0)
    BY ServeStart
  <2>2. start \in Serving
    BY <2>1 DEF ServedTo
  <2>3. QED
    BY <1>1, <2>1, <2>2
<1>3. ASSUME NEW n \in 1 .. N, NEW e \in X[n - 1]
      PROVE  CheckProxyWaiters(e, low[n]) \in X[n] /\ G[n][e] = CheckProxyWaiters(e, low[n])
  <2>1. ServedTo(h, o, low, e, n - 1)
    OBVIOUS
  <2>2. n \in 1 .. Len(low)
    OBVIOUS
  <2>3. ServedTo(h, o, low, CheckProxyWaiters(e, low[n]), n)
    BY <2>1, <2>2, ServeStep
  <2>4. CheckProxyWaiters(e, low[n]) \in Serving
    BY <2>3 DEF ServedTo
  <2>5. QED
    BY <2>3, <2>4
<1> HIDE DEF N, X, G, start
<1>4. \A n \in 1 .. N : \A e \in X[n - 1] : G[n][e] \in X[n]
  BY <1>3
<1> DEFINE f == Iterates(N, X, start, G)
<1>5. /\ f[0] = start /\ \A n \in 1 .. N : f[n] = G[n][f[n - 1]]
      /\ \A n \in 0 .. N : f[n] \in X[n]
  BY <1>1, <1>2, <1>4, Recursion
<1> HIDE DEF f
<1>6. ASSUME NEW n \in 1 .. N PROVE f[n] = CheckProxyWaiters(f[n - 1], low[n])
  <2>1. n - 1 \in 0 .. N
    BY <1>1
  <2>2. f[n - 1] \in X[n - 1] /\ f[n] = G[n][f[n - 1]]
    BY <1>5, <2>1
  <2>3. QED
    BY <1>3, <2>2
<1> DEFINE e == [n \in 0 .. N |-> f[n]]
<1>7. Solves(e)
  <2>1. e[0] = start /\ \A n \in 1 .. N : e[n] = f[n] /\ e[n - 1] = f[n - 1]
    BY <1>1, <1>5
  <2>2. \A n \in 0 .. N : e[n] = IF n = 0 THEN start ELSE CheckProxyWaiters(e[n - 1], low[n])
    BY <1>1, <1>6, <2>1
  <2>3. QED
    BY <2>2
<1> DEFINE g == CHOOSE g : Solves(g)
<1>8. Solves(g)
  <2>1. \E x : Solves(x)
    BY <1>7
  <2>2. QED
    BY <2>1
<1>9. Releases(h, o, low) = g[N]
  BY DEF Releases, Fold, start, N
<1> HIDE DEF g
<1>10. g[0] = start /\ \A n \in 1 .. N : g[n] = CheckProxyWaiters(g[n - 1], low[n])
  BY <1>1, <1>8
<1>11. \A n \in 1 .. N : g[n - 1] \in X[n - 1] => g[n] \in X[n]
  BY <1>3, <1>10
<1>12. g[N] \in X[N]
  <2>1. g[0] \in X[0]
    BY <1>2, <1>10
  <2>2. \A n \in 0 .. N : g[n] \in X[n]
    BY <1>1, <1>11, <2>1, RecursionStays
  <2>3. QED
    BY <1>1, <2>2
<1>13. QED
  BY <1>1, <1>9, <1>12 DEF X, N

\* The blocked senders are what the fold works on.
LEMMA OutsServed ==
  ASSUME NEW o \in Outs
  PROVE  o \in [Thread -> Served]
<1>1. \A x \in Blocked : x \in Served
  BY DEF Blocked, Served
<1>2. QED
  BY <1>1 DEF Outs

\* The threads whose last count arrived are woken.
Awakened(o, q, dead) ==
  [t \in Thread |-> IF o[t].stage = "waiting" /\ q[t].count = 0 /\ ~dead THEN [q[t] EXCEPT !.stage = "ready"]
                    ELSE q[t]]
Awoke(h, h2, o, o2) ==
  /\ o2 \in Outs
  /\ \A t \in Thread : o2[t].body = o[t].body /\ o2[t].losers = o[t].losers
  /\ \A t \in Thread : ThreadSound(h2, o2, t)
  /\ WaitersSound(h2, o2)
  /\ \A t \in Thread : \A p : LosingIn(h2, o2, t, p) = LosingIn(h, o, t, p)

\* After the fold, the senders that wait for nothing are released.
LEMMA AwakenedAre ==
  ASSUME NEW h \in Heaps, NEW o \in Outs, NEW low, NEW n, NEW r, ServedTo(h, o, low, r, n),
         \A t \in Thread : ThreadSound(h, o, t), WaitersSound(h, o)
  PROVE  Awoke(h, r.heap, o, Awakened(o, r.out, r.dead))
<1> DEFINE g == r.heap
           q == r.out
           o2 == Awakened(o, q, r.dead)
           Woken(t) == o[t].stage = "waiting" /\ q[t].count = 0 /\ ~r.dead
<1>1. /\ g \in Heaps /\ q \in [Thread -> Served] /\ o \in [Thread -> Served]
      /\ \A c \in Cell :
           /\ g[c].proxy = h[c].proxy
           /\ \A i \in DOMAIN g[c].waiters : \E j \in DOMAIN h[c].waiters : g[c].waiters[i] = h[c].waiters[j]
           /\ \A t \in Thread : PlacesIn(g, c, t) <= PlacesIn(h, c, t)
      /\ \A t \in Thread : /\ q[t] = [o[t] EXCEPT !.count = q[t].count]
                           /\ q[t].count + Total(PlacesAt(h, t)) = o[t].count + Total(PlacesAt(g, t))
  <2>1. r \in Serving
    BY DEF ServedTo
  <2>2. QED
    BY <2>1, OutsServed DEF ServedTo, Serving
<1> HIDE DEF g, q
<1>2. \A t \in Thread : /\ Total(PlacesAt(h, t)) \in Nat /\ Total(PlacesAt(g, t)) \in Nat
                        /\ \A p : Total(PlacesFor(h, t, p)) \in Nat /\ Total(PlacesFor(g, t, p)) \in Nat
                        /\ \A c \in Cell : PlacesIn(h, c, t) \in Nat /\ PlacesIn(g, c, t) \in Nat
  BY <1>1, PlacesNat
<1>3. \A t \in Thread : /\ q[t].stage = o[t].stage /\ q[t].from = o[t].from /\ q[t].to = o[t].to
                        /\ q[t].body = o[t].body /\ q[t].losers = o[t].losers
                        /\ o[t] \in Blocked /\ q[t].count \in Int
  <2> SUFFICES ASSUME NEW t \in Thread
               PROVE  /\ q[t].stage = o[t].stage /\ q[t].from = o[t].from /\ q[t].to = o[t].to
                      /\ q[t].body = o[t].body /\ q[t].losers = o[t].losers
                      /\ o[t] \in Blocked /\ q[t].count \in Int
    OBVIOUS
  <2> DEFINE x == o[t]
             y == q[t]
             k == q[t].count
  <2>1. x \in Served /\ y \in Served /\ y = [x EXCEPT !.count = k] /\ x \in Blocked
    BY <1>1 DEF Outs
  <2>2. k \in Int
    BY <2>1 DEF Served
  <2> HIDE DEF x, y, k
  <2>3. /\ y.stage = x.stage /\ y.from = x.from /\ y.to = x.to /\ y.body = x.body /\ y.losers = x.losers
    BY <2>1, <2>2 DEF Served
  <2>4. QED
    BY <2>1, <2>2, <2>3 DEF x, y, k
\* The counts that are still missing.
<1>4. ASSUME NEW t \in Thread
      PROVE  /\ q[t].count \in Nat
             /\ o[t].stage = "waiting" => q[t].count = Total(PlacesAt(g, t))
             /\ o[t].stage # "waiting" => q[t].count = o[t].count
  <2> DEFINE H == Total(PlacesAt(h, t))
             K == Total(PlacesAt(g, t))
  <2>1. H \in Nat /\ K \in Nat /\ q[t].count + H = o[t].count + K /\ q[t].count \in Int /\ o[t].count \in Nat
    BY <1>1, <1>2, <1>3 DEF Blocked
  <2>2. K <= H
    <3> DEFINE F == PlacesAt(g, t)
               G == PlacesAt(h, t)
    <3>0. \A c \in Cell : F[c] = PlacesIn(g, c, t) /\ G[c] = PlacesIn(h, c, t)
      BY DEF PlacesAt
    <3>1. \A c \in Cell : F[c] \in Int /\ G[c] \in Int /\ F[c] <= G[c]
      <4> HIDE DEF F, G
      <4>1. QED
        BY <1>1, <1>2, <3>0
    <3>2. DOMAIN F = Cell /\ DOMAIN G = Cell
      BY DEF PlacesAt
    <3> HIDE DEF F, G
    <3>3. Total(F) <= Total(G)
      BY <3>1, <3>2, FiniteSets, TotalAtMost
    <3>4. QED
      BY <3>3 DEF F, G
  <2>3. CASE o[t].stage = "waiting"
    <3>1. o[t].count = H
      BY <2>3 DEF ThreadSound
    <3> HIDE DEF H, K
    <3>2. q[t].count = K
      BY <2>1, <3>1
    <3>3. QED
      BY <2>1, <2>3, <3>2 DEF K
  <2>4. CASE o[t].stage # "waiting"
    <3>1. H = 0
      BY <2>4, NoPlaces
    <3> HIDE DEF H, K
    <3>2. q[t].count = o[t].count
      BY <2>1, <2>2, <3>1
    <3>3. QED
      BY <2>1, <2>4, <3>2
  <2>5. QED
    BY <2>3, <2>4
<1>5. ASSUME NEW t \in Thread
      PROVE  /\ o2[t] \in Blocked /\ o2[t].body = o[t].body /\ o2[t].losers = o[t].losers
             /\ o2[t].count = q[t].count
             /\ o2[t].stage = IF Woken(t) THEN "ready" ELSE o[t].stage
  <2> DEFINE x == o[t]
             y == q[t]
             z == o2[t]
  <2>1. z = IF Woken(t) THEN [y EXCEPT !.stage = "ready"] ELSE y
    BY DEF Awakened
  <2>2. /\ y \in Served /\ y.count \in Nat /\ x \in Blocked
        /\ y.stage = x.stage /\ y.body = x.body /\ y.losers = x.losers
    BY <1>1, <1>3, <1>4
  <2>3. y \in Blocked
    <3> HIDE DEF y
    <3>1. y = [stage |-> y.stage, from |-> y.from, to |-> y.to, body |-> y.body, losers |-> y.losers, count |-> y.count]
      BY <2>2 DEF Served
    <3>2. /\ y.stage \in {"free", "encoded", "waiting", "ready"} /\ y.from \in Aspace /\ y.to \in Aspace
          /\ y.body \in Body /\ y.losers \in Seq(Cell)
      BY <2>2 DEF Served
    <3>3. QED
      BY <2>2, <3>1, <3>2 DEF Blocked
  <2> HIDE DEF x, y, z
  <2>4. CASE Woken(t)
    <3>1. z = [y EXCEPT !.stage = "ready"]
      BY <2>1, <2>4
    <3>2. z \in Blocked /\ z.stage = "ready" /\ z.body = y.body /\ z.losers = y.losers /\ z.count = y.count
      BY <2>3, <3>1 DEF Blocked
    <3>3. QED
      BY <2>2, <2>4, <3>2 DEF x, y, z
  <2>5. CASE ~Woken(t)
    <3>1. z = y
      BY <2>1, <2>5
    <3>2. QED
      BY <2>2, <2>3, <2>5, <3>1 DEF x, y, z
  <2>6. QED
    BY <2>4, <2>5
<1>6. o2 \in Outs
  <2>1. o2 = [t \in Thread |-> o2[t]]
    BY DEF Awakened
  <2>2. QED
    BY <1>5, <2>1 DEF Outs
<1> HIDE DEF o2
<1>7. \A t \in Thread : o2[t].stage = "encoded" <=> o[t].stage = "encoded"
  BY <1>5
<1>8. ASSUME NEW t \in Thread, NEW p PROVE LosingIn(g, o2, t, p) = LosingIn(h, o, t, p)
  <2>1. \A i \in DOMAIN o[t].losers : o[t].losers[i] \in Cell
    <3>1. o[t].losers \in Seq(Cell)
      BY DEF Outs, Blocked
    <3>2. QED
      BY <3>1, ListElements
  <2>2. LosersIn(g, o[t].losers, p) = LosersIn(h, o[t].losers, p)
    BY <1>1, <2>1, LosersSame
  <2>3. QED
    BY <1>5, <1>7, <2>2 DEF LosingIn
<1>9. ASSUME NEW t \in Thread PROVE ThreadSound(g, o2, t)
  <2>1. ThreadSound(h, o, t)
    OBVIOUS
  <2>2. /\ o2[t].body = o[t].body /\ o2[t].losers = o[t].losers /\ o2[t].count = q[t].count
        /\ o2[t].stage = "free" => o[t].stage = "free"
        /\ o2[t].stage = "encoded" => o[t].stage = "encoded"
        /\ o2[t].stage = "waiting" => o[t].stage = "waiting"
    BY <1>5
  <2>3. \A i \in DOMAIN o[t].losers : g[o[t].losers[i]].proxy \in Proxy
    <3>1. o[t].losers \in Seq(Cell)
      BY DEF Outs, Blocked
    <3>2. \A i \in DOMAIN o[t].losers : o[t].losers[i] \in Cell
      BY <3>1, ListElements
    <3>3. QED
      BY <1>1, <2>1, <3>2 DEF ThreadSound
  <2>4. /\ o2[t].stage = "encoded" => o2[t].count = Len(o2[t].losers)
        /\ o2[t].stage = "waiting" => o2[t].count = Total(PlacesAt(g, t))
    BY <1>4, <2>1, <2>2 DEF ThreadSound
  <2>5. \A p \in Proxy : LosingIn(g, o2, t, p) <= SumOf(o2[t].body, p)
    BY <1>8, <2>1, <2>2 DEF ThreadSound
  <2>6. ASSUME NEW p \in Proxy, o2[t].stage # "encoded"
        PROVE  Total(PlacesFor(g, t, p)) <= SumOf(o2[t].body, p)
    <3> DEFINE F == PlacesFor(g, t, p)
               G == PlacesFor(h, t, p)
    <3>1. \A c \in Cell : F[c] \in Int /\ G[c] \in Int /\ F[c] <= G[c]
      BY <1>1, <1>2 DEF PlacesFor
    <3>2. DOMAIN F = Cell /\ DOMAIN G = Cell
      BY DEF PlacesFor
    <3>3. Total(G) <= SumOf(o[t].body, p)
      BY <1>7, <2>1, <2>6 DEF ThreadSound
    <3>4. Total(G) \in Nat /\ Total(F) \in Nat
      BY <1>2
    <3>5. SumOf(o[t].body, p) \in Nat
      BY <1>3, SumIsNumber DEF Blocked
    <3> HIDE DEF F, G
    <3>6. Total(F) <= Total(G)
      BY <3>1, <3>2, FiniteSets, TotalAtMost
    <3>7. Total(F) <= SumOf(o[t].body, p)
      BY <3>3, <3>4, <3>5, <3>6
    <3>8. QED
      BY <2>2, <3>7 DEF F
  <2>7. /\ o2[t].stage = "free" => o2[t].body = <<>> /\ o2[t].losers = <<>>
        /\ \A i \in DOMAIN o2[t].body : o2[t].body[i][2] >= 1
    BY <2>1, <2>2 DEF ThreadSound
  <2>8. QED
    BY <2>2, <2>3, <2>4, <2>5, <2>6, <2>7 DEF ThreadSound
<1>10. WaitersSound(g, o2)
  <2> SUFFICES ASSUME NEW c \in Cell, NEW i \in DOMAIN g[c].waiters
               PROVE  WaiterSound(o2, g[c].waiters[i], c)
    BY DEF WaitersSound
  <2> DEFINE t == g[c].waiters[i]
  <2>1. t \in Thread
    BY <1>1, PlacesAre
  <2>2. WaiterSound(o, t, c)
    BY <1>1 DEF WaitersSound
  <2>3. ~Woken(t)
    <3>1. PlacesIn(g, c, t) # 0
      <4> DEFINE B == {j \in DOMAIN g[c].waiters : g[c].waiters[j] = t}
      <4>0. i \in B
        OBVIOUS
      <4>1. B # {} /\ IsFiniteSet(B)
        <5> HIDE DEF t
        <5>1. DOMAIN g[c].waiters = 1 .. Len(g[c].waiters) /\ Len(g[c].waiters) \in Nat
          BY <1>1, PlacesAre
        <5>2. B \subseteq DOMAIN g[c].waiters /\ IsFiniteSet(DOMAIN g[c].waiters)
          BY <5>1, FS_Interval
        <5> HIDE DEF B
        <5>3. QED
          BY <4>0, <5>2, FS_Subset
      <4> HIDE DEF B
      <4>2. Cardinality(B) # 0
        BY <4>1, FS_EmptySet
      <4>3. QED
        BY <4>2 DEF PlacesIn, B
    <3> HIDE DEF t
    <3>2. PlacesIn(g, c, t) \in Nat
      BY <1>2, <2>1
    <3> DEFINE F == PlacesAt(g, t)
    <3>3. (\A x \in Cell : F[x] = PlacesIn(g, x, t)) /\ DOMAIN F = Cell
      BY DEF PlacesAt
    <3>9. \A x \in Cell : F[x] \in Int
      BY <1>2, <2>1, <3>3
    <3> HIDE DEF F
    <3>4. Positive(F[c]) <= Total(F) /\ Total(F) \in Nat
      BY <3>3, <3>9, FiniteSets, TotalOfOne
    <3>5. Total(F) # 0
      BY <3>1, <3>2, <3>3, <3>4 DEF Positive
    <3>6. o[t].stage = "waiting"
      BY <2>2 DEF WaiterSound
    <3>7. q[t].count # 0
      BY <1>4, <2>1, <3>5, <3>6 DEF F
    <3>8. QED
      BY <3>7
  <2>4. o2[t].stage = o[t].stage /\ o2[t].losers = o[t].losers
    BY <1>5, <2>1, <2>3
  <2>5. QED
    BY <2>2, <2>4 DEF WaiterSound
<1>11. Awoke(h, g, o, o2)
  BY <1>5, <1>6, <1>8, <1>9, <1>10 DEF Awoke
<1>12. QED
  BY <1>11 DEF g, o2, q

\* The counts on the list low pay what waiters were owed, or go to the vector.
LEMMA ReleaseWaitersKeeps ==
  ASSUME IInv, NEW a \in Aspace, NEW b \in Aspace, ReleaseWaiters(a, b)
  PROVE  IInv'
<1> DEFINE d == disp[a][b]
           low == d.low
           r == Releases(heap, out, low)
           x == IF r.dead THEN Dead ELSE [d EXCEPT !.stage = Adjusting(<<>>, d.high), !.low = <<>>]
           g == r.heap
           S(p) == LowSum(heap, low, p)
<1>1. /\ d.stage = "adjust" /\ heap' = r.heap /\ out' = Awakened(out, r.out, r.dead)
      /\ disp' = Assigned(disp, a, b, x) /\ UNCHANGED <<slot, live, wire, sends>>
  <2>1. disp' = [disp EXCEPT ![a][b] = IF r.dead THEN [Idle EXCEPT !.stage = "dead"]
                                       ELSE [@ EXCEPT !.stage = Adjusting(<<>>, d.high), !.low = <<>>]]
    BY DEF ReleaseWaiters, Releases
  <2>2. disp' = Assigned(disp, a, b, x)
    BY <2>1 DEF Assigned, Dead
  <2>3. QED
    BY <2>2 DEF ReleaseWaiters, Releases, Awakened
<1>2. StateOK(slot, heap, wire, out, disp) /\ live \in [Aspace -> SUBSET Proxy] /\ sends \in [Aspace -> Nat]
  BY TypesAre DEF IInv
<1>3. heap \in Heaps /\ WireOK(wire) /\ disp \in Disps /\ slot \in Slots /\ out \in Outs
      /\ Sound(slot, heap, live, wire, out, disp)
  BY <1>2 DEF StateOK, IInv
<1>4. d \in Dispatcher /\ low \in Seq(Bad) /\ DispatchSound(slot, d, a, b)
  BY <1>3 DEF Disps, Dispatcher, Sound, Bad
<1>5. SlotsSound(slot, heap) /\ HeldSound(slot, heap, live, disp)
      /\ (\A u \in Thread : ThreadSound(heap, out, u)) /\ WaitersSound(heap, out)
  BY <1>3 DEF Sound
<1>6. /\ d.kind = "return" => low = <<>>
      /\ DOMAIN low = 1 .. Len(low) /\ Len(low) \in Nat
      /\ \A i \in DOMAIN low : low[i].data \in Cell /\ \E q \in Proxy : slot[a][q] = low[i].data
  <2>1. d.kind = "return" => low = <<>>
    BY <1>4 DEF DispatchSound
  <2>2. \A i \in DOMAIN low : \E q \in Proxy : slot[a][q] = low[i].data
    BY <1>4 DEF DispatchSound, BadFound
  <2>3. DOMAIN low = 1 .. Len(low) /\ Len(low) \in Nat /\ \A i \in DOMAIN low : low[i].data \in Cell
    BY <1>4, LowAre
  <2>4. QED
    BY <2>1, <2>2, <2>3
\* A bad proxy-data is the one of its proxy.
<1>7. ASSUME NEW i \in DOMAIN low, NEW p \in Proxy, heap[low[i].data].proxy = p
      PROVE  slot[a][p] # 0 /\ low[i].data = slot[a][p]
  <2>1. PICK q \in Proxy : slot[a][q] = low[i].data
    BY <1>6
  <2>2. slot[a][q] # 0
    BY <1>6, <2>1 DEF Cell
  <2>3. heap[slot[a][q]].proxy = q
    BY <1>5, <2>2 DEF SlotsSound
  <2>4. QED
    BY <1>7, <2>1, <2>2, <2>3
<1> HIDE DEF d, low, r, x
<1>8. ServedTo(heap, out, low, r, Len(low))
  <2>1. out \in [Thread -> Served]
    BY <1>3, OutsServed
  <2>2. QED
    BY <1>3, <1>4, <2>1, ReleaseFold DEF r
<1>9. Awoke(heap, g, out, out')
  BY <1>1, <1>3, <1>5, <1>8, AwakenedAre
<1>10. /\ g \in Heaps
       /\ \A c \in Cell :
            /\ g[c].proxy = heap[c].proxy /\ g[c].self = heap[c].self
            /\ (\A i \in 1 .. Len(low) : low[i].data # c) => g[c] = heap[c]
  BY <1>8 DEF ServedTo, Serving
<1>11. ASSUME NEW p \in Proxy, NEW c \in Cell, heap[c].proxy = p,
              \A i \in 1 .. Len(low) : heap[low[i].data].proxy = p => low[i].data = c
       PROVE  Lessens(heap, g, c, p, S(p))
  <2>1. SubSeq(low, 1, Len(low)) = low
    BY <1>4, Prefixes
  <2>2. Lessens(heap, g, c, p, LowSum(heap, SubSeq(low, 1, Len(low)), p))
    BY <1>8, <1>11 DEF ServedTo
  <2>3. QED
    BY <2>1, <2>2
<1> HIDE DEF g
<1>12. heap' = g /\ out' \in Outs
  BY <1>1, <1>9 DEF g, Awoke
<1>13. \A p : LowSum(g, low, p) = S(p) /\ S(p) \in Nat
  <2> SUFFICES ASSUME NEW p PROVE LowSum(g, low, p) = S(p) /\ S(p) \in Nat
    OBVIOUS
  <2>1. \A i \in DOMAIN low : g[low[i].data].proxy = heap[low[i].data].proxy
    BY <1>6, <1>10
  <2>2. LowSum(g, low, p) = LowSum(heap, low, p)
    BY <2>1, LowSame
  <2>3. LowSum(heap, low, p) \in Nat
    BY <1>4, LowSumIsNat
  <2>4. QED
    BY <2>2, <2>3
<1>14. x \in Dispatcher /\ DispatchSound(slot, x, a, b) /\ Resumes(d, x)
       /\ \A p : BusyIn(g, x, p) + S(p) <= BusyIn(g, d, p) /\ BusyIn(g, x, p) \in Nat /\ BusyIn(g, d, p) \in Nat
  <2>1. ASSUME NEW p, d.kind # "return" PROVE BusyIn(g, d, p) = S(p)
    BY <1>13, <2>1 DEF BusyIn, low
  <2>2. ASSUME NEW p, d.kind = "return" PROVE S(p) = 0 /\ BusyIn(g, d, p) \in Nat
    BY <1>4, <1>6, <2>2, BusyIsNat, LowOfEmpty
  <2>3. CASE r.dead
    <3>1. x = Dead
      BY <2>3 DEF x
    <3>2. ASSUME NEW p PROVE BusyIn(g, x, p) + S(p) <= BusyIn(g, d, p) /\ BusyIn(g, x, p) \in Nat /\ BusyIn(g, d, p) \in Nat
      <4>1. BusyIn(g, x, p) = 0
        BY <3>1, DeadIs
      <4>2. CASE d.kind # "return"
        BY <1>13, <2>1, <4>1, <4>2
      <4>3. CASE d.kind = "return"
        BY <2>2, <4>1, <4>3
      <4>4. QED
        BY <4>2, <4>3
    <3>3. QED
      BY <3>1, <3>2, DeadIs
  <2>4. CASE ~r.dead
    <3> DEFINE stage == Adjusting(<<>>, d.high)
    <3>1. x = [d EXCEPT !.stage = stage, !.low = <<>>]
      BY <2>4 DEF x
    <3>2. stage \in {"return", "process"}
      BY DEF Adjusting
    <3> HIDE DEF stage
    <3>3. x = [stage |-> stage, body |-> d.body, kind |-> d.kind, low |-> <<>>, high |-> d.high]
      BY <1>4, <3>1 DEF Dispatcher
    <3>4. x \in Dispatcher
      <4>1. <<>> \in Seq([data : Cell, more : Nat \ {0}])
        OBVIOUS
      <4>2. QED
        BY <1>4, <3>2, <3>3, <4>1 DEF Dispatcher
    <3>5. x.stage = stage /\ x.kind = d.kind /\ x.body = d.body /\ x.low = <<>> /\ x.high = d.high
      BY <3>3
    <3>6. DispatchSound(slot, x, a, b)
      <4>1. x.stage \notin {"idle", "dead"}
        BY <3>2, <3>5
      <4>2. \A i \in DOMAIN x.low : FALSE
        BY <3>5
      <4>3. QED
        BY <1>4, <3>5, <4>1, <4>2 DEF DispatchSound
    <3>7. ASSUME NEW p PROVE BusyIn(g, x, p) + S(p) <= BusyIn(g, d, p) /\ BusyIn(g, x, p) \in Nat /\ BusyIn(g, d, p) \in Nat
      <4>1. CASE d.kind # "return"
        <5>1. BusyIn(g, x, p) = 0
          BY <3>5, <4>1, LowOfEmpty DEF BusyIn
        <5>2. QED
          BY <1>13, <2>1, <4>1, <5>1
      <4>2. CASE d.kind = "return"
        <5>1. BusyIn(g, x, p) = BusyIn(g, d, p)
          BY <3>5, <4>2 DEF BusyIn
        <5>2. QED
          BY <2>2, <4>2, <5>1
      <4>3. QED
        BY <4>1, <4>2
    <3>8. Resumes(d, x)
      BY <3>5 DEF Resumes
    <3>9. QED
      BY <3>4, <3>6, <3>7, <3>8
  <2>5. QED
    BY <2>3, <2>4
<1>15. Moved(disp, disp', a, b, x)
  <2>1. Resumes(disp[a][b], x)
    BY <1>14 DEF d
  <2>2. QED
    BY <1>1, <1>3, <1>14, <2>1, DispatcherMoves
<1>16. ASSUME NEW p \in Proxy
       PROVE  /\ Positive(LocalIn(slot, g, a, p)) + Total(WaitingAt(heap, p))
                   <= Positive(LocalIn(slot, heap, a, p)) + S(p) + Total(WaitingAt(g, p))
              /\ \/ slot[a][p] # 0 => g[slot[a][p]] = heap[slot[a][p]]
                 \/ Positive(LocalIn(slot, g, a, p)) + Total(WaitingAt(heap, p))
                      < Positive(LocalIn(slot, heap, a, p)) + S(p) + Total(WaitingAt(g, p))
              /\ Total(VectorAt(slot, g, p)) + Positive(LocalIn(slot, heap, a, p))
                   = Total(VectorAt(slot, heap, p)) + Positive(LocalIn(slot, g, a, p))
  <2>1. \A c \in Cell : c \notin CellsOf(slot, a) => g[c].count = heap[c].count
    <3> SUFFICES ASSUME NEW c \in Cell, c \notin CellsOf(slot, a) PROVE g[c].count = heap[c].count
      OBVIOUS
    <3>1. \A i \in 1 .. Len(low) : low[i].data # c
      BY <1>6 DEF CellsOf
    <3>2. QED
      BY <1>10, <3>1
  <2>2. Total(VectorAt(slot, g, p)) + Positive(LocalIn(slot, heap, a, p))
          = Total(VectorAt(slot, heap, p)) + Positive(LocalIn(slot, g, a, p))
    BY <1>3, <1>5, <1>10, <2>1, VectorsOfOne
  <2>3. CASE slot[a][p] = 0
    <3>1. \A c \in Cell : heap[c].proxy = p => g[c] = heap[c]
      BY <1>6, <1>7, <1>10, <2>3
    <3>2. WaitingAt(g, p) = WaitingAt(heap, p)
      <4>1. \A c \in Cell : (IF g[c].proxy = p THEN Len(g[c].waiters) ELSE 0)
                              = IF heap[c].proxy = p THEN Len(heap[c].waiters) ELSE 0
        BY <1>10, <3>1
      <4>2. QED
        BY <4>1 DEF WaitingAt
    <3>3. LocalIn(slot, g, a, p) = 0 /\ LocalIn(slot, heap, a, p) = 0
      BY <2>3 DEF LocalIn
    <3>4. Total(WaitingAt(heap, p)) \in Nat /\ S(p) \in Nat
      BY <1>3, <1>13, WaitingNat
    <3> HIDE DEF S
    <3>5. QED
      BY <2>2, <2>3, <3>2, <3>3, <3>4 DEF Positive
  <2>4. CASE slot[a][p] # 0
    <3>1. slot[a][p] \in Cell
      <4>1. slot[a][p] \in Cell \cup {0}
        BY <1>3 DEF Slots
      <4>2. QED
        BY <2>4, <4>1
    <3>2. heap[slot[a][p]].proxy = p
      BY <1>5, <2>4 DEF SlotsSound
    <3>3. \A i \in 1 .. Len(low) : heap[low[i].data].proxy = p => low[i].data = slot[a][p]
      BY <1>6, <1>7
    <3>4. Lessens(heap, g, slot[a][p], p, S(p))
      BY <1>11, <3>1, <3>2, <3>3
    <3>5. LocalIn(slot, g, a, p) = g[slot[a][p]].count /\ LocalIn(slot, heap, a, p) = heap[slot[a][p]].count
      BY <2>4 DEF LocalIn
    <3> HIDE DEF S
    <3>6. QED
      BY <2>2, <3>4, <3>5 DEF Lessens
  <2>5. QED
    BY <2>3, <2>4
<1>17. StateOK(slot, heap', wire, out', disp')
  BY <1>2, <1>10, <1>12, <1>15 DEF StateOK, Moved
<1>18. TypeOK'
  BY <1>1, <1>2, <1>10, <1>12, <1>15 DEF IInv, TypeOK, Heaps, Outs, Moved, Disps
<1>19. Sound(slot, heap', live, wire, out', disp')
  <2>1. HeldSound(slot, heap', live, disp')
    <3> SUFFICES ASSUME NEW c \in Aspace, NEW p \in Proxy, HeldIn(live, disp', c, p)
                 PROVE  slot[c][p] # 0 /\ heap'[slot[c][p]].self
      BY DEF HeldSound
    <3>1. HeldIn(live, disp, c, p)
      BY <1>15 DEF Moved
    <3>2. slot[c][p] # 0 /\ heap[slot[c][p]].self
      BY <1>5, <3>1 DEF HeldSound
    <3>3. slot[c][p] \in Cell \cup {0}
      BY <1>3 DEF Slots
    <3>4. QED
      BY <1>10, <1>12, <3>2, <3>3
  <2>2. \A c, e \in Aspace : DispatchSound(slot, disp'[c][e], c, e)
    BY <1>3, <1>14, <1>15 DEF Moved, Sound
  <2>3. SlotsSound(slot, heap')
    <3> SUFFICES ASSUME NEW c \in Aspace, NEW p \in Proxy, slot[c][p] # 0
                 PROVE  heap'[slot[c][p]].proxy = p
      BY <1>5 DEF SlotsSound
    <3>1. slot[c][p] \in Cell \cup {0} /\ heap[slot[c][p]].proxy = p
      BY <1>3, <1>5 DEF Slots, SlotsSound
    <3>2. QED
      BY <1>10, <1>12, <3>1
  <2>4. (\A u \in Thread : ThreadSound(heap', out', u)) /\ WaitersSound(heap', out')
    BY <1>9, <1>12 DEF Awoke
  <2>5. \A m \in DOMAIN wire : MessageSound(m)
    BY <1>3 DEF Sound
  <2>6. QED
    BY <2>1, <2>2, <2>3, <2>4, <2>5 DEF Sound
<1>20. ASSUME NEW p \in Proxy
       PROVE  CountsSound(slot, heap', wire, out', disp', p) /\ FreeSound(slot, live, wire, out', disp', p)
  <2> DEFINE C == Counts(slot, heap, wire, out, disp, p)
             C2 == Counts(slot, heap', wire, out', disp', p)
             O == Owed(heap, out, p)
             O2 == Owed(heap', out', p)
  <2>1. CountsSound(slot, heap, wire, out, disp, p) /\ FreeSound(slot, live, wire, out, disp, p)
    BY DEF IInv
  <2>2. Total(DispAt(heap', disp', p)) + S(p) <= Total(DispAt(heap, disp, p))
    <3>1. Total(DispAt(heap', disp, p)) = Total(DispAt(heap, disp, p))
      <4>1. ASSUME NEW c \in Aspace, NEW e \in Aspace
            PROVE  BusyIn(heap', disp[c][e], p) = BusyIn(heap, disp[c][e], p)
        <5> DEFINE k == disp[c][e]
        <5>1. k \in Dispatcher
          BY <1>3 DEF Disps
        <5> HIDE DEF k
        <5>2. \A i \in DOMAIN k.low : k.low[i].data \in Cell
          BY <5>1, LowAre
        <5>3. LowAt(heap', k.low, p) = LowAt(heap, k.low, p)
          BY <1>10, <1>12, <5>2 DEF LowAt
        <5>4. BusyIn(heap', k, p) = BusyIn(heap, k, p)
          BY <5>3 DEF BusyIn, LowSum
        <5>5. QED
          BY <5>4 DEF k
      <4>2. QED
        BY <4>1, DispSame
    <3>2. Total(DispAt(heap', disp', p)) + BusyIn(heap', disp[a][b], p)
            = Total(DispAt(heap', disp, p)) + BusyIn(heap', x, p)
      BY <1>15 DEF Moved
    <3>3. /\ BusyIn(heap', x, p) + S(p) <= BusyIn(heap', disp[a][b], p)
          /\ BusyIn(heap', x, p) \in Nat /\ BusyIn(heap', disp[a][b], p) \in Nat /\ S(p) \in Nat
      BY <1>12, <1>13, <1>14 DEF d
    <3>4. Total(DispAt(heap', disp', p)) \in Nat /\ Total(DispAt(heap', disp, p)) \in Nat
      BY <1>3, <1>15, DispNat DEF Moved
    <3> HIDE DEF S
    <3>5. QED
      BY <3>1, <3>2, <3>3, <3>4
  <2>3. Total(ThreadAt(out', p)) = Total(ThreadAt(out, p))
    BY <1>9, ThreadsSame DEF Awoke
  <2>4. Total(LosingAt(heap', out', p)) = Total(LosingAt(heap, out, p))
    BY <1>9, <1>12, LosingSame DEF Awoke
  <2>5. /\ C2 + O <= C + O2
        /\ (slot[a][p] # 0 => g[slot[a][p]] = heap[slot[a][p]]) \/ C2 + O < C + O2
    <3> DEFINE V == Total(VectorAt(slot, heap, p))
               V2 == Total(VectorAt(slot, g, p))
               W == Total(WaitingAt(heap, p))
               W2 == Total(WaitingAt(g, p))
               D == Total(DispAt(heap, disp, p))
               D2 == Total(DispAt(heap', disp', p))
               K == Positive(LocalIn(slot, heap, a, p))
               K2 == Positive(LocalIn(slot, g, a, p))
               T == Total(ThreadAt(out, p))
               L == Total(LosingAt(heap, out, p))
               N == Total(WireAt(wire, p))
               s == S(p)
               same == slot[a][p] # 0 => g[slot[a][p]] = heap[slot[a][p]]
    <3>1. V2 + K = V + K2 /\ K2 + W <= K + s + W2 /\ D2 + s <= D /\ (same \/ K2 + W < K + s + W2)
      BY <1>16, <2>2
    <3>2. /\ V \in Nat /\ V2 \in Nat /\ W \in Nat /\ W2 \in Nat /\ D \in Nat /\ D2 \in Nat
          /\ T \in Nat /\ L \in Nat /\ N \in Nat /\ s \in Nat
      BY <1>2, <1>12, <1>13, <1>17, SumsAreNumbers
    <3>3. K \in Nat /\ K2 \in Nat
      <4>1. LocalIn(slot, heap, a, p) \in Int /\ LocalIn(slot, g, a, p) \in Int
        BY <1>3, <1>10, LocalIsInt
      <4>2. QED
        BY <4>1 DEF Positive
    <3>4. C = V + N + T + D /\ C2 = V2 + N + T + D2 /\ O = W + L /\ O2 = W2 + L
      BY <1>12, <2>3, <2>4 DEF Counts, Owed
    <3> HIDE DEF V, V2, W, W2, D, D2, K, K2, T, L, N, s, C, C2, O, O2, same
    <3>5. C2 + O <= C + O2 /\ (same \/ C2 + O < C + O2)
      BY <3>1, <3>2, <3>3, <3>4
    <3>6. QED
      BY <3>5 DEF same
  <2>6. ASSUME Clean(slot, heap, wire, out, disp, p), slot[a][p] # 0 => g[slot[a][p]] = heap[slot[a][p]]
        PROVE  Clean(slot, heap', wire, out', disp', p)
    <3>1. \A c, e \in Aspace : Fine(disp'[c][e].kind, disp'[c][e].body, p)
      BY <1>15, <2>6 DEF Moved, Clean
    <3>2. ASSUME NEW c \in Aspace, slot[c][p] # 0 PROVE heap'[slot[c][p]].count >= 1
      <4> DEFINE y == slot[c][p]
      <4>1. y \in Cell /\ heap[y].proxy = p
        <5>1. slot[c][p] \in Cell \cup {0}
          BY <1>3 DEF Slots
        <5>2. QED
          BY <1>5, <3>2, <5>1 DEF SlotsSound
      <4>2. heap[y].count >= 1
        BY <2>6, <3>2 DEF Clean
      <4>3. g[y] = heap[y]
        <5>1. CASE c = a
          BY <2>6, <3>2, <5>1
        <5>2. CASE c # a
          <6>1. \A q \in Proxy : slot[a][q] # y
            BY <1>5, <3>2, <5>2 DEF SlotsSound
          <6>2. \A i \in 1 .. Len(low) : low[i].data # y
            BY <1>6, <6>1
          <6>3. QED
            BY <1>10, <4>1, <6>2
        <5>3. QED
          BY <5>1, <5>2
      <4> HIDE DEF y
      <4>4. QED
        BY <1>12, <4>2, <4>3 DEF y
    <3>3. \A u \in Thread : out'[u].losers = out[u].losers /\ \A i \in DOMAIN out[u].losers : out[u].losers[i] \in Cell
      BY <1>3, <1>9, ListElements DEF Outs, Blocked, Awoke
    <3>4. \A u \in Thread : \A i \in DOMAIN out'[u].losers : heap'[out'[u].losers[i]].proxy # p
      BY <1>10, <1>12, <2>6, <3>3 DEF Clean
    <3>5. QED
      BY <2>6, <3>1, <3>2, <3>4 DEF Clean
  <2> HIDE DEF C, C2, O, O2
  <2>7. CountsSound(slot, heap', wire, out', disp', p)
    BY <1>2, <1>17, <2>1, <2>5, <2>6, CountsCarried DEF C, C2, O, O2
  <2>8. FreeSound(slot, live, wire, out', disp', p)
    BY <1>9, <1>15, <2>1 DEF FreeSound, Awoke, Moved
  <2>9. QED
    BY <2>7, <2>8
<1>21. QED
  BY <1>1, <1>18, <1>19, <1>20 DEF IInv

-----------------------------------------------------------------------------
(* The invariant.                                                          *)

\* Nothing is wrong in the beginning: the owner of a proxy has all its counts.
LEMMA InitKeeps ==
  ASSUME Init
  PROVE  IInv
<1> DEFINE order == ListOf(Proxy)
           n == Cardinality(Proxy)
           cell == [p \in Proxy |-> CHOOSE i \in DOMAIN order : order[i] = p]
<1>1. /\ n \in Nat /\ n <= NCells /\ NCells \in Nat /\ BaseCount \in Nat /\ BaseCount >= 1
      /\ order \in Seq(Proxy) /\ DOMAIN order = 1 .. n /\ Len(order) = n
      /\ \A p \in Proxy : \E i \in 1 .. n : order[i] = p
      /\ \A i \in 1 .. n : order[i] \in Proxy
  <2>1. /\ order \in Seq(Proxy) /\ DOMAIN order = 1 .. n /\ n \in Nat /\ Len(order) = n
        /\ \A p \in Proxy : \E i \in DOMAIN order : order[i] = p
    BY FiniteSets, ListOfSet
  <2>2. \A i \in 1 .. n : order[i] \in Proxy
    <3> HIDE DEF order, n
    <3>1. QED
      BY <2>1, ListElements
  <2> HIDE DEF order
  <2>3. QED
    BY <2>1, <2>2, ProxyCountsAssumption
<1>2. /\ slot = [a \in Aspace |-> [p \in Proxy |-> IF a = Owner THEN cell[p] ELSE 0]]
      /\ heap = [d \in Cell |-> IF d <= n THEN NewData(order[d], BaseCount) ELSE EmptyCell]
      /\ live = [a \in Aspace |-> IF a = Owner THEN Proxy ELSE {}]
      /\ wire = EmptyBag
      /\ out = [t \in Thread |-> NoThread]
      /\ disp = [a \in Aspace |-> [b \in Aspace |-> Idle]]
      /\ sends = Sends
  BY <1>1 DEF Init
<1>3. \A p \in Proxy : cell[p] \in 1 .. n /\ order[cell[p]] = p
  BY <1>1
<1> HIDE DEF order, n, cell
<1>4. \A p \in Proxy : cell[p] \in Cell /\ cell[p] <= n /\ cell[p] # 0
  BY <1>1, <1>3 DEF Cell
<1>5. \A a \in Aspace, p \in Proxy : /\ a = Owner => slot[a][p] = cell[p]
                                     /\ a # Owner => slot[a][p] = 0
  BY <1>2
<1>6. slot \in Slots
  BY <1>2, <1>4 DEF Slots
<1>7. \A p \in Proxy : /\ NewData(p, BaseCount) \in ProxyData /\ NewData(p, BaseCount).proxy = p
                       /\ NewData(p, BaseCount).self /\ NewData(p, BaseCount).count = BaseCount
                       /\ NewData(p, BaseCount).waiters = <<>>
  <2>1. <<>> \in Seq(Thread)
    OBVIOUS
  <2>2. QED
    BY <1>1, <2>1 DEF NewData, ProxyData
<1>8. EmptyCell \in ProxyData /\ EmptyCell.waiters = <<>>
  <2>1. <<>> \in Seq(Thread)
    OBVIOUS
  <2>2. QED
    BY <2>1 DEF EmptyCell, ProxyData
<1>9. \A c \in Cell : /\ c <= n => heap[c] = NewData(order[c], BaseCount) /\ order[c] \in Proxy
                      /\ ~(c <= n) => heap[c] = EmptyCell
  <2>1. \A c \in Cell : c <= n => c \in 1 .. n
    BY <1>1 DEF Cell
  <2>2. QED
    BY <1>1, <1>2, <2>1
<1>10. heap \in Heaps /\ \A c \in Cell : heap[c].waiters = <<>>
  <2>1. \A c \in Cell : heap[c] \in ProxyData /\ heap[c].waiters = <<>>
    BY <1>7, <1>8, <1>9
  <2>2. heap = [c \in Cell |-> heap[c]]
    BY <1>2
  <2>3. QED
    BY <2>1, <2>2 DEF Heaps
<1>11. \A p \in Proxy : /\ heap[cell[p]].proxy = p /\ heap[cell[p]].count = BaseCount
                        /\ heap[cell[p]].self
  BY <1>3, <1>4, <1>7, <1>9
<1>12. WireOK(wire) /\ DOMAIN wire = {}
  <2>1. wire = [e \in {} |-> 1]
    BY <1>2 DEF EmptyBag, SetToBag
  <2>2. DOMAIN wire = {} /\ wire \in [{} -> {k \in Nat : k > 0}]
    BY <2>1
  <2>3. IsFiniteSet(DOMAIN wire)
    BY <2>2, FS_EmptySet
  <2>4. IsABag(wire)
    BY <2>2 DEF IsABag
  <2>5. QED
    BY <2>2, <2>3, <2>4 DEF WireOK
<1>13. out \in Outs /\ \A t \in Thread : out[t] = NoThread
  BY <1>2, NoThreadIs DEF Outs
<1>14. disp \in Disps /\ \A a, b \in Aspace : disp[a][b] = Idle
  BY <1>2, IdleIs DEF Disps
<1>15. StateOK(slot, heap, wire, out, disp)
  BY <1>6, <1>10, <1>12, <1>13, <1>14 DEF StateOK
<1>16. live \in [Aspace -> SUBSET Proxy] /\ sends \in [Aspace -> Nat]
  BY <1>2, ProxyCountsAssumption
<1>17. TypeOK
  BY <1>15, <1>16, TypesAre
<1>18. \A t \in Thread : Total(PlacesAt(heap, t)) = 0 /\ \A p : Total(PlacesFor(heap, t, p)) = 0
  <2>1. WaitersSound(heap, out)
    BY <1>10 DEF WaitersSound
  <2>2. \A t \in Thread : out[t].stage # "waiting"
    BY <1>13, NoThreadIs
  <2>3. QED
    BY <1>10, <2>1, <2>2, NoPlaces
<1>19. Sound(slot, heap, live, wire, out, disp)
  <2>1. SlotsSound(slot, heap)
    BY <1>5, <1>11 DEF SlotsSound
  <2>2. HeldSound(slot, heap, live, disp)
    <3> SUFFICES ASSUME NEW a \in Aspace, NEW p \in Proxy, HeldIn(live, disp, a, p)
                 PROVE  slot[a][p] # 0 /\ heap[slot[a][p]].self
      BY DEF HeldSound
    <3>1. p \in live[a]
      BY <1>14, IdleIs DEF HeldIn
    <3>2. a = Owner
      BY <1>2, <3>1
    <3>3. QED
      BY <1>4, <1>5, <1>11, <3>2
  <2>3. \A a, b \in Aspace : DispatchSound(slot, disp[a][b], a, b)
    BY <1>14, IdleIs
  <2>4. ASSUME NEW t \in Thread PROVE ThreadSound(heap, out, t)
    <3>1. out[t].body = <<>> /\ out[t].losers = <<>> /\ out[t].stage = "free" /\ DOMAIN out[t].body = {}
          /\ DOMAIN out[t].losers = {}
      BY <1>13, NoThreadIs
    <3>2. \A p \in Proxy : /\ LosingIn(heap, out, t, p) <= SumOf(out[t].body, p)
                           /\ Total(PlacesFor(heap, t, p)) <= SumOf(out[t].body, p)
      <4>1. \A p : SumOf(out[t].body, p) = 0
        BY <3>1, SumOfEmpty
      <4>2. \A p : LosingIn(heap, out, t, p) = 0
        BY <3>1 DEF LosingIn
      <4>3. QED
        BY <1>18, <4>1, <4>2
    <3>3. QED
      BY <3>1, <3>2 DEF ThreadSound
  <2>5. WaitersSound(heap, out)
    BY <1>10 DEF WaitersSound
  <2>6. QED
    BY <1>12, <2>1, <2>2, <2>3, <2>4, <2>5 DEF Sound
<1>20. ASSUME NEW p \in Proxy
       PROVE  CountsSound(slot, heap, wire, out, disp, p) /\ FreeSound(slot, live, wire, out, disp, p)
  <2> DEFINE f == VectorAt(slot, heap, p)
             none == [a \in Aspace |-> 0]
  <2>1. \A a \in Aspace : f[a] = LocalIn(slot, heap, a, p)
    BY DEF VectorAt
  <2>2. f[Owner] = BaseCount /\ \A a \in Aspace \ {Owner} : f[a] = 0
    BY <1>4, <1>5, <1>11, <2>1, FiniteSets DEF LocalIn
  <2>3. DOMAIN f = Aspace
    BY DEF VectorAt
  <2>4. DOMAIN none = Aspace /\ \A a \in Aspace : none[a] = 0
    OBVIOUS
  <2> HIDE DEF f, none
  <2>5. Total(none) = 0
    BY <2>4, TotalOfNone
  <2>6. Total(f) + Positive(none[Owner]) = Total(none) + Positive(f[Owner]) /\ Total(f) \in Nat
    <3> DEFINE T == Aspace
    <3>1. /\ IsFiniteSet(T) /\ DOMAIN none = T /\ DOMAIN f = T /\ Owner \in T
          /\ \A a \in T : none[a] \in Int
          /\ \A a \in T : f[a] \in Int
          /\ \A a \in T \ {Owner} : f[a] = none[a]
      BY <1>1, <2>2, <2>3, <2>4, FiniteSets
    <3> HIDE DEF T
    <3>2. QED
      BY <3>1, OneChanged
  <2>7. Total(f) = BaseCount
    BY <1>1, <2>2, <2>4, <2>5, <2>6, FiniteSets DEF Positive
  <2>8. Total(WireAt(wire, p)) = 0
    <3>1. DOMAIN WireAt(wire, p) = {}
      BY <1>12 DEF WireAt
    <3>2. QED
      BY <3>1, TotalOfNone
  <2>9. Total(ThreadAt(out, p)) = 0
    <3>1. DOMAIN ThreadAt(out, p) = Thread /\ \A t \in Thread : ThreadAt(out, p)[t] = 0
      BY <1>13, NoThreadIs, SumOfEmpty DEF ThreadAt
    <3>2. QED
      BY <3>1, TotalOfNone
  <2>10. Total(DispAt(heap, disp, p)) = 0
    <3>1. \A x \in Aspace \X Aspace : BusyIn(heap, disp[x[1]][x[2]], p) = 0
      BY <1>14, IdleIs
    <3>2. DOMAIN DispAt(heap, disp, p) = Aspace \X Aspace /\ \A x \in Aspace \X Aspace : DispAt(heap, disp, p)[x] = 0
      BY <3>1 DEF DispAt
    <3>3. QED
      BY <3>2, TotalOfNone
  <2>11. Counts(slot, heap, wire, out, disp, p) = BaseCount
    BY <1>1, <2>7, <2>8, <2>9, <2>10 DEF Counts, f
  <2>12. Clean(slot, heap, wire, out, disp, p)
    <3>1. \A a \in Aspace : slot[a][p] # 0 => heap[slot[a][p]].count >= 1
      BY <1>1, <1>5, <1>11
    <3>2. \A t \in Thread : DOMAIN out[t].losers = {}
      BY <1>13, NoThreadIs
    <3>3. \A a, b \in Aspace : Fine(disp[a][b].kind, disp[a][b].body, p)
      BY <1>14, IdleIs
    <3>4. QED
      BY <1>12, <3>1, <3>2, <3>3 DEF Clean
  <2>13. Owed(heap, out, p) \in Nat
    BY <1>15, SumsAreNumbers
  <2>14. CountsSound(slot, heap, wire, out, disp, p)
    BY <1>1, <2>11, <2>12, <2>13 DEF CountsSound
  <2>15. FreeSound(slot, live, wire, out, disp, p)
    BY <1>4, <1>5, FiniteSets DEF FreeSound
  <2>16. QED
    BY <2>14, <2>15
<1>21. QED
  BY <1>17, <1>19, <1>20 DEF IInv

\* Every step keeps the invariant.
LEMMA NextKeeps ==
  ASSUME IInv, [Next]_vars
  PROVE  IInv'
<1>1. ASSUME NEW a \in Aspace, NEW b \in Aspace, Dispatch(a, b) PROVE IInv'
  <2>1. CASE Decode(a, b)
    BY <2>1, DecodeKeeps
  <2>2. CASE ReleaseWaiters(a, b)
    BY <2>2, ReleaseWaitersKeeps
  <2>3. CASE ReturnExcess(a, b)
    BY <2>3, ReturnExcessKeeps
  <2>4. CASE ProcessRun(a, b)
    BY <2>4, ProcessRunKeeps
  <2>5. CASE ProcessRequest(a, b)
    BY <2>5, ProcessRequestKeeps
  <2>6. CASE ProcessCounts(a, b)
    BY <2>6, ProcessCountsKeeps
  <2>7. CASE ProcessReturn(a, b)
    BY <2>7, ProcessReturnKeeps
  <2>8. QED
    BY <1>1, <2>1, <2>2, <2>3, <2>4, <2>5, <2>6, <2>7 DEF Dispatch
<1>2. ASSUME NEW a \in Aspace, NEW b \in Aspace, NEW ps \in Bodies, NEW retried \in Retries,
             SendMessage(a, b, ps, retried)
      PROVE  IInv'
  BY <1>2, SendMessageKeeps
<1>3. ASSUME NEW t \in Thread, MakeProxyRequests(t) PROVE IInv'
  BY <1>3, MakeProxyRequestsKeeps
<1>4. ASSUME NEW t \in Thread, SendReady(t) PROVE IInv'
  BY <1>4, SendReadyKeeps
<1>5. ASSUME NEW a \in Aspace, NEW p \in Proxy, Drop(a, p) PROVE IInv'
  BY <1>5, DropKeeps
<1>6. ASSUME NEW a \in Aspace, Collect(a) PROVE IInv'
  BY <1>6, CollectKeeps
<1>7. ASSUME NEW a \in Aspace, GcProxies(a) PROVE IInv'
  BY <1>7, GcProxiesKeeps
<1>8. CASE UNCHANGED vars
  BY <1>8 DEF vars, IInv, TypeOK
<1>9. QED
  BY <1>1, <1>2, <1>3, <1>4, <1>5, <1>6, <1>7, <1>8 DEF Next

\* What the invariant says of the counts.
LEMMA NothingInvented ==
  ASSUME IInv
  PROVE  NoInventedCounts
<1>1. /\ StateOK(slot, heap, wire, out, disp) /\ Sound(slot, heap, live, wire, out, disp)
      /\ slot \in Slots /\ heap \in Heaps /\ out \in Outs
  BY TypesAre DEF IInv, StateOK
<1> SUFFICES ASSUME NEW p \in Proxy, slot[Owner][p] # 0
             PROVE  /\ heap[slot[Owner][p]].count <= BaseCount
                    /\ (\A t \in Thread : out[t].stage = "free") => CountsOf(p) <= BaseCount
  BY DEF NoInventedCounts
<1> DEFINE V == Total(VectorAt(slot, heap, p))
           W == Total(WireAt(wire, p))
           T == Total(ThreadAt(out, p))
           D == Total(DispAt(heap, disp, p))
           O == Owed(heap, out, p)
           own == LocalIn(slot, heap, Owner, p)
<1>2. V \in Nat /\ W \in Nat /\ T \in Nat /\ D \in Nat /\ O \in Nat /\ BaseCount \in Nat
  BY <1>1, SumsAreNumbers, ProxyCountsAssumption
<1>3. V + W + T + D <= BaseCount + O /\ CountsOf(p) = V + W + T + D
  BY CountsAre DEF IInv, CountsSound, Counts
<1>4. O <= T
  BY <1>1, OwedIsCarried DEF Sound
<1>5. own \in Int /\ own <= V
  <2> DEFINE f == VectorAt(slot, heap, p)
  <2>1. \A a \in Aspace : f[a] = LocalIn(slot, heap, a, p)
    BY DEF VectorAt
  <2>2. DOMAIN f = Aspace
    BY DEF VectorAt
  <2>3. \A a \in Aspace : f[a] \in Int
    <3> HIDE DEF f
    <3>1. QED
      BY <1>1, <2>1, LocalIsInt
  <2> HIDE DEF f
  <2>4. Positive(f[Owner]) <= Total(f) /\ Total(f) \in Nat
    BY <2>2, <2>3, FiniteSets, TotalOfOne
  <2>5. f[Owner] \in Int /\ f[Owner] = own
    BY <2>1, <2>3, FiniteSets
  <2>6. QED
    BY <2>4, <2>5 DEF Positive, f
<1>6. own = heap[slot[Owner][p]].count
  BY DEF LocalIn
<1>7. ASSUME \A t \in Thread : out[t].stage = "free" PROVE T = 0
  <2>1. \A t \in Thread : out[t].body = <<>>
    BY <1>1, <1>7 DEF Sound, ThreadSound
  <2>2. DOMAIN ThreadAt(out, p) = Thread /\ \A t \in Thread : ThreadAt(out, p)[t] = 0
    BY <2>1, SumOfEmpty DEF ThreadAt
  <2>3. QED
    BY <2>2, TotalOfNone
<1> HIDE DEF V, W, T, D, O, own
<1>8. own <= BaseCount
  BY <1>2, <1>3, <1>4, <1>5
<1>9. ASSUME \A t \in Thread : out[t].stage = "free" PROVE CountsOf(p) <= BaseCount
  <2>1. T = 0
    BY <1>7, <1>9
  <2>2. QED
    BY <1>2, <1>3, <1>4, <2>1
<1>10. QED
  BY <1>6, <1>8, <1>9

\* Every variable keeps its type: in particular the messages on the wire stay a finite bag, and a blocked
\* sender counts its missing counts with a number (proxy-count.scm and connect.scm, threads that wait for counts).
THEOREM TypeCorrect == Spec => []TypeOK
<1>1. Init => IInv
  BY InitKeeps
<1>2. IInv /\ [Next]_vars => IInv'
  BY NextKeeps
<1>3. IInv => TypeOK
  BY DEF IInv
<1>4. QED
  BY <1>1, <1>2, <1>3, PTL DEF Spec

\* The inductive invariant holds in every reachable state.
THEOREM InvariantHolds == Spec => []IInv
<1>1. Init => IInv
  BY InitKeeps
<1>2. IInv /\ [Next]_vars => IInv'
  BY NextKeeps
<1>3. QED
  BY <1>1, <1>2, PTL DEF Spec

\* The owner takes a proxy from its vector (find-dead-proxies, proxy-count.scm) only when no address space, message,
\* blocked sender or dispatcher refers to it: a number that is sent never finds the entry gone or reused.
THEOREM FreedWhenAlone == Spec => []NoPrematureFree
<1>1. IInv => NoPrematureFree
  <2> SUFFICES ASSUME IInv, NEW p \in Proxy, slot[Owner][p] = 0 PROVE ~Abroad(p)
    BY DEF NoPrematureFree
  <2>1. FreeSound(slot, live, wire, out, disp, p)
    BY DEF IInv
  <2>2. QED
    BY <2>1 DEF FreeSound, Abroad, BagToSet
<1>2. QED
  BY <1>1, InvariantHolds, PTL

\* The counts of a proxy are never more than the owner made (proxy-base-count), except for
\* those that a blocked sender was promised: debits, requests, returns and adjustments move them only.
THEOREM CountsConserved == Spec => []NoInventedCounts
<1>1. IInv => NoInventedCounts
  BY NothingInvented
<1>2. QED
  BY <1>1, InvariantHolds, PTL
================================================================================

-------------------------- MODULE StackMachineProofs --------------------------
(***************************************************************************)
(* Proofs about the stack machine: what lies on the stack and how it is    *)
(* linked (the invariant, IInv), that each instruction keeps it so, and    *)
(* that therefore the heap never points to the stack, the stack suffices   *)
(* and a collection traces all of it.                                      *)
(***************************************************************************)
EXTENDS StackMachine, SetInduction

-----------------------------------------------------------------------------
(* Sequences, of cells or anything else.                                   *)

IsSeq(x) == x \in Seq({x[i] : i \in 1 .. Len(x)})

LEMMA SeqOf ==
  ASSUME NEW T, NEW x \in Seq(T)
  PROVE  IsSeq(x)
<1>1. Len(x) \in Nat /\ x = [i \in 1 .. Len(x) |-> x[i]]
  OBVIOUS
<1>2. QED
  BY <1>1 DEF IsSeq

LEMMA SeqFacts ==
  ASSUME NEW x, IsSeq(x)
  PROVE  Len(x) \in Nat /\ DOMAIN x = 1 .. Len(x) /\ x = [i \in 1 .. Len(x) |-> x[i]]
BY DEF IsSeq

LEMMA SeqBy ==
  ASSUME NEW n \in Nat, NEW x, x = [i \in 1 .. n |-> x[i]]
  PROVE  IsSeq(x) /\ Len(x) = n
<1> DEFINE T == {x[i] : i \in 1 .. n}
<1>1. x \in Seq(T) /\ Len(x) = n
  OBVIOUS
<1>2. QED
  BY <1>1, SeqOf

LEMMA SameSeq ==
  ASSUME NEW x, IsSeq(x), NEW y, IsSeq(y), NEW n, Len(x) = n, Len(y) = n, \A i \in 1 .. n : x[i] = y[i]
  PROVE  x = y
<1>1. x = [i \in 1 .. n |-> x[i]] /\ y = [i \in 1 .. n |-> y[i]]
  BY SeqFacts
<1>2. QED
  BY <1>1

LEMMA Concatenated ==
  ASSUME NEW x, NEW y, IsSeq(x), IsSeq(y)
  PROVE  /\ IsSeq(x \o y) /\ Len(x \o y) = Len(x) + Len(y)
         /\ \A i \in 1 .. Len(x) : (x \o y)[i] = x[i]
         /\ \A i \in 1 .. Len(y) : (x \o y)[Len(x) + i] = y[i]
<1> DEFINE T == {x[i] : i \in 1 .. Len(x)} \cup {y[i] : i \in 1 .. Len(y)}
<1>1. x \in Seq(T) /\ y \in Seq(T)
  BY SeqFacts
<1> HIDE DEF T
<1>2. x \o y \in Seq(T)
  BY <1>1
<1>3. IsSeq(x \o y)
  BY <1>2, SeqOf
<1>4. QED
  BY <1>1, <1>3

LEMMA Part ==
  ASSUME NEW x, IsSeq(x), NEW i \in Int, NEW j \in Int, i >= 1, i <= j + 1, j <= Len(x)
  PROVE  /\ IsSeq(SubSeq(x, i, j)) /\ Len(SubSeq(x, i, j)) = j - i + 1
         /\ \A k \in 1 .. j - i + 1 : SubSeq(x, i, j)[k] = x[k + i - 1]
<1> DEFINE T == {x[k] : k \in 1 .. Len(x)}
<1>1. x \in Seq(T) /\ Len(x) \in Nat
  BY SeqFacts
<1> HIDE DEF T
<1>2. SubSeq(x, i, j) = [k \in 1 .. j - i + 1 |-> x[k + i - 1]]
  BY <1>1
<1>3. j - i + 1 \in Nat
  OBVIOUS
<1>4. IsSeq(SubSeq(x, i, j)) /\ Len(SubSeq(x, i, j)) = j - i + 1
  BY <1>2, <1>3, SeqBy
<1>5. QED
  BY <1>2, <1>4

LEMMA Prefix ==
  ASSUME NEW x, IsSeq(x), NEW n \in Nat, n <= Len(x)
  PROVE  /\ IsSeq(SubSeq(x, 1, n)) /\ Len(SubSeq(x, 1, n)) = n
         /\ \A k \in 1 .. n : SubSeq(x, 1, n)[k] = x[k]
<1>1. n - 1 + 1 = n /\ 1 <= n + 1 /\ 1 \in Int /\ n \in Int
  OBVIOUS
<1>2. /\ IsSeq(SubSeq(x, 1, n)) /\ Len(SubSeq(x, 1, n)) = n
      /\ \A k \in 1 .. n : SubSeq(x, 1, n)[k] = x[k + 1 - 1]
  BY <1>1, Part
<1>3. QED
  BY <1>2

LEMMA Rest ==
  ASSUME NEW x, IsSeq(x), x # <<>>
  PROVE  /\ Len(x) >= 1 /\ Head(x) = x[1]
         /\ IsSeq(Tail(x)) /\ Len(Tail(x)) = Len(x) - 1
         /\ \A i \in 1 .. Len(x) - 1 : Tail(x)[i] = x[i + 1]
<1> DEFINE T == {x[k] : k \in 1 .. Len(x)}
<1>1. x \in Seq(T) /\ Len(x) \in Nat
  BY SeqFacts
<1> HIDE DEF T
<1>2. Tail(x) \in Seq(T) /\ Len(x) >= 1
  BY <1>1
<1>3. IsSeq(Tail(x))
  BY <1>2, SeqOf
<1>4. Head(x) = x[1] /\ Len(Tail(x)) = Len(x) - 1 /\ \A i \in 1 .. Len(x) - 1 : Tail(x)[i] = x[i + 1]
  BY <1>1, <1>2
<1>5. QED
  BY <1>2, <1>3, <1>4

-----------------------------------------------------------------------------
(* Descent.                                                                *)

\* Its recursion has a solution, as each place is computed from a lower one.
LEMMA DescentSolves ==
  ASSUME NEW next, NEW N \in Nat, DOMAIN next \subseteq 1 .. N
  PROVE  \E d : /\ \A i \in DOMAIN next : Descent(next, i) = d[i]
                /\ \A j \in DOMAIN next :
                     d[j] = <<j>> \o (IF next[j] \in DOMAIN next /\ next[j] < j
                                      THEN d[next[j]] ELSE <<>>)
<1> DEFINE P == DOMAIN next
           Lower(j) == next[j] \in P /\ next[j] < j
           Solves(f, n) == f = [j \in P \cap 1 .. n |->
                                  <<j>> \o (IF Lower(j) THEN f[next[j]] ELSE <<>>)]
           D == {n \in 0 .. N : \E f : Solves(f, n)}
<1>1. 0 \in D
  <2> DEFINE g == [j \in P \cap 1 .. 0 |-> 0]
  <2>1. P \cap 1 .. 0 = {}
    OBVIOUS
  <2>2. Solves(g, 0)
    BY <2>1
  <2>3. \E f : Solves(f, 0)
    <3> HIDE DEF Solves, g
    <3>1. QED
      BY <2>2
  <2>4. QED
    <3> HIDE DEF Solves
    <3>1. QED
      BY <2>3
<1>2. ASSUME NEW n \in 1 .. N, n - 1 \in D
      PROVE  n \in D
  <2>1. PICK f : Solves(f, n - 1)
    BY <1>2
  <2>7. \A j \in P \cap 1 .. n - 1 : f[j] = <<j>> \o (IF Lower(j) THEN f[next[j]] ELSE <<>>)
    BY <2>1
  <2> DEFINE g == [j \in P \cap 1 .. n |-> <<j>> \o (IF Lower(j) THEN f[next[j]] ELSE <<>>)]
  <2>2. ASSUME NEW j \in P \cap 1 .. n - 1 PROVE g[j] = f[j]
    <3>1. g[j] = <<j>> \o (IF Lower(j) THEN f[next[j]] ELSE <<>>)
      OBVIOUS
    <3> HIDE DEF g, Lower
    <3>2. QED
      BY <2>7, <3>1
  <2>3. ASSUME NEW j \in P \cap 1 .. n
        PROVE  <<j>> \o (IF Lower(j) THEN f[next[j]] ELSE <<>>)
                 = <<j>> \o (IF Lower(j) THEN g[next[j]] ELSE <<>>)
    <3>1. CASE Lower(j)
      <4>1. next[j] \in P \cap 1 .. n - 1
        BY <3>1
      <4>2. QED
        BY <4>1, <2>2
    <3>2. CASE ~Lower(j)
      BY <3>2
    <3>3. QED
      BY <3>1, <3>2
  <2>4. Solves(g, n)
    BY <2>3
  <2>5. \E h : Solves(h, n)
    <3> HIDE DEF Solves, g
    <3>1. QED
      BY <2>4
  <2>6. QED
    <3> HIDE DEF Solves
    <3>1. QED
      BY <2>5
<1>3. 0 .. N \subseteq D
  <2> HIDE DEF D
  <2>1. QED
    BY <1>1, <1>2, InductionTo
<1> DEFINE All(f) == f = [j \in P |-> <<j>> \o (IF Lower(j) THEN f[next[j]] ELSE <<>>)]
           d == CHOOSE f : All(f)
<1>4. \E f : All(f)
  <2>1. PICK f : Solves(f, N)
    <3>1. N \in 0 .. N
      OBVIOUS
    <3>2. N \in D
      <4> HIDE DEF D
      <4>1. QED
        BY <1>3, <3>1
    <3> HIDE DEF Solves
    <3>3. QED
      BY <3>2
  <2>2. P \cap 1 .. N = P
    OBVIOUS
  <2>3. All(f)
    BY <2>1, <2>2
  <2> HIDE DEF All
  <2>4. QED
    BY <2>3
<1>5. All(d)
  <2> HIDE DEF All
  <2>1. QED
    BY <1>4
<1>6. \A i \in P : Descent(next, i) = d[i]
  BY DEF Descent
<1>7. \A j \in P : d[j] = <<j>> \o (IF Lower(j) THEN d[next[j]] ELSE <<>>)
  <2> HIDE DEF d
  <2>1. QED
    BY <1>5
<1> HIDE DEF d
<1>8. QED
  BY <1>6, <1>7

\* It begins at i, goes on to what comes next, and ends where nothing lower does.
Descends(next, x, i) ==
  /\ x \in Seq(DOMAIN next) /\ Len(x) >= 1 /\ x[1] = i
  /\ \A k \in 1 .. Len(x) - 1 : x[k + 1] = next[x[k]] /\ next[x[k]] < x[k]
  /\ ~(next[x[Len(x)]] \in DOMAIN next /\ next[x[Len(x)]] < x[Len(x)])

LEMMA DescentDescends ==
  ASSUME NEW next, NEW N \in Nat, DOMAIN next \subseteq 1 .. N, NEW i \in DOMAIN next
  PROVE  Descends(next, Descent(next, i), i)
<1>1. PICK d : /\ \A j \in DOMAIN next : Descent(next, j) = d[j]
               /\ \A j \in DOMAIN next :
                     d[j] = <<j>> \o (IF next[j] \in DOMAIN next /\ next[j] < j
                                      THEN d[next[j]] ELSE <<>>)
  BY DescentSolves
<1> DEFINE S == {n \in 0 .. N : \A j \in DOMAIN next \cap 1 .. n : Descends(next, d[j], j)}
<1>2. 0 \in S
  OBVIOUS
<1>3. ASSUME NEW n \in 1 .. N, n - 1 \in S
      PROVE  n \in S
  <2>1. ASSUME NEW j \in DOMAIN next \cap 1 .. n PROVE Descends(next, d[j], j)
    <3>1. CASE next[j] \in DOMAIN next /\ next[j] < j
      <4> DEFINE y == d[next[j]]
      <4>1. next[j] \in DOMAIN next \cap 1 .. n - 1
        BY <3>1
      <4>2. Descends(next, y, next[j])
        BY <1>3, <4>1
      <4>3. d[j] = <<j>> \o y
        BY <1>1, <3>1
      <4>4. <<j>> \in Seq(DOMAIN next) /\ Len(<<j>>) = 1 /\ <<j>>[1] = j
        OBVIOUS
      <4> HIDE DEF y
      <4>5. y \in Seq(DOMAIN next) /\ Len(y) \in Nat /\ Len(y) >= 1
        BY <4>2 DEF Descends
      <4>6. /\ d[j] \in Seq(DOMAIN next) /\ Len(d[j]) = Len(y) + 1 /\ d[j][1] = j
            /\ \A k \in 2 .. Len(y) + 1 : d[j][k] = y[k - 1]
        BY <4>3, <4>4, <4>5
      <4>7. ASSUME NEW k \in 1 .. Len(d[j]) - 1
            PROVE  d[j][k + 1] = next[d[j][k]] /\ next[d[j][k]] < d[j][k]
        <5>1. k \in 1 .. Len(y) /\ k + 1 \in 2 .. Len(y) + 1 /\ (k + 1) - 1 = k
          BY <4>5, <4>6
        <5>5. d[j][k + 1] = y[k]
          BY <4>6, <5>1
        <5>2. CASE k = 1
          BY <3>1, <4>2, <4>6, <5>5, <5>2 DEF Descends
        <5>3. CASE k # 1
          <6>1. k - 1 \in 1 .. Len(y) - 1 /\ d[j][k] = y[k - 1]
            BY <4>6, <5>1, <5>3
          <6>2. y[(k - 1) + 1] = next[y[k - 1]] /\ next[y[k - 1]] < y[k - 1]
            BY <4>2, <6>1 DEF Descends
          <6>3. QED
            BY <5>1, <5>5, <6>1, <6>2
        <5>4. QED
          BY <5>2, <5>3
      <4>8. d[j][Len(d[j])] = y[Len(y)]
        BY <4>5, <4>6
      <4>9. QED
        BY <4>2, <4>5, <4>6, <4>7, <4>8 DEF Descends
    <3>2. CASE ~(next[j] \in DOMAIN next /\ next[j] < j)
      <4>1. d[j] = <<j>> \o <<>>
        BY <1>1, <3>2
      <4>2. d[j] = <<j>>
        BY <4>1
      <4>3. QED
        BY <3>2, <4>2 DEF Descends
    <3>3. QED
      BY <3>1, <3>2
  <2>2. QED
    BY <2>1
<1>4. 0 .. N \subseteq S
  <2> HIDE DEF S
  <2>1. QED
    BY <1>2, <1>3, InductionTo
<1>5. N \in S /\ i \in 1 .. N
  BY <1>4
<1>6. Descends(next, d[i], i)
  BY <1>5
<1>7. QED
  BY <1>1, <1>6
-----------------------------------------------------------------------------
(* The machine is a record.                                                *)

Machine(s) ==
  /\ s \in [stack : {s.stack}, env : {s.env}, cont : {s.cont}, heap : {s.heap},
            used : {s.used}, room : {s.room}, overrun : {s.overrun}]
  /\ IsSeq(s.stack)
  /\ s.overrun \in BOOLEAN

\* What stays the same where only the stack changes.
SameBut(s, r) ==
  r.env = s.env /\ r.cont = s.cont /\ r.heap = s.heap /\ r.used = s.used /\ r.room = s.room

LEMMA PushedAll ==
  ASSUME NEW s, Machine(s), NEW cells, IsSeq(cells), NEW r, r = push_all(s, cells)
  PROVE  /\ Machine(r) /\ SameBut(s, r) /\ r.stack = s.stack \o cells
         /\ Top(r) = Top(s) + Len(cells)
         /\ r.overrun = (s.overrun \/ Top(s) + Len(cells) > StackCells - WarningLimit - 2)
<1>1. r \in [stack : {r.stack}, env : {r.env}, cont : {r.cont}, heap : {r.heap},
             used : {r.used}, room : {r.room}, overrun : {r.overrun}]
  BY DEF push_all, Machine
<1>2. r.stack = s.stack \o cells /\ SameBut(s, r)
  BY DEF push_all, Machine, SameBut
<1>3. /\ r.overrun = (s.overrun \/ Top(s) + Len(cells) > StackCells - WarningLimit - 2)
      /\ r.overrun \in BOOLEAN
  BY DEF push_all, Machine
<1>4. IsSeq(s.stack \o cells) /\ Len(s.stack \o cells) = Len(s.stack) + Len(cells)
  BY Concatenated DEF Machine
<1>5. Machine(r) /\ Top(r) = Top(s) + Len(cells)
  BY <1>1, <1>2, <1>3, <1>4 DEF Machine, Top
<1>6. QED
  BY <1>2, <1>3, <1>5

LEMMA Removed ==
  ASSUME NEW s, Machine(s), NEW n \in Nat, n <= Top(s), NEW r, r = remove_stack_arguments(s, n)
  PROVE  /\ Machine(r) /\ SameBut(s, r) /\ r.overrun = s.overrun
         /\ Top(r) = Top(s) - n /\ \A i \in 1 .. Top(s) - n : r.stack[i] = s.stack[i]
<1>1. r \in [stack : {r.stack}, env : {r.env}, cont : {r.cont}, heap : {r.heap},
             used : {r.used}, room : {r.room}, overrun : {r.overrun}]
  BY DEF remove_stack_arguments, Machine
<1>2. r.stack = SubSeq(s.stack, 1, Top(s) - n) /\ SameBut(s, r) /\ r.overrun = s.overrun
  BY DEF remove_stack_arguments, Machine, SameBut
<1>3. Top(s) \in Nat /\ IsSeq(s.stack) /\ Top(s) = Len(s.stack) /\ Top(s) - n \in Nat
  BY SeqFacts DEF Machine, Top
<1>4. /\ IsSeq(r.stack) /\ Len(r.stack) = Top(s) - n
      /\ \A i \in 1 .. Top(s) - n : r.stack[i] = s.stack[i]
  BY <1>2, <1>3, Prefix
<1>5. Machine(r) /\ Top(r) = Top(s) - n
  BY <1>1, <1>2, <1>3, <1>4 DEF Machine, Top
<1>6. QED
  BY <1>2, <1>4, <1>5

-----------------------------------------------------------------------------
(* The invariant.                                                          *)

\* The last cell that may be used, and how far a procedure may get by the compiler's account.
LastCell == StackCells - WarningLimit - 2
Limit == LastCell - 30

\* The n cells below T are arguments: arguments_on_stack finds where they begin.
Begins(st, x) ==
  \/ IsHeader(st[x]) /\ st[x] # argument_limit_marker
  \/ ~IsHeader(st[x]) /\ st[x - 1] = argument_limit_marker
ArgsIn(st, T, n) ==
  /\ n \in Nat /\ bottom <= T - n
  /\ \A i \in T - n + 1 .. T : ~IsHeader(st[i])
  /\ Begins(st, T - n)

\* What a continuation saves: the cells that an exception or an interrupt adds to the
\* arguments, and the count of the stack that goes on when they are gone.
Extra(template) == IF template \in {"exception", "interrupt"} THEN 4 ELSE 0
Account(args, template, pc) ==
  IF template = "exception" THEN args[Len(args)].pc
  ELSE IF template = "interrupt" THEN args[Len(args) - 1].pc ELSE pc

\* Arguments are few, unless some of them cannot be passed on.
Few(args, n) == n <= MaxArgs \/ \E i \in 1 .. n : "proc" \notin DOMAIN args[i]

\* used and room, where the stack goes up to T.
Affordable(used, room, T) == used \in Int /\ room \in Int /\ used <= room /\ T + room - used <= Limit

\* A continuation whose arguments are above base.
Frame(args, template, pc, base) ==
  /\ IsSeq(args) /\ \A i \in 1 .. Len(args) : ~IsHeader(args[i])
  /\ Len(args) >= Extra(template) /\ Few(args, Len(args) - Extra(template))
  /\ template = "consumer" => Len(args) = 1 /\ args[1].proc \in Procs
  /\ LET account == Account(args, template, pc)
     IN Affordable(account[1], account[2], base + Len(args) - Extra(template))

HeapFrame(k) == Frame(k.args, k.template, k.pc, bottom) /\ k.env \in Int /\ ~within_stack(k.env)
SafeConts(k) == IsSeq(k) /\ \A i \in 1 .. Len(k) : HeapFrame(k[i])
SafeHeap(heap) ==
  /\ IsFiniteSet(DOMAIN heap)
  /\ \A id \in DOMAIN heap :
       /\ heap[id].parent \in Int /\ ~within_stack(heap[id].parent)
       /\ IsSeq(heap[id].vals) /\ \A i \in 1 .. Len(heap[id].vals) : ~IsHeader(heap[id].vals[i])

\* K is the chain of continuations on the stack, E a set of environments there, which
\* has all that are in use.
ContLow(s, c) == c - 4 - s.stack[c].size
EnvLow(s, e) == e - s.stack[e].size
EnvAbove(s, e) == s.stack[e - 1].env

Continuation(s, K, c) ==
  /\ ContOf(s, c) \in K /\ ContOf(s, c) < ContLow(s, c)
  /\ \A d \in K : d < c => d <= ContOf(s, c)
  /\ Frame(ArgsOf(s, c), s.stack[c - 3].template, s.stack[c - 2].pc, ContLow(s, c) - 1)
  /\ ArgsIn(s.stack, c - 5, s.stack[c].size)
Conts(s, K) ==
  /\ K \subseteq bottom .. Top(s) /\ bottom \in K /\ s.cont \in K /\ \A c \in K : c <= s.cont
  /\ s.stack[bottom].size = 0
  /\ \A c \in K : /\ IsHeader(s.stack[c]) /\ s.stack[c].header = "continuation"
                  /\ s.stack[c].size \in Nat /\ EnvOf(s, c) \in Int
  /\ \A c \in K \ {bottom} : Continuation(s, K, c)
Envs(s, E) ==
  /\ E \subseteq bottom + 1 .. Top(s)
  /\ \A e \in E : /\ IsEnvironment(s.stack[e]) /\ ~IsForwarded(s.stack[e])
                  /\ s.stack[e].id \in Nat /\ EnvAbove(s, e) \in Int
                  /\ s.stack[e].size \in Nat /\ s.stack[e].size >= 1 /\ EnvLow(s, e) > bottom
                  /\ \A i \in EnvLow(s, e) .. e - 2 : ~IsHeader(s.stack[i])
Apart(s, K, E) ==
  \A x \in K \cup E : /\ \A c \in K : x < c => x < ContLow(s, c)
                      /\ \A e \in E : x < e => x < EnvLow(s, e)

\* What is at y refers to x: no environment is between them, and the continuations there
\* refer to x as well.
Refers(s, K, E, y, x) ==
  x > 0 => /\ x \in E /\ x < y
           /\ \A e \in E : e < y => e <= x
           /\ \A c \in K : x < c /\ c < y => EnvOf(s, c) = x
References(s, K, E) ==
  /\ \A c \in K : Refers(s, K, E, c, EnvOf(s, c))
  /\ \A e \in E : Refers(s, K, E, e, EnvAbove(s, e))

Sound(s, K, E) == Conts(s, K) /\ Envs(s, E) /\ Apart(s, K, E) /\ References(s, K, E)

\* The machine between two steps of an instruction, with n arguments; the environment
\* register, where that matters, is env.
Good(s, env, n) ==
  /\ Machine(s) /\ SafeHeap(s.heap) /\ SafeConts(HeapConts(s))
  /\ ArgsIn(s.stack, Top(s), n)
  /\ env \in Int
  /\ \E K, E : Sound(s, K, E) /\ Refers(s, K, E, Top(s) + 1, env)

Running(s, n) ==
  /\ Affordable(s.used, s.room, Top(s)) /\ Few(TopArgs(s, n), n)
  /\ s.overrun = FALSE

-----------------------------------------------------------------------------
(* What stays when the stack changes above p, or in the bottom continuation's *)
(* cont field.                                                             *)

LEMMA TopNat == ASSUME NEW s, Machine(s) PROVE Top(s) \in Nat /\ Top(s) = Len(s.stack)
BY SeqFacts DEF Machine, Top

LEMMA Numbers ==
  ASSUME NEW s, Machine(s), NEW K, NEW E, Sound(s, K, E)
  PROVE  /\ Top(s) \in Nat /\ bottom = 5 /\ K \subseteq Nat /\ E \subseteq Nat
         /\ \A c \in K : /\ s.stack[c].size \in Nat /\ ContLow(s, c) \in Int /\ ContLow(s, c) <= c - 4
                         /\ c \in Int /\ c <= Top(s) /\ c >= 5
         /\ \A c \in K \ {bottom} : ContLow(s, c) > 5 /\ c > 5
         /\ \A e \in E : /\ s.stack[e].size \in Nat /\ EnvLow(s, e) \in Int /\ EnvLow(s, e) <= e - 1
                         /\ e \in Int /\ e <= Top(s) /\ e > 5 /\ EnvLow(s, e) > 5
<1>1. Top(s) \in Nat /\ bottom = 5
  BY TopNat DEF bottom, continuation_stack_size
<1>2. Conts(s, K) /\ Envs(s, E) /\ Apart(s, K, E)
  BY DEF Sound
<1>3. K \subseteq Nat /\ E \subseteq Nat /\ \A c \in K : c <= Top(s) /\ c >= 5
  BY <1>1, <1>2 DEF Conts, Envs
<1>4. \A c \in K : s.stack[c].size \in Nat /\ ContLow(s, c) \in Int /\ ContLow(s, c) <= c - 4
  BY <1>2, <1>3 DEF Conts, ContLow
<1>5. \A c \in K \ {bottom} : ContLow(s, c) > 5 /\ c > 5
  BY <1>1, <1>2, <1>3 DEF Conts, Apart
<1>6. \A e \in E : /\ s.stack[e].size \in Nat /\ EnvLow(s, e) \in Int /\ EnvLow(s, e) <= e - 1
                   /\ e <= Top(s) /\ e > 5 /\ EnvLow(s, e) > 5
  <2>1. SUFFICES ASSUME NEW e \in E
                 PROVE  /\ s.stack[e].size \in Nat /\ EnvLow(s, e) \in Int /\ EnvLow(s, e) <= e - 1
                        /\ e <= Top(s) /\ e > 5 /\ EnvLow(s, e) > 5
    OBVIOUS
  <2>2. /\ e \in bottom + 1 .. Top(s) /\ s.stack[e].size \in Nat /\ s.stack[e].size >= 1
        /\ EnvLow(s, e) > bottom
    BY <1>2 DEF Envs
  <2>3. PICK size : size = s.stack[e].size
    OBVIOUS
  <2>4. size \in Nat /\ size >= 1 /\ EnvLow(s, e) = e - size
    BY <2>2, <2>3 DEF EnvLow
  <2>5. QED
    BY <1>1, <2>2, <2>4
<1>7. \A c \in K : /\ s.stack[c].size \in Nat /\ ContLow(s, c) \in Int /\ ContLow(s, c) <= c - 4
                   /\ c \in Int /\ c <= Top(s) /\ c >= 5
  <2>1. SUFFICES ASSUME NEW c \in K PROVE c \in Int /\ c <= Top(s) /\ c >= 5
    BY <1>4
  <2>2. QED
    BY <1>3
<1>8. \A e \in E : e \in Int
  BY <1>3
<1>9. QED
  BY <1>1, <1>3, <1>5, <1>6, <1>7, <1>8

LEMMA ArgsStay ==
  ASSUME NEW st, NEW st2, NEW T \in Nat, NEW n \in Nat, ArgsIn(st, T, n),
         IsHeader(st[bottom]),
         \A i \in 1 .. T : i # bottom - 1 => st2[i] = st[i]
  PROVE  ArgsIn(st2, T, n)
<1>1. bottom = 5 /\ T - n \in Int /\ T - n >= 5
  BY DEF ArgsIn, bottom, continuation_stack_size
<1>2. \A i \in T - n .. T : st2[i] = st[i]
  BY <1>1
<1>3. CASE T - n = 5
  <2>1. IsHeader(st[T - n]) /\ st2[T - n] = st[T - n]
    BY <1>1, <1>2, <1>3
  <2>2. Begins(st2, T - n)
    BY <2>1 DEF ArgsIn, Begins
  <2>3. QED
    BY <1>1, <1>2, <2>2 DEF ArgsIn
<1>4. CASE T - n > 5
  <2>1. st2[T - n - 1] = st[T - n - 1] /\ st2[T - n] = st[T - n]
    BY <1>1, <1>4
  <2>2. Begins(st2, T - n)
    BY <2>1 DEF ArgsIn, Begins
  <2>3. QED
    BY <1>1, <1>2, <2>2 DEF ArgsIn
<1>5. QED
  BY <1>1, <1>3, <1>4

\* The fields of a continuation, and its arguments.
LEMMA FieldsStay ==
  ASSUME NEW s, Machine(s), NEW r, Machine(r), NEW c \in Nat, c <= Top(s), c <= Top(r),
         s.stack[c].size \in Nat, ContLow(s, c) >= 1,
         \A i \in ContLow(s, c) .. c : r.stack[i] = s.stack[i]
  PROVE  /\ r.stack[c] = s.stack[c] /\ ContLow(r, c) = ContLow(s, c)
         /\ ContOf(r, c) = ContOf(s, c) /\ EnvOf(r, c) = EnvOf(s, c)
         /\ r.stack[c - 3] = s.stack[c - 3] /\ r.stack[c - 2] = s.stack[c - 2]
         /\ ArgsOf(r, c) = ArgsOf(s, c)
<1>1. ContLow(s, c) \in Int /\ ContLow(s, c) <= c - 4 /\ c \in ContLow(s, c) .. c
  BY DEF ContLow
<1>2. /\ r.stack[c] = s.stack[c] /\ r.stack[c - 1] = s.stack[c - 1] /\ r.stack[c - 2] = s.stack[c - 2]
      /\ r.stack[c - 3] = s.stack[c - 3] /\ r.stack[c - 4] = s.stack[c - 4]
  BY <1>1
<1>3. ContLow(r, c) = ContLow(s, c) /\ ContOf(r, c) = ContOf(s, c) /\ EnvOf(r, c) = EnvOf(s, c)
  BY <1>2 DEF ContLow, ContOf, EnvOf
<1> DEFINE i == ContLow(s, c)
<1>4. IsSeq(s.stack) /\ IsSeq(r.stack) /\ c - 5 \in Int /\ i >= 1 /\ i <= c - 5 + 1
      /\ c - 5 <= Len(s.stack) /\ c - 5 <= Len(r.stack) /\ i \in Int
  BY <1>1, TopNat DEF Machine
<1>5. ArgsOf(s, c) = SubSeq(s.stack, i, c - 5) /\ ArgsOf(r, c) = SubSeq(r.stack, i, c - 5)
  BY <1>1, <1>2 DEF ArgsOf, ContLow
<1>6. \A k \in 1 .. c - 5 - i + 1 : k + i - 1 \in ContLow(s, c) .. c
  BY <1>1
<1> HIDE DEF i
<1>7. /\ IsSeq(ArgsOf(s, c)) /\ Len(ArgsOf(s, c)) = c - 5 - i + 1
      /\ \A k \in 1 .. c - 5 - i + 1 : ArgsOf(s, c)[k] = s.stack[k + i - 1]
  BY <1>4, <1>5, Part
<1>8. /\ IsSeq(ArgsOf(r, c)) /\ Len(ArgsOf(r, c)) = c - 5 - i + 1
      /\ \A k \in 1 .. c - 5 - i + 1 : ArgsOf(r, c)[k] = r.stack[k + i - 1]
  BY <1>4, <1>5, Part
<1>9. ArgsOf(r, c) = ArgsOf(s, c)
  <2>1. \A k \in 1 .. c - 5 - i + 1 : ArgsOf(r, c)[k] = ArgsOf(s, c)[k]
    BY <1>6, <1>7, <1>8
  <2>2. QED
    BY <1>7, <1>8, <2>1, SeqFacts
<1>10. QED
  BY <1>2, <1>3, <1>9

\* A lower part of the chain, and the environments below what is left, stay sound when
\* the stack changes only above p.
LEMMA Kept ==
  ASSUME NEW s, Machine(s), NEW K, NEW E, Sound(s, K, E),
         NEW r, Machine(r), NEW p \in Nat, p >= bottom, p <= Top(s), p <= Top(r),
         \A i \in 1 .. p : i # bottom - 1 => r.stack[i] = s.stack[i],
         NEW K2 \in SUBSET K, NEW E2 \in SUBSET E,
         bottom \in K2, r.cont \in K2, \A c \in K2 : c <= r.cont,
         \A x \in K2 \cup E2 : x <= p,
         \A c \in K : \A d \in K2 : c < d => c \in K2,
         \A e \in E : \A x \in K2 \cup E2 : e < x => e \in E2
  PROVE  /\ Sound(r, K2, E2)
         /\ \A c \in K2 : EnvOf(r, c) = EnvOf(s, c)
<1>1. /\ Top(s) \in Nat /\ Top(r) \in Nat /\ bottom = 5 /\ K \subseteq Nat /\ E \subseteq Nat
      /\ \A c \in K : s.stack[c].size \in Nat /\ ContLow(s, c) <= c - 4 /\ c >= 5
      /\ \A c \in K \ {bottom} : ContLow(s, c) > 5 /\ c > 5
      /\ \A e \in E : EnvLow(s, e) \in Int /\ EnvLow(s, e) <= e - 1 /\ e > 5 /\ EnvLow(s, e) > 5
  BY Numbers, TopNat
<1>2. Conts(s, K) /\ Envs(s, E) /\ Apart(s, K, E) /\ References(s, K, E)
  BY DEF Sound
<1>3. ASSUME NEW c \in K2 \ {bottom}
      PROVE  /\ r.stack[c] = s.stack[c] /\ ContLow(r, c) = ContLow(s, c)
             /\ ContOf(r, c) = ContOf(s, c) /\ EnvOf(r, c) = EnvOf(s, c)
             /\ r.stack[c - 3] = s.stack[c - 3] /\ r.stack[c - 2] = s.stack[c - 2]
             /\ ArgsOf(r, c) = ArgsOf(s, c)
  <2>4. c \in K \ {bottom} /\ c \in K2 \cup E2
    OBVIOUS
  <2>5. c \in Nat /\ c <= p /\ ContLow(s, c) > 5 /\ s.stack[c].size \in Nat
    BY <1>1, <2>4
  <2>1. c <= Top(s) /\ c <= Top(r)
    BY <1>1, <2>5
  <2>2. \A i \in ContLow(s, c) .. c : r.stack[i] = s.stack[i]
    BY <1>1, <2>5 DEF ContLow
  <2>6. ContLow(s, c) \in Int /\ ContLow(s, c) >= 1
    BY <2>5 DEF ContLow
  <2>3. QED
    BY <2>1, <2>2, <2>5, <2>6, FieldsStay
<1>4. r.stack[bottom] = s.stack[bottom] /\ ContLow(r, bottom) = ContLow(s, bottom)
      /\ EnvOf(r, bottom) = EnvOf(s, bottom)
  <2>1. r.stack[5] = s.stack[5] /\ r.stack[1] = s.stack[1]
    BY <1>1
  <2>2. QED
    BY <1>1, <2>1 DEF ContLow, EnvOf
<1>5. \A c \in K2 : /\ r.stack[c] = s.stack[c] /\ ContLow(r, c) = ContLow(s, c)
                    /\ EnvOf(r, c) = EnvOf(s, c)
  BY <1>3, <1>4
<1>6. ASSUME NEW e \in E2
      PROVE  /\ r.stack[e] = s.stack[e] /\ EnvAbove(r, e) = EnvAbove(s, e)
             /\ EnvLow(r, e) = EnvLow(s, e) /\ \A i \in EnvLow(s, e) .. e : r.stack[i] = s.stack[i]
  <2>1. e \in Nat /\ e <= p /\ EnvLow(s, e) > 5 /\ EnvLow(s, e) <= e - 1 /\ EnvLow(s, e) \in Int
    BY <1>1
  <2>2. \A i \in EnvLow(s, e) .. e : r.stack[i] = s.stack[i]
    BY <1>1, <2>1
  <2>3. r.stack[e] = s.stack[e] /\ r.stack[e - 1] = s.stack[e - 1]
    BY <2>1, <2>2
  <2>4. QED
    BY <2>2, <2>3 DEF EnvAbove, EnvLow
<1>7. Conts(r, K2)
  <2>1. K2 \subseteq bottom .. Top(r)
    BY <1>1, <1>2
  <2>2. ASSUME NEW c \in K2 \ {bottom} PROVE Continuation(r, K2, c)
    <3>1. Continuation(s, K, c)
      BY <1>2 DEF Conts
    <3>2. ContOf(s, c) \in K2
      <4>1. ContOf(s, c) \in K /\ ContOf(s, c) < ContLow(s, c)
        BY <3>1 DEF Continuation
      <4>4. c \in K /\ c \in Nat /\ s.stack[c].size \in Nat
        BY <1>1
      <4>6. ContLow(s, c) \in Int /\ ContLow(s, c) <= c - 4
        BY <4>4 DEF ContLow
      <4>5. ContLow(s, c) \in Int /\ ContLow(s, c) <= c - 4 /\ ContOf(s, c) \in Nat
        BY <1>1, <4>1, <4>6
      <4>2. ContOf(s, c) < c
        BY <4>1, <4>4, <4>5
      <4>3. QED
        BY <4>1, <4>2
    <3>3. ArgsIn(r.stack, c - 5, s.stack[c].size)
      <4>1. ArgsIn(s.stack, c - 5, s.stack[c].size) /\ s.stack[c].size \in Nat /\ IsHeader(s.stack[bottom])
        BY <3>1, <1>1, <1>2 DEF Continuation, Conts
      <4>2. c - 5 \in Nat /\ c - 5 <= p
        BY <1>1
      <4>3. \A i \in 1 .. c - 5 : i # bottom - 1 => r.stack[i] = s.stack[i]
        BY <4>2
      <4>4. QED
        BY <4>1, <4>2, <4>3, ArgsStay
    <3>4. QED
      BY <1>3, <3>1, <3>2, <3>3 DEF Continuation
  <2>3. QED
    BY <1>2, <1>4, <1>5, <2>1, <2>2 DEF Conts
<1>8. Envs(r, E2)
  <2>1. E2 \subseteq bottom + 1 .. Top(r)
    BY <1>1, <1>2
  <2>2. ASSUME NEW e \in E2
        PROVE  /\ IsEnvironment(r.stack[e]) /\ ~IsForwarded(r.stack[e])
               /\ r.stack[e].id \in Nat /\ EnvAbove(r, e) \in Int
               /\ r.stack[e].size \in Nat /\ r.stack[e].size >= 1 /\ EnvLow(r, e) > bottom
               /\ \A i \in EnvLow(r, e) .. e - 2 : ~IsHeader(r.stack[i])
    <3>1. /\ IsEnvironment(s.stack[e]) /\ ~IsForwarded(s.stack[e])
          /\ s.stack[e].id \in Nat /\ EnvAbove(s, e) \in Int
          /\ s.stack[e].size \in Nat /\ s.stack[e].size >= 1 /\ EnvLow(s, e) > bottom
          /\ \A i \in EnvLow(s, e) .. e - 2 : ~IsHeader(s.stack[i])
      BY <1>2 DEF Envs
    <3>2. \A i \in EnvLow(s, e) .. e - 2 : r.stack[i] = s.stack[i]
      BY <1>1, <1>6
    <3>3. QED
      BY <1>6, <3>1, <3>2
  <2>3. QED
    BY <2>1, <2>2 DEF Envs
<1>9. Apart(r, K2, E2)
  BY <1>2, <1>5, <1>6 DEF Apart
<1>10. References(r, K2, E2)
  <2>1. ASSUME NEW y, NEW x, y \in K2 \cup E2, Refers(s, K, E, y, x)
        PROVE  Refers(r, K2, E2, y, x)
    <3>1. y \in K \cup E
      BY <2>1
    <3>2. CASE x > 0
      <4>1. /\ x \in E /\ x < y
            /\ \A e \in E : e < y => e <= x
            /\ \A c \in K : x < c /\ c < y => EnvOf(s, c) = x
        BY <2>1, <3>2 DEF Refers
      <4>2. x \in E2
        BY <2>1, <4>1
      <4>3. QED
        BY <1>5, <4>1, <4>2 DEF Refers
    <3>3. CASE ~(x > 0)
      BY <3>3 DEF Refers
    <3>4. QED
      BY <3>2, <3>3
  <2>2. QED
    BY <1>2, <1>5, <1>6, <2>1 DEF References
<1>11. QED
  BY <1>5, <1>7, <1>8, <1>9, <1>10 DEF Sound

\* The same, for easier use.
Stays(s, r, p) == \A i \in 1 .. p : i # bottom - 1 => r.stack[i] = s.stack[i]
SameEnvs(s, r, K) == \A c \in K : EnvOf(r, c) = EnvOf(s, c)
LowerPart(K, E, K2, E2, p, c) ==
  /\ K2 \in SUBSET K /\ E2 \in SUBSET E /\ bottom \in K2 /\ c \in K2 /\ \A d \in K2 : d <= c
  /\ \A x \in K2 \cup E2 : x <= p
  /\ \A d \in K : \A x \in K2 : d < x => d \in K2
  /\ \A e \in E : \A x \in K2 \cup E2 : e < x => e \in E2

LEMMA KeptPart ==
  ASSUME NEW s, Machine(s), NEW K, NEW E, Sound(s, K, E), NEW r, Machine(r),
         NEW p, p \in Nat, p >= bottom, p <= Top(s), p <= Top(r), Stays(s, r, p),
         NEW K2, NEW E2, LowerPart(K, E, K2, E2, p, r.cont)
  PROVE  Sound(r, K2, E2) /\ SameEnvs(s, r, K2)
<1>1. /\ K2 \in SUBSET K /\ E2 \in SUBSET E /\ bottom \in K2 /\ r.cont \in K2 /\ \A c \in K2 : c <= r.cont
      /\ \A x \in K2 \cup E2 : x <= p
      /\ \A c \in K : \A d \in K2 : c < d => c \in K2
      /\ \A e \in E : \A x \in K2 \cup E2 : e < x => e \in E2
      /\ \A i \in 1 .. p : i # bottom - 1 => r.stack[i] = s.stack[i]
  BY DEF LowerPart, Stays
<1>2. Sound(r, K2, E2) /\ \A c \in K2 : EnvOf(r, c) = EnvOf(s, c)
  BY <1>1, Kept
<1>3. QED
  BY <1>2 DEF SameEnvs

-----------------------------------------------------------------------------
(* Pushing and removing arguments.                                         *)

\* arguments_on_stack counts exactly the arguments.
LEMMA ArgumentCount ==
  ASSUME NEW s, Machine(s), NEW n, ArgsIn(s.stack, Top(s), n)
  PROVE  arguments_on_stack(s) = n
<1> DEFINE T == Top(s)
           headers == {i \in 1 .. Top(s) : IsHeader(s.stack[i])}
<1>1. T \in Nat /\ n \in Nat /\ T - n >= 5 /\ \A i \in T - n + 1 .. T : ~IsHeader(s.stack[i])
  BY TopNat DEF ArgsIn, bottom, continuation_stack_size
<1>2. IsHeader(argument_limit_marker)
  BY DEF IsHeader, argument_limit_marker
<1>3. ASSUME NEW h \in headers, \A i \in headers : i <= h
      PROVE  TopHeader(s) = h
  <2>1. TopHeader(s) \in headers /\ \A i \in headers : i <= TopHeader(s)
    BY <1>3 DEF TopHeader
  <2>2. QED
    BY <1>1, <1>3, <2>1
<1>4. CASE IsHeader(s.stack[T - n]) /\ s.stack[T - n] # argument_limit_marker
  <2>1. T - n \in headers
    BY <1>1, <1>4
  <2>2. \A i \in headers : i <= T - n
    BY <1>1
  <2>3. TopHeader(s) = T - n
    <3> HIDE DEF headers
    <3>1. QED
      BY <1>3, <2>1, <2>2
  <2>4. QED
    BY <1>1, <1>4, <2>3 DEF arguments_on_stack
<1>5. CASE ~IsHeader(s.stack[T - n]) /\ s.stack[T - n - 1] = argument_limit_marker
  <2>1. T - n - 1 \in headers
    BY <1>1, <1>2, <1>5
  <2>2. \A i \in headers : i <= T - n - 1
    BY <1>1, <1>5
  <2>3. TopHeader(s) = T - n - 1
    <3> HIDE DEF headers
    <3>1. QED
      BY <1>3, <2>1, <2>2
  <2>4. QED
    BY <1>1, <1>5, <2>3 DEF arguments_on_stack
<1>6. QED
  BY <1>4, <1>5 DEF ArgsIn, Begins

\* The headers of continuations and environments are below the arguments.
LEMMA BelowArgs ==
  ASSUME NEW s, Machine(s), NEW K, NEW E, Sound(s, K, E), NEW n, ArgsIn(s.stack, Top(s), n)
  PROVE  \A x \in K \cup E : x <= Top(s) - n
<1>1. SUFFICES ASSUME NEW x \in K \cup E, x > Top(s) - n PROVE FALSE
  BY Numbers DEF ArgsIn
<1>2. IsHeader(s.stack[x])
  BY DEF Sound, Conts, Envs, IsEnvironment
<1>3. x \in Top(s) - n + 1 .. Top(s)
  BY <1>1, Numbers DEF ArgsIn
<1>4. QED
  BY <1>2, <1>3 DEF ArgsIn

\* Only these fields matter, and the register only if it refers to the stack.
LEMMA GoodSame ==
  ASSUME NEW s, NEW env, NEW n, Good(s, env, n), NEW r, Machine(r),
         r.stack = s.stack, r.cont = s.cont, r.heap = s.heap,
         NEW e \in Int, e = env \/ ~within_stack(e)
  PROVE  Good(r, e, n)
<1>1. PICK K, E : Sound(s, K, E) /\ Refers(s, K, E, Top(s) + 1, env)
  BY DEF Good
<1>2. Top(r) = Top(s) /\ HeapConts(r) = HeapConts(s)
  BY DEF Top, HeapConts
<1>3. Sound(r, K, E)
  BY <1>1, <1>2 DEF Sound, Conts, Continuation, Envs, Apart, References, Refers, ContOf, EnvOf, ArgsOf,
                    ContLow, EnvLow, EnvAbove
<1>4. Refers(r, K, E, Top(r) + 1, e)
  BY <1>1, <1>2 DEF Refers, within_stack, EnvOf
<1>5. QED
  BY <1>2, <1>3, <1>4 DEF Good

LEMMA RefersTop ==
  ASSUME NEW s, NEW K, NEW E, NEW y \in Int, NEW x, Refers(s, K, E, y, x),
         NEW r, \A c \in K : EnvOf(r, c) = EnvOf(s, c),
         NEW y2 \in Int, \A z \in K \cup E : z \in Int /\ z < y /\ z < y2
  PROVE  Refers(r, K, E, y2, x)
<1>1. SUFFICES ASSUME x > 0 PROVE Refers(r, K, E, y2, x)
  BY DEF Refers
<1>2. /\ x \in E /\ \A e \in E : e <= x
      /\ \A c \in K : x < c => EnvOf(s, c) = x
  BY <1>1 DEF Refers
<1>3. QED
  BY <1>2 DEF Refers

LEMMA GoodPush ==
  ASSUME NEW s, NEW env, NEW n, Good(s, env, n),
         NEW cells, IsSeq(cells), \A i \in 1 .. Len(cells) : ~IsHeader(cells[i]),
         NEW r, r = push_all(s, cells)
  PROVE  /\ Good(r, env, n + Len(cells)) /\ SameBut(s, r) /\ HeapConts(r) = HeapConts(s)
         /\ r.stack = s.stack \o cells /\ Top(r) = Top(s) + Len(cells)
         /\ r.overrun = (s.overrun \/ Top(s) + Len(cells) > LastCell)
<1>1. /\ Machine(s) /\ SafeHeap(s.heap) /\ SafeConts(HeapConts(s))
      /\ ArgsIn(s.stack, Top(s), n) /\ env \in Int
  BY DEF Good
<1>2. PICK K, E : Sound(s, K, E) /\ Refers(s, K, E, Top(s) + 1, env)
  BY DEF Good
<1>3. /\ Machine(r) /\ SameBut(s, r) /\ r.stack = s.stack \o cells
      /\ Top(r) = Top(s) + Len(cells)
      /\ r.overrun = (s.overrun \/ Top(s) + Len(cells) > LastCell)
  BY <1>1, PushedAll DEF LastCell
<1>4. /\ Top(s) \in Nat /\ Len(cells) \in Nat /\ Top(s) = Len(s.stack) /\ bottom = 5 /\ IsSeq(s.stack)
      /\ n \in Nat /\ Top(s) - n >= 5 /\ K \subseteq Nat /\ E \subseteq Nat
  BY <1>1, <1>2, TopNat, SeqFacts, Numbers DEF ArgsIn, Machine, bottom, continuation_stack_size
<1>5. /\ \A i \in 1 .. Top(s) : r.stack[i] = s.stack[i]
      /\ \A i \in 1 .. Len(cells) : r.stack[Top(s) + i] = cells[i]
  <2>1. PICK st : st = s.stack
    OBVIOUS
  <2>2. IsSeq(st) /\ IsSeq(cells)
    BY <1>2, <1>4, <2>1
  <2>3. /\ \A i \in 1 .. Len(st) : (st \o cells)[i] = st[i]
        /\ \A i \in 1 .. Len(cells) : (st \o cells)[Len(st) + i] = cells[i]
    BY <2>2, Concatenated
  <2>4. QED
    BY <1>3, <1>4, <2>1, <2>3
<1>6. ArgsIn(r.stack, Top(r), n + Len(cells))
  <2>1. \A i \in Top(s) + 1 .. Top(s) + Len(cells) : ~IsHeader(r.stack[i])
    <3>1. ASSUME NEW i \in Top(s) + 1 .. Top(s) + Len(cells) PROVE ~IsHeader(r.stack[i])
      <4>1. i - Top(s) \in 1 .. Len(cells) /\ Top(s) + (i - Top(s)) = i
        BY <1>4
      <4>2. r.stack[i] = cells[i - Top(s)]
        BY <1>5, <4>1
      <4>3. QED
        BY <4>1, <4>2
    <3>2. QED
      BY <3>1
  <2>2. \A i \in Top(s) - n + 1 .. Top(s) : ~IsHeader(r.stack[i])
    BY <1>1, <1>4, <1>5 DEF ArgsIn
  <2>3. Begins(s.stack, Top(s) - n) => Begins(r.stack, Top(s) - n)
    <3>1. Top(s) - n \in 1 .. Top(s) /\ Top(s) - n - 1 \in 1 .. Top(s)
      BY <1>4
    <3>2. QED
      BY <1>5, <3>1 DEF Begins
  <2>4. Top(r) - (n + Len(cells)) = Top(s) - n /\ n + Len(cells) \in Nat
    BY <1>3, <1>4
  <2>5. \A i \in Top(s) - n + 1 .. Top(s) + Len(cells) : ~IsHeader(r.stack[i])
    BY <1>4, <2>1, <2>2
  <2>6. QED
    BY <1>1, <1>3, <1>4, <2>3, <2>4, <2>5 DEF ArgsIn
<1>7. HeapConts(r) = HeapConts(s)
  BY <1>4, <1>5 DEF HeapConts
<1>8. Sound(r, K, E) /\ \A c \in K : EnvOf(r, c) = EnvOf(s, c)
  <2>1. /\ Top(s) >= bottom /\ Top(s) <= Top(r) /\ bottom \in K /\ r.cont \in K /\ \A c \in K : c <= r.cont
        /\ K \in SUBSET K /\ E \in SUBSET E /\ \A x \in K \cup E : x <= Top(s)
    <3>1. \A x \in K \cup E : x <= Top(s)
      BY <1>1, <1>2, Numbers
    <3>2. QED
      BY <1>2, <1>3, <1>4, <3>1 DEF SameBut, Sound, Conts
  <2>3. /\ \A c \in K : \A d \in K : c < d => c \in K
        /\ \A e \in E : \A x \in K \cup E : e < x => e \in E
    OBVIOUS
  <2>4. \A i \in 1 .. Top(s) : i # bottom - 1 => r.stack[i] = s.stack[i]
    BY <1>5
  <2>5. PICK p \in Nat : p = Top(s)
    BY <1>4
  <2>6. \A x \in K \cup E : x <= p
    BY <2>1, <2>5
  <2>7. p >= bottom /\ p <= Top(s) /\ p <= Top(r) /\ Machine(s) /\ Machine(r) /\ Sound(s, K, E)
    BY <1>1, <1>2, <1>3, <1>4, <2>1, <2>5
  <2>8. \A i \in 1 .. p : i # bottom - 1 => r.stack[i] = s.stack[i]
    BY <2>4, <2>5
  <2>2. QED
    BY <2>1, <2>3, <2>6, <2>7, <2>8, Kept
<1>9. Refers(r, K, E, Top(r) + 1, env)
  <2>1. \A x \in K \cup E : x \in Int /\ x <= Top(s)
    BY <1>1, <1>2, <1>4, Numbers
  <2>2. /\ Top(s) + 1 \in Int /\ Top(r) + 1 \in Int
        /\ \A z \in K \cup E : z \in Int /\ z < Top(s) + 1 /\ z < Top(r) + 1
    BY <1>3, <1>4, <2>1
  <2>3. QED
    BY <1>2, <1>8, <2>2, RefersTop
<1>10. QED
  BY <1>1, <1>3, <1>6, <1>7, <1>8, <1>9 DEF Good, SameBut

LEMMA GoodRemove ==
  ASSUME NEW s, NEW env, NEW n, Good(s, env, n), NEW k \in 0 .. n,
         NEW r, r = remove_stack_arguments(s, k)
  PROVE  /\ Good(r, env, n - k) /\ SameBut(s, r) /\ HeapConts(r) = HeapConts(s)
         /\ Top(r) = Top(s) - k /\ r.overrun = s.overrun
         /\ \A i \in 1 .. Top(s) - k : r.stack[i] = s.stack[i]
<1>1. /\ Machine(s) /\ SafeHeap(s.heap) /\ SafeConts(HeapConts(s))
      /\ ArgsIn(s.stack, Top(s), n) /\ env \in Int
  BY DEF Good
<1>2. PICK K, E : Sound(s, K, E) /\ Refers(s, K, E, Top(s) + 1, env)
  BY DEF Good
<1>3. /\ Top(s) \in Nat /\ bottom = 5 /\ n \in Nat /\ Top(s) - n >= 5 /\ k \in Nat /\ k <= n
      /\ K \subseteq Nat /\ E \subseteq Nat
  BY <1>1, <1>2, TopNat, Numbers DEF ArgsIn, bottom, continuation_stack_size
<1>4. /\ Machine(r) /\ SameBut(s, r) /\ r.overrun = s.overrun
      /\ Top(r) = Top(s) - k /\ \A i \in 1 .. Top(s) - k : r.stack[i] = s.stack[i]
  <2>1. k <= Top(s)
    BY <1>3
  <2>2. QED
    BY <1>1, <1>3, <2>1, Removed
<1>5. ArgsIn(r.stack, Top(r), n - k)
  <2>1. Top(r) - (n - k) = Top(s) - n /\ n - k \in Nat
    BY <1>3, <1>4
  <2>2. \A i \in Top(s) - n + 1 .. Top(r) : ~IsHeader(r.stack[i])
    BY <1>1, <1>3, <1>4 DEF ArgsIn
  <2>3. r.stack[Top(s) - n] = s.stack[Top(s) - n] /\ r.stack[Top(s) - n - 1] = s.stack[Top(s) - n - 1]
    BY <1>3, <1>4
  <2>4. QED
    BY <1>1, <1>3, <2>1, <2>2, <2>3 DEF ArgsIn, Begins
<1>6. HeapConts(r) = HeapConts(s)
  <2>1. r.stack[4] = s.stack[4]
    BY <1>3, <1>4
  <2>2. QED
    BY <1>3, <2>1 DEF HeapConts
<1>7. \A x \in K \cup E : x \in Int /\ x <= Top(r)
  <2>1. \A x \in K \cup E : x <= Top(s) - n
    BY <1>1, <1>2, BelowArgs
  <2>2. QED
    BY <1>3, <1>4, <2>1
<1>8. Sound(r, K, E) /\ \A c \in K : EnvOf(r, c) = EnvOf(s, c)
  <2>1. /\ Top(r) \in Nat /\ Top(r) >= bottom /\ Top(r) <= Top(s)
        /\ bottom \in K /\ r.cont \in K /\ \A c \in K : c <= r.cont
        /\ K \in SUBSET K /\ E \in SUBSET E
    BY <1>2, <1>3, <1>4 DEF SameBut, Sound, Conts
  <2>2. QED
    BY <1>1, <1>2, <1>4, <1>7, <2>1, Kept
<1>9. Refers(r, K, E, Top(r) + 1, env)
  <2>1. /\ Top(s) + 1 \in Int /\ Top(r) + 1 \in Int
        /\ \A z \in K \cup E : z \in Int /\ z < Top(s) + 1 /\ z < Top(r) + 1
    BY <1>3, <1>4, <1>7
  <2>2. QED
    BY <1>2, <1>8, <2>1, RefersTop
<1>10. QED
  BY <1>1, <1>4, <1>5, <1>6, <1>8, <1>9 DEF Good, SameBut

-----------------------------------------------------------------------------
(* Chains.                                                                 *)

LEMMA Least ==
  ASSUME NEW S, S \subseteq Nat, S # {}
  PROVE  \E x \in S : \A y \in S : x <= y
<1>1. PICK x \in S : \A y \in S : ~ (<<y, x>> \in OpToRel(<, Nat))
  BY NatLessThanWellFounded, WFMin
<1>2. \A y \in S : ~(y < x)
  BY <1>1 DEF OpToRel
<1>3. QED
  BY <1>2

\* The continuations from c0 on are the members of K that are not above it, in order.
LEMMA ContsChain ==
  ASSUME NEW s, Machine(s), NEW K, Conts(s, K), NEW c0 \in K, NEW cs, cs = StackConts(s, c0)
  PROVE  /\ IsSeq(cs) /\ Len(cs) \in Nat /\ Len(cs) >= 1 /\ cs[1] = c0 /\ cs[Len(cs)] = bottom
         /\ \A i \in 1 .. Len(cs) : cs[i] \in K
         /\ \A i \in 1 .. Len(cs) - 1 : cs[i] # bottom /\ cs[i + 1] = ContOf(s, cs[i])
         /\ \A i \in 1 .. Len(cs) : \A j \in 1 .. i - 1 : cs[i] < cs[j]
         /\ \A c \in K : c <= c0 => \E i \in 1 .. Len(cs) : cs[i] = c
<1> DEFINE next == [d \in Headers(s, "continuation") |-> IF d = bottom THEN 0 ELSE ContOf(s, d)]
<1>1. Top(s) \in Nat /\ bottom = 5 /\ K \subseteq Nat /\ \A c \in K : c >= 5 /\ c <= Top(s)
  BY TopNat DEF Conts, bottom, continuation_stack_size
<1>2. DOMAIN next = Headers(s, "continuation") /\ DOMAIN next \subseteq 1 .. Top(s)
  BY DEF Headers
<1>3. K \subseteq DOMAIN next
  BY <1>1, <1>2 DEF Headers, Conts
<1>4. \A c \in K \ {bottom} : next[c] = ContOf(s, c) /\ next[c] \in K /\ next[c] < c
                              /\ \A d \in K : d < c => d <= next[c]
  <2>1. ASSUME NEW c \in K \ {bottom}
        PROVE  ContOf(s, c) \in K /\ ContOf(s, c) < c /\ \A d \in K : d < c => d <= ContOf(s, c)
    <3>1. /\ ContOf(s, c) \in K /\ ContOf(s, c) < ContLow(s, c) /\ s.stack[c].size \in Nat
          /\ \A d \in K : d < c => d <= ContOf(s, c)
      BY DEF Conts, Continuation
    <3>2. ContOf(s, c) \in Nat /\ c \in Nat /\ ContLow(s, c) = c - 4 - s.stack[c].size
      BY <1>1, <3>1 DEF ContLow
    <3>3. ContOf(s, c) < c
      BY <3>1, <3>2
    <3>4. QED
      BY <3>1, <3>3
  <2>2. QED
    BY <1>3, <2>1
<1>5. next[bottom] = 0 /\ bottom \in K
  BY <1>3 DEF Conts
<1>6. cs = Descent(next, c0)
  BY DEF StackConts
<1> HIDE DEF next
<1>7. Descends(next, cs, c0)
  BY <1>1, <1>2, <1>3, <1>6, DescentDescends
<1>8. IsSeq(cs) /\ Len(cs) \in Nat /\ Len(cs) >= 1 /\ cs[1] = c0
  BY <1>7, SeqOf DEF Descends
<1>9. \A i \in 1 .. Len(cs) - 1 : cs[i] \in K => cs[i] # bottom /\ cs[i + 1] = ContOf(s, cs[i])
                                                /\ cs[i + 1] \in K /\ cs[i + 1] < cs[i]
  <2>1. ASSUME NEW i \in 1 .. Len(cs) - 1, cs[i] \in K
        PROVE  cs[i] # bottom /\ cs[i + 1] = ContOf(s, cs[i]) /\ cs[i + 1] \in K /\ cs[i + 1] < cs[i]
    <3>1. cs[i + 1] = next[cs[i]] /\ i + 1 \in 1 .. Len(cs) /\ cs \in Seq(DOMAIN next)
      BY <1>7, <1>8 DEF Descends
    <3>2. cs[i + 1] \in 1 .. Top(s)
      BY <1>2, <3>1
    <3>3. cs[i] # bottom
      BY <1>5, <3>1, <3>2
    <3>4. QED
      BY <1>4, <2>1, <3>1, <3>3
  <2>2. QED
    BY <2>1
<1> DEFINE D == {n \in 0 .. Len(cs) - 1 : cs[n + 1] \in K}
<1>10. 0 \in D
  BY <1>8
<1>11. ASSUME NEW n \in 1 .. Len(cs) - 1, n - 1 \in D PROVE n \in D
  <2>1. n - 1 + 1 = n /\ n \in 1 .. Len(cs) - 1
    OBVIOUS
  <2>2. cs[n] \in K
    BY <1>11, <2>1
  <2>3. cs[n + 1] \in K
    BY <1>9, <2>2
  <2>4. QED
    BY <1>8, <2>3
<1>12. 0 .. Len(cs) - 1 \subseteq D
  <2>1. Len(cs) - 1 \in Nat
    BY <1>8
  <2> HIDE DEF D
  <2>2. QED
    BY <1>10, <1>11, <2>1, InductionTo
<1>13. \A i \in 1 .. Len(cs) : cs[i] \in K
  <2>1. ASSUME NEW i \in 1 .. Len(cs) PROVE cs[i] \in K
    <3>1. i - 1 \in 0 .. Len(cs) - 1 /\ i - 1 + 1 = i
      BY <1>8
    <3>2. i - 1 \in D
      BY <1>12, <3>1
    <3>3. QED
      BY <3>1, <3>2
  <2>2. QED
    BY <2>1
<1>14. \A i \in 1 .. Len(cs) - 1 : /\ cs[i] # bottom /\ cs[i + 1] = ContOf(s, cs[i])
                                   /\ cs[i + 1] < cs[i]
  BY <1>8, <1>9, <1>13
<1>15. cs[Len(cs)] = bottom
  <2>1. SUFFICES ASSUME cs[Len(cs)] # bottom PROVE FALSE
    OBVIOUS
  <2>2. cs[Len(cs)] \in K
    BY <1>8, <1>13
  <2>3. next[cs[Len(cs)]] \in DOMAIN next /\ next[cs[Len(cs)]] < cs[Len(cs)]
    BY <1>3, <1>4, <2>1, <2>2
  <2>4. QED
    BY <1>7, <2>3 DEF Descends
<1> DEFINE F == {n \in 0 .. Len(cs) : \A j \in 1 .. n - 1 : cs[n] < cs[j]}
<1>16. 0 \in F
  BY <1>8
<1>17. ASSUME NEW n \in 1 .. Len(cs), n - 1 \in F PROVE n \in F
  <2>1. ASSUME NEW j \in 1 .. n - 1 PROVE cs[n] < cs[j]
    <3>1. n - 1 \in 1 .. Len(cs) - 1 /\ n - 1 + 1 = n /\ j \in 1 .. Len(cs)
      BY <1>8
    <3>2. cs[n] < cs[n - 1]
      BY <1>14, <3>1
    <3>7. n - 1 \in 1 .. Len(cs) /\ n \in 1 .. Len(cs)
      BY <1>8, <3>1
    <3>3. cs[n] \in Nat /\ cs[n - 1] \in Nat /\ cs[j] \in Nat
      BY <1>1, <1>13, <3>1, <3>7
    <3>4. CASE j = n - 1
      BY <3>2, <3>4
    <3>5. CASE j # n - 1
      <4>1. j \in 1 .. n - 1 - 1
        BY <3>5
      <4>2. cs[n - 1] < cs[j]
        BY <1>17, <4>1
      <4>3. QED
        BY <3>2, <3>3, <4>2
    <3>6. QED
      BY <3>4, <3>5
  <2>2. QED
    BY <2>1
<1>18. 0 .. Len(cs) \subseteq F
  <2> HIDE DEF F
  <2>1. QED
    BY <1>8, <1>16, <1>17, InductionTo
<1>19. \A i \in 1 .. Len(cs) : \A j \in 1 .. i - 1 : cs[i] < cs[j]
  BY <1>18
<1>20. ASSUME NEW c \in K, c <= c0 PROVE \E i \in 1 .. Len(cs) : cs[i] = c
  <2> DEFINE G == {n \in 0 .. Len(cs) - 1 : cs[n + 1] > c}
  <2>1. SUFFICES ASSUME ~\E i \in 1 .. Len(cs) : cs[i] = c PROVE FALSE
    OBVIOUS
  <2>2. 0 \in G
    <3>1. cs[1] # c /\ c0 \in Nat /\ c \in Nat
      BY <1>1, <1>8, <2>1
    <3>2. QED
      BY <1>8, <1>20, <3>1
  <2>3. ASSUME NEW n \in 1 .. Len(cs) - 1, n - 1 \in G PROVE n \in G
    <3>1. cs[n] > c /\ n \in 1 .. Len(cs)
      BY <1>8, <2>3
    <3>2. cs[n] \in K \ {bottom} /\ cs[n + 1] = ContOf(s, cs[n]) /\ cs[n + 1] \in K
      BY <1>8, <1>13, <1>14, <3>1
    <3>3. c <= cs[n + 1]
      BY <1>4, <3>1, <3>2
    <3>4. cs[n + 1] # c
      BY <1>8, <2>1
    <3>5. cs[n + 1] \in Nat /\ c \in Nat
      BY <1>1, <3>2
    <3>6. QED
      BY <3>3, <3>4, <3>5
  <2>4. 0 .. Len(cs) - 1 \subseteq G
    <3>1. Len(cs) - 1 \in Nat
      BY <1>8
    <3> HIDE DEF G
    <3>2. QED
      BY <2>2, <2>3, <3>1, InductionTo
  <2>5. Len(cs) - 1 \in G
    <3>1. Len(cs) - 1 \in 0 .. Len(cs) - 1
      BY <1>8
    <3> HIDE DEF G
    <3>2. QED
      BY <2>4, <3>1
  <2>6. cs[Len(cs)] > c
    BY <1>8, <2>5
  <2>7. QED
    BY <1>1, <1>15, <2>6
<1>21. QED
  BY <1>8, <1>13, <1>14, <1>15, <1>19, <1>20

\* The environments from e on: each goes on to the one around it, while that is on the stack.
LEMMA EnvsChain ==
  ASSUME NEW s, Machine(s), NEW K, NEW E, Sound(s, K, E), NEW e \in E, NEW C, C = StackEnvs(s, e)
  PROVE  /\ C \subseteq E /\ e \in C /\ \A x \in C : x <= e
         /\ \A x \in C : EnvAbove(s, x) > 0 => EnvAbove(s, x) \in C
         /\ \A x \in C : x # e => \E y \in C : EnvAbove(s, y) = x
         /\ \E z \in C : \A x \in C : z <= x
<1> DEFINE next == [x \in Headers(s, "environment") |-> env_parent(s, x)]
           chain == Descent(next, e)
<1>1. /\ Top(s) \in Nat /\ E \subseteq Nat /\ K \subseteq Nat
      /\ \A x \in E : x <= Top(s) /\ x > 5
  BY Numbers
<1>2. DOMAIN next = Headers(s, "environment") /\ DOMAIN next \subseteq 1 .. Top(s)
  BY DEF Headers
<1>3. E \subseteq DOMAIN next
  BY <1>1, <1>2 DEF Headers, Sound, Envs, IsEnvironment
<1>4. \A x \in E : next[x] = EnvAbove(s, x) /\ EnvAbove(s, x) \in Int
                   /\ (EnvAbove(s, x) > 0 => EnvAbove(s, x) \in E /\ EnvAbove(s, x) < x)
  <2>1. \A x \in E : env_parent(s, x) = EnvAbove(s, x)
    <3>1. SUFFICES ASSUME NEW x \in E PROVE env_parent(s, x) = EnvAbove(s, x)
      OBVIOUS
    <3>2. within_stack(x)
      BY <1>1 DEF within_stack
    <3>3. QED
      BY <3>2 DEF env_parent, EnvAbove
  <2>2. \A x \in E : EnvAbove(s, x) > 0 => EnvAbove(s, x) \in E /\ EnvAbove(s, x) < x
    BY DEF Sound, References, Refers
  <2>3. \A x \in E : EnvAbove(s, x) \in Int
    BY DEF Sound, Envs
  <2>4. QED
    BY <1>3, <2>1, <2>2, <2>3
<1>5. C = {chain[i] : i \in DOMAIN chain}
  BY DEF StackEnvs
<1> HIDE DEF next
<1>6. Descends(next, chain, e)
  BY <1>1, <1>2, <1>3, DescentDescends
<1> HIDE DEF chain
<1>7. /\ Len(chain) \in Nat /\ Len(chain) >= 1 /\ chain[1] = e /\ DOMAIN chain = 1 .. Len(chain)
      /\ \A i \in 1 .. Len(chain) : chain[i] \in 1 .. Top(s)
  BY <1>2, <1>6 DEF Descends
<1>8. \A i \in 1 .. Len(chain) - 1 : chain[i + 1] = next[chain[i]] /\ next[chain[i]] < chain[i]
  BY <1>6 DEF Descends
<1> DEFINE D == {n \in 0 .. Len(chain) - 1 : chain[n + 1] \in E /\ chain[n + 1] <= e}
<1>9. 0 \in D
  BY <1>1, <1>7
<1>10. ASSUME NEW n \in 1 .. Len(chain) - 1, n - 1 \in D PROVE n \in D
  <2>1. chain[n] \in E /\ chain[n] <= e /\ n \in 1 .. Len(chain) - 1
    BY <1>7, <1>10
  <2>2. chain[n + 1] = EnvAbove(s, chain[n]) /\ chain[n + 1] \in 1 .. Top(s) /\ chain[n + 1] < chain[n]
    BY <1>4, <1>7, <1>8, <2>1
  <2>3. chain[n + 1] \in E
    BY <1>4, <2>1, <2>2
  <2>6. chain[n + 1] \in Nat /\ chain[n] \in Nat /\ e \in Nat
    BY <1>1, <2>1, <2>3
  <2>4. chain[n + 1] <= e
    BY <2>1, <2>2, <2>6
  <2>5. QED
    BY <1>7, <2>3, <2>4
<1>11. 0 .. Len(chain) - 1 \subseteq D
  <2>1. Len(chain) - 1 \in Nat
    BY <1>7
  <2> HIDE DEF D
  <2>2. QED
    BY <1>9, <1>10, <2>1, InductionTo
<1>12. \A i \in 1 .. Len(chain) : chain[i] \in E /\ chain[i] <= e
  <2>1. ASSUME NEW i \in 1 .. Len(chain) PROVE chain[i] \in E /\ chain[i] <= e
    <3>1. i - 1 \in 0 .. Len(chain) - 1 /\ i - 1 + 1 = i
      BY <1>7
    <3>2. i - 1 \in D
      BY <1>11, <3>1
    <3>3. QED
      BY <3>1, <3>2
  <2>2. QED
    BY <2>1
<1>13. \A x \in C : \E i \in 1 .. Len(chain) : x = chain[i]
  BY <1>5, <1>7
<1>14. \A i \in 1 .. Len(chain) : chain[i] \in C
  BY <1>5, <1>7
<1>15. C \subseteq E /\ e \in C /\ \A x \in C : x <= e
  BY <1>7, <1>12, <1>13, <1>14
<1>16. ASSUME NEW x \in C, EnvAbove(s, x) > 0 PROVE EnvAbove(s, x) \in C
  <2>1. PICK i \in 1 .. Len(chain) : x = chain[i]
    BY <1>13
  <2>2. x \in E /\ EnvAbove(s, x) \in E /\ EnvAbove(s, x) < x /\ next[x] = EnvAbove(s, x)
    BY <1>4, <1>15, <1>16
  <2>3. i # Len(chain)
    <3>1. ASSUME i = Len(chain) PROVE FALSE
      <4>1. next[chain[Len(chain)]] \in DOMAIN next /\ next[chain[Len(chain)]] < chain[Len(chain)]
        BY <1>3, <2>1, <2>2, <3>1
      <4>2. QED
        BY <1>6, <4>1 DEF Descends
    <3>2. QED
      BY <3>1
  <2>7. Len(chain) \in Nat /\ i \in 1 .. Len(chain)
    BY <1>7
  <2>4. i \in 1 .. Len(chain) - 1 /\ i + 1 \in 1 .. Len(chain)
    BY <2>7, <2>3
  <2>5. chain[i + 1] = EnvAbove(s, x)
    BY <1>8, <2>1, <2>2, <2>4
  <2>6. QED
    BY <1>14, <2>4, <2>5
<1>17. ASSUME NEW x \in C, x # e PROVE \E y \in C : EnvAbove(s, y) = x
  <2>1. PICK i \in 1 .. Len(chain) : x = chain[i]
    BY <1>13
  <2>2. i - 1 \in 1 .. Len(chain) - 1 /\ i - 1 \in 1 .. Len(chain) /\ i - 1 + 1 = i
    BY <1>7, <1>17, <2>1
  <2>3. x = next[chain[i - 1]] /\ chain[i - 1] \in E /\ chain[i - 1] \in C
    BY <1>8, <1>12, <1>14, <2>1, <2>2
  <2>4. QED
    BY <1>4, <2>3
<1>18. \E z \in C : \A x \in C : z <= x
  <2>1. C \subseteq Nat /\ C # {}
    BY <1>1, <1>15
  <2>2. QED
    BY <2>1, Least
<1>19. QED
  BY <1>15, <1>16, <1>17, <1>18

-----------------------------------------------------------------------------
(* What stays when cells change and the stack keeps its size.              *)

\* A place where arguments begin is in no continuation or environment.
Boundary(s, K, E, x) ==
  /\ x \in Int /\ x >= bottom /\ Begins(s.stack, x)
  /\ \A e \in E : x < EnvLow(s, e) \/ e <= x
  /\ \A c \in K : x < ContLow(s, c) \/ c <= x

LEMMA Boundaries ==
  ASSUME NEW s, Machine(s), NEW K, NEW E, Sound(s, K, E)
  PROVE  /\ \A n : ArgsIn(s.stack, Top(s), n) => Boundary(s, K, E, Top(s) - n)
         /\ \A c \in K \ {bottom} : Boundary(s, K, E, ContLow(s, c) - 1)
<1>1. /\ Top(s) \in Nat /\ bottom = 5 /\ K \subseteq Nat /\ E \subseteq Nat
      /\ \A c \in K : s.stack[c].size \in Nat /\ ContLow(s, c) \in Int /\ ContLow(s, c) <= c - 4
      /\ \A c \in K \ {bottom} : ContLow(s, c) > 5 /\ c > 5
      /\ \A e \in E : EnvLow(s, e) \in Int /\ EnvLow(s, e) <= e - 1
  BY Numbers
<1>2. ASSUME NEW n, ArgsIn(s.stack, Top(s), n) PROVE Boundary(s, K, E, Top(s) - n)
  <2>1. \A x \in K \cup E : x <= Top(s) - n
    BY <1>2, BelowArgs
  <2>2. n \in Nat /\ bottom <= Top(s) - n /\ Begins(s.stack, Top(s) - n)
    BY <1>2 DEF ArgsIn
  <2>3. QED
    BY <1>1, <2>1, <2>2 DEF Boundary
<1>3. ASSUME NEW c \in K \ {bottom} PROVE Boundary(s, K, E, ContLow(s, c) - 1)
  <2>1. ArgsIn(s.stack, c - 5, s.stack[c].size)
    BY DEF Sound, Conts, Continuation
  <2>2. c - 5 - s.stack[c].size = ContLow(s, c) - 1 /\ c \in Nat /\ ContLow(s, c) \in Int
    BY <1>1 DEF ContLow
  <2>3. Begins(s.stack, ContLow(s, c) - 1)
    BY <2>1, <2>2 DEF ArgsIn
  <2>4. \A x \in K \cup E : x < c => x < ContLow(s, c)
    BY DEF Sound, Apart
  <2>5. \A d \in K : c < d => c < ContLow(s, d)
    BY DEF Sound, Apart
  <2>6. \A e \in E : c < e => c < EnvLow(s, e)
    BY DEF Sound, Apart
  <2>7. \A e \in E : e # c
    BY DEF Sound, Conts, Envs, IsEnvironment
  <2>8. \A e \in E : ContLow(s, c) - 1 < EnvLow(s, e) \/ e <= ContLow(s, c) - 1
    <3>1. ASSUME NEW e \in E
          PROVE  ContLow(s, c) - 1 < EnvLow(s, e) \/ e <= ContLow(s, c) - 1
      <4>1. e \in Nat /\ c \in Nat /\ EnvLow(s, e) \in Int /\ ContLow(s, c) \in Int
            /\ ContLow(s, c) <= c - 4
        BY <1>1, <2>2
      <4>2. e < c => e < ContLow(s, c)
        BY <2>4
      <4>3. c < e => c < EnvLow(s, e)
        BY <2>6
      <4>4. e # c
        BY <2>7
      <4>5. QED
        BY <4>1, <4>2, <4>3, <4>4
    <3>2. QED
      BY <3>1
  <2>9. \A d \in K : ContLow(s, c) - 1 < ContLow(s, d) \/ d <= ContLow(s, c) - 1
    BY <1>1, <2>2, <2>4, <2>5
  <2>10. QED
    BY <1>1, <2>2, <2>3, <2>8, <2>9 DEF Boundary
<1>4. QED
  BY <1>2, <1>3

LEMMA SameArgs ==
  ASSUME NEW s, Machine(s), NEW r, Machine(r), NEW c \in Nat, c <= Top(s), c <= Top(r),
         s.stack[c].size \in Nat, ContLow(s, c) >= 1, r.stack[c] = s.stack[c],
         \A i \in ContLow(s, c) .. c - 5 : r.stack[i] = s.stack[i]
  PROVE  ArgsOf(r, c) = ArgsOf(s, c)
<1> DEFINE i == ContLow(s, c)
<1>1. ContLow(s, c) \in Int /\ ContLow(s, c) <= c - 4 /\ ContLow(s, c) = c - 4 - s.stack[c].size
  BY DEF ContLow
<1>2. IsSeq(s.stack) /\ IsSeq(r.stack) /\ c - 5 \in Int /\ i >= 1 /\ i <= c - 5 + 1
      /\ c - 5 <= Len(s.stack) /\ c - 5 <= Len(r.stack) /\ i \in Int
  BY <1>1, TopNat DEF Machine
<1>3. ArgsOf(s, c) = SubSeq(s.stack, i, c - 5) /\ ArgsOf(r, c) = SubSeq(r.stack, i, c - 5)
  BY <1>1 DEF ArgsOf
<1>4. \A k \in 1 .. c - 5 - i + 1 : k + i - 1 \in i .. c - 5
  BY <1>1
<1>5. \A k \in i .. c - 5 : r.stack[k] = s.stack[k]
  OBVIOUS
<1> HIDE DEF i
<1>7. /\ IsSeq(ArgsOf(s, c)) /\ Len(ArgsOf(s, c)) = c - 5 - i + 1
      /\ \A k \in 1 .. c - 5 - i + 1 : ArgsOf(s, c)[k] = s.stack[k + i - 1]
  BY <1>2, <1>3, Part
<1>8. /\ IsSeq(ArgsOf(r, c)) /\ Len(ArgsOf(r, c)) = c - 5 - i + 1
      /\ \A k \in 1 .. c - 5 - i + 1 : ArgsOf(r, c)[k] = r.stack[k + i - 1]
  BY <1>2, <1>3, Part
<1>9. \A k \in 1 .. c - 5 - i + 1 : ArgsOf(r, c)[k] = ArgsOf(s, c)[k]
  BY <1>4, <1>5, <1>7, <1>8
<1>10. QED
  BY <1>7, <1>8, <1>9, SeqFacts

LEMMA ReshapedConts ==
  ASSUME NEW s, Machine(s), NEW K, NEW E, Sound(s, K, E),
         NEW r, Machine(r), Top(r) = Top(s), r.cont = s.cont,
         \A c \in K : r.stack[c] = s.stack[c] /\ EnvOf(r, c) \in Int,
         \A c \in K \ {bottom} :
           /\ r.stack[c - 1] = s.stack[c - 1] /\ r.stack[c - 2] = s.stack[c - 2]
           /\ r.stack[c - 3] = s.stack[c - 3]
           /\ \A i \in ContLow(s, c) .. c - 5 : r.stack[i] = s.stack[i]
           /\ Begins(r.stack, ContLow(s, c) - 1)
  PROVE  /\ Conts(r, K) /\ \A c \in K : ContLow(r, c) = ContLow(s, c)
         /\ \A c \in K \ {bottom} : ArgsOf(r, c) = ArgsOf(s, c)
<1>1. /\ Top(s) \in Nat /\ bottom = 5 /\ K \subseteq Nat /\ E \subseteq Nat
      /\ \A c \in K : s.stack[c].size \in Nat /\ ContLow(s, c) \in Int /\ c <= Top(s)
      /\ \A c \in K \ {bottom} : ContLow(s, c) > 5 /\ c > 5
  BY Numbers
<1>2. Conts(s, K)
  BY DEF Sound
<1>3. \A c \in K : ContLow(r, c) = ContLow(s, c)
  BY DEF ContLow
<1>5. ASSUME NEW c \in K \ {bottom} PROVE Continuation(r, K, c) /\ ArgsOf(r, c) = ArgsOf(s, c)
  <2>1. Continuation(s, K, c)
    BY <1>2 DEF Conts
  <2>2. c \in Nat /\ c <= Top(s) /\ c <= Top(r) /\ s.stack[c].size \in Nat /\ ContLow(s, c) >= 1
        /\ ContLow(s, c) = c - 4 - s.stack[c].size /\ ContLow(s, c) \in Int
    BY <1>1 DEF ContLow
  <2>3. ArgsOf(r, c) = ArgsOf(s, c)
    BY <2>2, SameArgs
  <2>4. ContOf(r, c) = ContOf(s, c)
    BY DEF ContOf
  <2>5. ArgsIn(r.stack, c - 5, r.stack[c].size)
    <3>1. ArgsIn(s.stack, c - 5, s.stack[c].size)
      BY <2>1 DEF Continuation
    <3>2. c - 5 - s.stack[c].size = ContLow(s, c) - 1
          /\ c - 5 - s.stack[c].size + 1 = ContLow(s, c)
      BY <2>2
    <3>4. /\ s.stack[c].size \in Nat /\ bottom <= ContLow(s, c) - 1
          /\ \A i \in ContLow(s, c) .. c - 5 : ~IsHeader(s.stack[i])
      BY <3>1, <3>2 DEF ArgsIn
    <3>5. \A i \in ContLow(s, c) .. c - 5 : ~IsHeader(r.stack[i])
      BY <3>4
    <3>6. r.stack[c].size = s.stack[c].size /\ Begins(r.stack, ContLow(s, c) - 1)
      OBVIOUS
    <3>3. QED
      BY <3>2, <3>4, <3>5, <3>6 DEF ArgsIn
  <2>6. r.stack[c - 3] = s.stack[c - 3] /\ r.stack[c - 2] = s.stack[c - 2] /\ r.stack[c] = s.stack[c]
    OBVIOUS
  <2>7. QED
    BY <1>3, <2>1, <2>3, <2>4, <2>5, <2>6 DEF Continuation
<1>6. Conts(r, K)
  BY <1>1, <1>2, <1>5 DEF Conts
<1>7. QED
  BY <1>3, <1>5, <1>6

\* The references may change, and environments may go.
LEMMA Reshaped ==
  ASSUME NEW s, Machine(s), NEW K, NEW E, Sound(s, K, E),
         NEW r, Machine(r), Top(r) = Top(s), r.cont = s.cont, NEW E2 \in SUBSET E,
         \A c \in K : r.stack[c] = s.stack[c] /\ EnvOf(r, c) \in Int,
         \A c \in K \ {bottom} :
           /\ r.stack[c - 1] = s.stack[c - 1] /\ r.stack[c - 2] = s.stack[c - 2]
           /\ r.stack[c - 3] = s.stack[c - 3]
           /\ \A i \in ContLow(s, c) .. c - 5 : r.stack[i] = s.stack[i]
           /\ Begins(r.stack, ContLow(s, c) - 1),
         \A e \in E2 : /\ r.stack[e] = s.stack[e] /\ r.stack[e - 1] = s.stack[e - 1]
                       /\ \A i \in EnvLow(s, e) .. e - 2 : ~IsHeader(r.stack[i]),
         References(r, K, E2)
  PROVE  Sound(r, K, E2)
<1>1. Conts(s, K) /\ Envs(s, E) /\ Apart(s, K, E)
  BY DEF Sound
<1>2. \A e \in E2 : EnvLow(r, e) = EnvLow(s, e) /\ EnvAbove(r, e) = EnvAbove(s, e)
  BY DEF EnvLow, EnvAbove
<1>3. Conts(r, K) /\ \A c \in K : ContLow(r, c) = ContLow(s, c)
  BY ReshapedConts
<1>4. Envs(r, E2)
  BY <1>1, <1>2 DEF Envs
<1>5. Apart(r, K, E2)
  BY <1>1, <1>2, <1>3 DEF Apart
<1>6. QED
  BY <1>3, <1>4, <1>5 DEF Sound

-----------------------------------------------------------------------------
(* Environments move to the heap.                                          *)

\* What stays the same where the stack and the heap change.
SameRegisters(s, r) ==
  r.env = s.env /\ r.cont = s.cont /\ r.used = s.used /\ r.room = s.room /\ r.overrun = s.overrun

LEMMA ValuesOf ==
  ASSUME NEW s, Machine(s), NEW K, NEW E, Sound(s, K, E), NEW e \in E
  PROVE  /\ IsSeq(EnvVals(s, e)) /\ Len(EnvVals(s, e)) = EnvSize(s, e)
         /\ \A i \in 1 .. Len(EnvVals(s, e)) : ~IsHeader(EnvVals(s, e)[i])
<1>1. /\ Top(s) \in Nat /\ e \in Nat /\ e <= Top(s) /\ s.stack[e].size \in Nat
      /\ EnvLow(s, e) > 5 /\ EnvLow(s, e) <= e - 1 /\ EnvLow(s, e) \in Int
  BY Numbers
<1> DEFINE i == EnvLow(s, e)
           v == EnvVals(s, e)
<1>2. i = e - s.stack[e].size /\ EnvSize(s, e) = s.stack[e].size - 1 /\ e - 1 - EnvSize(s, e) = i
      /\ EnvSize(s, e) = e - 2 - i + 1
  BY <1>1 DEF EnvLow, EnvSize
<1>3. v = SubSeq(s.stack, i, e - 2)
  BY <1>2 DEF EnvVals
<1>4. \A j \in i .. e - 2 : ~IsHeader(s.stack[j])
  BY DEF Sound, Envs
<1>5. i \in Int /\ e - 2 \in Int /\ i >= 1 /\ i <= e - 2 + 1 /\ e - 2 <= Len(s.stack) /\ IsSeq(s.stack)
  BY <1>1, TopNat DEF Machine
<1> HIDE DEF i, v
<1>6. IsSeq(v) /\ Len(v) = e - 2 - i + 1 /\ \A k \in 1 .. e - 2 - i + 1 : v[k] = s.stack[k + i - 1]
  BY <1>3, <1>5, Part
<1>7. \A k \in 1 .. e - 2 - i + 1 : k + i - 1 \in i .. e - 2
  BY <1>5
<1>8. \A k \in 1 .. Len(v) : ~IsHeader(v[k])
  BY <1>4, <1>6, <1>7
<1>9. QED
  BY <1>2, <1>6, <1>8 DEF v

\* The environments C, which the ones around them belong to.
LEMMA CopiedEnvs ==
  ASSUME NEW s, Machine(s), SafeHeap(s.heap), NEW K, NEW E, Sound(s, K, E),
         NEW C \in SUBSET E, \A x \in C : EnvAbove(s, x) > 0 => EnvAbove(s, x) \in C,
         NEW r, r = copy_envs(s, C)
  PROVE  /\ Machine(r) /\ SameRegisters(s, r) /\ Top(r) = Top(s) /\ SafeHeap(r.heap)
         /\ \A i \in 1 .. Top(s) :
              /\ i \in C => r.stack[i] = [forward |-> -s.stack[i].id]
              /\ i \notin C /\ i + 1 \in C => r.stack[i] = argument_limit_marker
              /\ i \notin C /\ i + 1 \notin C => r.stack[i] = s.stack[i]
<1>1. /\ Top(s) \in Nat /\ Top(s) = Len(s.stack) /\ E \subseteq 1 .. Top(s) /\ IsSeq(s.stack)
      /\ DOMAIN s.stack = 1 .. Top(s)
  BY TopNat, Numbers, SeqFacts DEF Machine
<1> DEFINE ids == {s.stack[e].id : e \in C}
           Copied(e) == [parent |-> LET p == env_parent(s, e) IN IF p \in C THEN -s.stack[p].id ELSE p,
                         vals |-> EnvVals(s, e)]
           Holder(id) == CHOOSE e \in C : s.stack[e].id = id
<1>2. r.heap = [id \in ids \cup DOMAIN s.heap |->
                  IF id \in ids THEN Copied(Holder(id)) ELSE s.heap[id]]
  BY DEF copy_envs, Machine
<1>3. r.stack = [i \in DOMAIN s.stack |-> IF i \in C THEN [forward |-> -s.stack[i].id]
                                          ELSE IF i + 1 \in C THEN argument_limit_marker
                                          ELSE s.stack[i]]
  BY DEF copy_envs, Machine
<1>4. SameRegisters(s, r)
  BY DEF copy_envs, Machine, SameRegisters
<1>5. r \in [stack : {r.stack}, env : {r.env}, cont : {r.cont}, heap : {r.heap},
             used : {r.used}, room : {r.room}, overrun : {r.overrun}]
  BY DEF copy_envs, Machine
<1>6. r.stack = [i \in 1 .. Top(s) |-> r.stack[i]]
  BY <1>1, <1>3
<1>7. IsSeq(r.stack) /\ Len(r.stack) = Top(s)
  BY <1>1, <1>6, SeqBy
<1>8. Machine(r) /\ Top(r) = Top(s)
  BY <1>4, <1>5, <1>7 DEF Machine, Top, SameRegisters
<1>9. /\ \A x \in E : s.stack[x].id \in Nat /\ EnvAbove(s, x) \in Int
      /\ \A x \in E : env_parent(s, x) = EnvAbove(s, x)
  BY <1>1 DEF Sound, Envs, env_parent, within_stack, EnvAbove
<1>10. ASSUME NEW e \in C
       PROVE  /\ Copied(e).parent \in Int /\ ~within_stack(Copied(e).parent)
              /\ IsSeq(Copied(e).vals) /\ \A i \in 1 .. Len(Copied(e).vals) : ~IsHeader(Copied(e).vals[i])
  <2>1. /\ IsSeq(EnvVals(s, e)) /\ \A i \in 1 .. Len(EnvVals(s, e)) : ~IsHeader(EnvVals(s, e)[i])
    BY ValuesOf
  <2>2. EnvAbove(s, e) \in C \/ ~(EnvAbove(s, e) > 0)
    OBVIOUS
  <2>3. Copied(e).parent = IF EnvAbove(s, e) \in C THEN -s.stack[EnvAbove(s, e)].id ELSE EnvAbove(s, e)
    BY <1>9
  <2>4. Copied(e).parent \in Int /\ ~(Copied(e).parent > 0)
    <3> HIDE DEF Copied
    <3>1. CASE EnvAbove(s, e) \in C
      BY <1>9, <2>3, <3>1
    <3>2. CASE EnvAbove(s, e) \notin C
      BY <1>9, <2>2, <2>3, <3>2
    <3>3. QED
      BY <3>1, <3>2
  <2>5. QED
    BY <2>1, <2>4 DEF within_stack
<1>11. \A id \in ids : Holder(id) \in C
  OBVIOUS
<1>12. IsFiniteSet(ids \cup DOMAIN s.heap)
  <2>1. IsFiniteSet(1 .. Top(s))
    BY <1>1, FS_Interval
  <2>2. IsFiniteSet(C)
    BY <1>1, <2>1, FS_Subset
  <2> DEFINE g == [e \in C |-> s.stack[e].id]
  <2>3. g \in Surjection(C, ids)
    BY DEF Surjection
  <2>4. IsFiniteSet(ids)
    <3> HIDE DEF g, ids
    <3>1. QED
      BY <2>2, <2>3, FS_Surjection
  <2>5. QED
    BY <2>4, FS_Union DEF SafeHeap
<1>13. SafeHeap(r.heap)
  <2>1. ASSUME NEW id \in ids \cup DOMAIN s.heap
        PROVE  /\ r.heap[id].parent \in Int /\ ~within_stack(r.heap[id].parent)
               /\ IsSeq(r.heap[id].vals) /\ \A i \in 1 .. Len(r.heap[id].vals) : ~IsHeader(r.heap[id].vals[i])
    <3>1. CASE id \in ids
      <4>1. r.heap[id] = Copied(Holder(id)) /\ Holder(id) \in C
        BY <1>2, <1>11, <3>1
      <4> HIDE DEF Copied, Holder, ids
      <4>2. QED
        BY <1>10, <4>1
    <3>2. CASE id \notin ids
      <4>1. r.heap[id] = s.heap[id] /\ id \in DOMAIN s.heap
        BY <1>2, <3>2
      <4>2. QED
        BY <4>1 DEF SafeHeap
    <3>3. QED
      BY <3>1, <3>2
  <2>2. DOMAIN r.heap = ids \cup DOMAIN s.heap
    BY <1>2
  <2> HIDE DEF ids
  <2>3. QED
    BY <1>12, <2>1, <2>2 DEF SafeHeap
<1>14. QED
  BY <1>1, <1>3, <1>4, <1>8, <1>13

LEMMA Greatest ==
  ASSUME NEW S, NEW n \in Nat, S \subseteq 0 .. n, S # {}
  PROVE  \E x \in S : \A y \in S : y <= x
<1> DEFINE T == {n - x : x \in S}
<1>1. T \subseteq Nat /\ T # {}
  <2>1. \A x \in S : n - x \in Nat
    OBVIOUS
  <2>2. QED
    BY <2>1
<1>2. PICK t \in T : \A u \in T : t <= u
  <2> HIDE DEF T
  <2>1. QED
    BY <1>1, Least
<1>3. PICK x \in S : t = n - x
  OBVIOUS
<1>4. ASSUME NEW y \in S PROVE y <= x
  <2>1. n - y \in T
    OBVIOUS
  <2>2. t <= n - y
    <3> HIDE DEF T
    <3>1. QED
      BY <1>2, <2>1
  <2>3. QED
    BY <1>3, <2>2
<1>5. QED
  BY <1>4

\* What is above the last of the environments from e on, refers to one of them.
LEMMA AboveChain ==
  ASSUME NEW s, Machine(s), NEW K, NEW E, Sound(s, K, E), NEW e \in E,
         NEW y \in Int, Refers(s, K, E, y, e),
         NEW C, C = StackEnvs(s, e), NEW z \in C, \A x \in C : z <= x,
         NEW d \in K, z < d, d < y \/ EnvOf(s, d) = e
  PROVE  EnvOf(s, d) \in C
<1>1. /\ C \subseteq E /\ e \in C /\ \A x \in C : x <= e
      /\ \A x \in C : x # e => \E w \in C : EnvAbove(s, w) = x
  BY EnvsChain
<1>2. /\ Top(s) \in Nat /\ K \subseteq Nat /\ E \subseteq Nat /\ \A x \in E : x <= Top(s) /\ x > 5
  BY Numbers
<1>3. \A x \in E : x # d
  BY DEF Sound, Conts, Envs, IsEnvironment
<1>4. CASE e < d
  BY <1>1, <1>2, <1>4 DEF Refers
<1>5. CASE ~(e < d)
  <2> DEFINE T == {x \in C : x < d}
  <2>12. \A x \in C : x \in 0 .. Top(s)
    BY <1>1, <1>2
  <2>13. z \in T
    OBVIOUS
  <2>1. T \subseteq 0 .. Top(s) /\ T # {}
    BY <2>12, <2>13
  <2>2. PICK x \in T : \A u \in T : u <= x
    <3> HIDE DEF T
    <3>1. QED
      BY <1>2, <2>1, Greatest
  <2>3. x \in C /\ x < d /\ x # e /\ x \in E /\ x > 0
    BY <1>1, <1>2, <1>5
  <2>4. PICK w \in C : EnvAbove(s, w) = x
    BY <1>1, <2>3
  <2>5. w \in E /\ Refers(s, K, E, w, x)
    BY <1>1, <2>4 DEF Sound, References
  <2>6. x < w
    BY <2>3, <2>5 DEF Refers
  <2>7. ~(w <= x)
    BY <1>2, <2>3, <2>5, <2>6
  <2>8. w \notin T
    <3> HIDE DEF T
    <3>1. QED
      BY <2>2, <2>7
  <2>9. d < w
    BY <1>2, <1>3, <2>5, <2>8
  <2>10. EnvOf(s, d) = x
    BY <2>3, <2>5, <2>9 DEF Refers
  <2>11. QED
    BY <2>3, <2>10
<1>6. QED
  BY <1>4, <1>5

\* The cells of a continuation are not those of an environment or of another one.
LEMMA ContCellsApart ==
  ASSUME NEW s, Machine(s), NEW K, NEW E, Sound(s, K, E),
         NEW c \in K, NEW i \in ContLow(s, c) .. c
  PROVE  /\ i \in 1 .. Top(s) /\ i \notin E /\ i + 1 \notin E
         /\ i # c - 4 => i + 4 \notin K
<1>1. /\ Top(s) \in Nat /\ bottom = 5 /\ K \subseteq Nat /\ E \subseteq Nat
      /\ \A d \in K : s.stack[d].size \in Nat /\ ContLow(s, d) \in Int /\ ContLow(s, d) <= d - 4
                      /\ d <= Top(s) /\ d >= 5
      /\ \A d \in K \ {bottom} : ContLow(s, d) > 5
      /\ \A e \in E : EnvLow(s, e) \in Int /\ EnvLow(s, e) <= e - 1 /\ e > 5 /\ EnvLow(s, e) > 5
  BY Numbers
<1>2. ContLow(s, c) >= 1
  BY <1>1 DEF ContLow, Sound, Conts
<1>3. /\ \A x \in K \cup E : x < c => x < ContLow(s, c)
      /\ \A e \in E : c < e => c < EnvLow(s, e)
      /\ \A d \in K : c < d => c < ContLow(s, d)
  BY DEF Sound, Apart
<1>4. \A e \in E : e # c
  BY DEF Sound, Conts, Envs, IsEnvironment
<1>5. i \in Int /\ ContLow(s, c) <= i /\ i <= c /\ c \in Nat /\ ContLow(s, c) \in Int
  BY <1>1
<1>6. i \in 1 .. Top(s)
  BY <1>1, <1>2, <1>5
<1>7. ASSUME i \in E PROVE FALSE
  <2>1. i < c
    BY <1>4, <1>5, <1>7
  <2>2. QED
    BY <1>3, <1>5, <1>7, <2>1
<1>8. ASSUME i + 1 \in E PROVE FALSE
  <2>1. i + 1 # c
    BY <1>4, <1>8
  <2>2. CASE i + 1 < c
    BY <1>3, <1>5, <1>8, <2>2
  <2>3. CASE i = c
    <3>1. c < EnvLow(s, i + 1) /\ EnvLow(s, i + 1) <= i + 1 - 1 /\ EnvLow(s, i + 1) \in Int
      BY <1>1, <1>3, <1>5, <1>8, <2>3
    <3>2. QED
      BY <1>5, <2>3, <3>1
  <2>4. QED
    BY <1>5, <2>1, <2>2, <2>3
<1>9. ASSUME i # c - 4, i + 4 \in K PROVE FALSE
  <2>1. CASE i + 4 < c
    BY <1>3, <1>5, <1>9, <2>1
  <2>2. CASE i + 4 > c
    <3>1. c < ContLow(s, i + 4) /\ ContLow(s, i + 4) <= i + 4 - 4 /\ ContLow(s, i + 4) \in Int
      BY <1>1, <1>3, <1>5, <1>9, <2>2
    <3>2. QED
      BY <1>5, <3>1
  <2>3. QED
    BY <1>5, <1>9, <2>1, <2>2
<1>10. QED
  BY <1>6, <1>7, <1>8, <1>9

\* Environments C go to the heap: the continuations, and where arguments begin, stay.
LEMMA CopiedKeeps ==
  ASSUME NEW s, Machine(s), NEW K, NEW E, Sound(s, K, E), NEW C \in SUBSET E,
         NEW q, Machine(q), Top(q) = Top(s), q.cont = s.cont,
         \A i \in 1 .. Top(s) :
           /\ i \in C => q.stack[i] = [forward |-> -s.stack[i].id]
           /\ i \notin C /\ i + 1 \in C => q.stack[i] = argument_limit_marker
           /\ i \notin C /\ i + 1 \notin C => q.stack[i] = s.stack[i]
  PROVE  /\ Conts(q, K)
         /\ \A c \in K : /\ ContLow(q, c) = ContLow(s, c) /\ EnvOf(q, c) = EnvOf(s, c)
                         /\ \A i \in ContLow(s, c) .. c : q.stack[i] = s.stack[i]
         /\ \A x : Boundary(s, K, E, x) /\ x <= Top(s) => Begins(q.stack, x)
<1>1. /\ Top(s) \in Nat /\ bottom = 5 /\ K \subseteq Nat /\ E \subseteq Nat
      /\ \A c \in K : /\ s.stack[c].size \in Nat /\ ContLow(s, c) \in Int /\ ContLow(s, c) <= c - 4
                      /\ c >= 5 /\ c <= Top(s)
      /\ \A e \in E : EnvLow(s, e) \in Int /\ EnvLow(s, e) <= e - 1
  BY Numbers
<1>2. ASSUME NEW c \in K, NEW i \in ContLow(s, c) .. c PROVE q.stack[i] = s.stack[i]
  <2>1. i \in 1 .. Top(s) /\ i \notin E /\ i + 1 \notin E
    BY ContCellsApart
  <2>2. QED
    BY <2>1
<1>3. \A c \in K : c \in ContLow(s, c) .. c /\ c - 1 \in ContLow(s, c) .. c /\ c - 2 \in ContLow(s, c) .. c
                   /\ c - 3 \in ContLow(s, c) .. c /\ c - 4 \in ContLow(s, c) .. c
                   /\ \A i \in ContLow(s, c) .. c - 5 : i \in ContLow(s, c) .. c
  BY <1>1
<1>4. \A c \in K : /\ q.stack[c] = s.stack[c] /\ q.stack[c - 1] = s.stack[c - 1]
                   /\ q.stack[c - 2] = s.stack[c - 2] /\ q.stack[c - 3] = s.stack[c - 3]
                   /\ q.stack[c - 4] = s.stack[c - 4]
                   /\ \A i \in ContLow(s, c) .. c - 5 : q.stack[i] = s.stack[i]
  BY <1>2, <1>3
<1>5. \A c \in K : EnvOf(q, c) = EnvOf(s, c) /\ EnvOf(s, c) \in Int
  BY <1>4 DEF EnvOf, Sound, Conts
<1>6. ASSUME NEW x, Boundary(s, K, E, x), x <= Top(s) PROVE Begins(q.stack, x)
  <2>1. x \in 1 .. Top(s) /\ x - 1 \in 1 .. Top(s) /\ Begins(s.stack, x) /\ x - 1 + 1 = x
    BY <1>1, <1>6 DEF Boundary
  <2>2. x + 1 \notin C
    <3>1. ASSUME x + 1 \in C PROVE FALSE
      <4>1. PICK e \in E : e = x + 1
        BY <3>1
      <4>2. x < EnvLow(s, e) \/ e <= x
        BY <1>6 DEF Boundary
      <4>3. EnvLow(s, e) \in Int /\ EnvLow(s, e) <= e - 1 /\ e \in Nat
        BY <1>1
      <4>4. QED
        BY <2>1, <4>1, <4>2, <4>3
    <3>2. QED
      BY <3>1
  <2>3. CASE x \in C
    <3>1. x - 1 \notin C
      <4>1. ASSUME x - 1 \in C PROVE FALSE
        <5>1. x \in E /\ x - 1 \in E /\ x - 1 < x
          BY <2>1, <2>3, <4>1
        <5>2. x - 1 < EnvLow(s, x)
          BY <5>1 DEF Sound, Apart
        <5>4. EnvLow(s, x) <= x - 1 /\ EnvLow(s, x) \in Int
          BY <1>1, <5>1
        <5>5. QED
          BY <2>1, <5>2, <5>4
      <4>2. QED
        BY <4>1
    <3>2. q.stack[x] = [forward |-> -s.stack[x].id] /\ q.stack[x - 1] = argument_limit_marker
      BY <2>1, <2>3, <3>1
    <3>3. ~IsHeader(q.stack[x])
      BY <3>2 DEF IsHeader
    <3>4. QED
      BY <3>2, <3>3 DEF Begins
  <2>4. CASE x \notin C
    <3>1. q.stack[x] = s.stack[x]
      BY <2>1, <2>2, <2>4
    <3>2. CASE IsHeader(s.stack[x]) /\ s.stack[x] # argument_limit_marker
      BY <3>1, <3>2 DEF Begins
    <3>3. CASE ~IsHeader(s.stack[x]) /\ s.stack[x - 1] = argument_limit_marker
      <4>1. x - 1 \notin C
        <5>1. ASSUME x - 1 \in C PROVE FALSE
          <6>1. s.stack[x - 1].header = "environment"
            BY <5>1 DEF Sound, Envs, IsEnvironment
          <6>2. s.stack[x - 1].header = "limit"
            BY <3>3 DEF argument_limit_marker
          <6>3. QED
            BY <6>1, <6>2
        <5>2. QED
          BY <5>1
      <4>2. q.stack[x - 1] = s.stack[x - 1]
        BY <2>1, <2>4, <4>1
      <4>3. QED
        BY <3>1, <3>3, <4>2 DEF Begins
    <3>4. QED
      BY <2>1, <3>2, <3>3 DEF Begins
  <2>5. QED
    BY <2>3, <2>4
<1>7. \A c \in K \ {bottom} : Begins(q.stack, ContLow(s, c) - 1)
  <2>1. ASSUME NEW c \in K \ {bottom} PROVE Begins(q.stack, ContLow(s, c) - 1)
    <3>1. Boundary(s, K, E, ContLow(s, c) - 1)
      BY Boundaries
    <3>2. ContLow(s, c) - 1 <= Top(s)
      BY <1>1
    <3>3. QED
      BY <1>6, <3>1, <3>2
  <2>2. QED
    BY <2>1
<1>8. Conts(q, K) /\ \A c \in K : ContLow(q, c) = ContLow(s, c)
  BY <1>4, <1>5, <1>7, ReshapedConts
<1>9. QED
  BY <1>2, <1>5, <1>6, <1>8

\* The continuations from c0 on whose environments go to the heap are those above z.
Followers(K, c0, z) == {d \in K : d <= c0 /\ z < d}
Follow(q, K, c0, z) ==
  \A d \in K : d <= c0 => (z < d <=> within_stack(EnvOf(q, d)) /\ IsForwarded(q.stack[EnvOf(q, d)]))

LEMMA Forwarding ==
  ASSUME NEW q, Machine(q), NEW K, Conts(q, K), NEW c0 \in K, NEW z \in Int,
         Follow(q, K, c0, z), NEW r, r = ForwardEnvs(q, c0),
         NEW F, F = Followers(K, c0, z)
  PROVE  /\ Machine(r) /\ Top(r) = Top(q) /\ SameRegisters(q, r) /\ r.heap = q.heap
         /\ \A i \in 1 .. Top(q) :
              r.stack[i] = IF i + 4 \in F THEN [env |-> q.stack[q.stack[i].env].forward] ELSE q.stack[i]
<1> DEFINE cs == StackConts(q, c0)
           Forwarded(d) == within_stack(EnvOf(q, d)) /\ IsForwarded(q.stack[EnvOf(q, d)])
           following == {cs[i] : i \in {j \in DOMAIN cs : \A n \in 1 .. j : Forwarded(cs[n])}}
<1>1. /\ IsSeq(cs) /\ Len(cs) \in Nat /\ Len(cs) >= 1 /\ cs[1] = c0
      /\ \A i \in 1 .. Len(cs) : cs[i] \in K
      /\ \A i \in 1 .. Len(cs) : \A j \in 1 .. i - 1 : cs[i] < cs[j]
      /\ \A c \in K : c <= c0 => \E i \in 1 .. Len(cs) : cs[i] = c
  BY ContsChain
<1>2. DOMAIN cs = 1 .. Len(cs)
  BY <1>1, SeqFacts
<1>3. K \subseteq Int
  BY TopNat DEF Conts, bottom, continuation_stack_size
<1>17. F \subseteq K /\ \A d \in K : d \in F <=> d <= c0 /\ z < d
  BY DEF Followers
<1>4. r = [q EXCEPT !.stack = [i \in DOMAIN @ |->
            IF i + 4 \in following THEN [env |-> @[@[i].env].forward] ELSE @[i]]]
  BY DEF ForwardEnvs
<1> HIDE DEF cs
<1>5. \A i \in 1 .. Len(cs) : cs[i] <= c0
  <2>1. ASSUME NEW i \in 1 .. Len(cs) PROVE cs[i] <= c0
    <3>1. i = 1 \/ 1 \in 1 .. i - 1
      BY <1>1
    <3>2. cs[i] \in Int /\ c0 \in Int
      BY <1>1, <1>3
    <3>3. QED
      BY <1>1, <3>1, <3>2
  <2>2. QED
    BY <2>1
<1>6. \A i \in 1 .. Len(cs) : Forwarded(cs[i]) <=> z < cs[i]
  BY <1>1, <1>5 DEF Follow
<1>7. following = F
  <2>1. ASSUME NEW d \in following PROVE d \in F
    <3>1. PICK i \in 1 .. Len(cs) : d = cs[i] /\ \A n \in 1 .. i : Forwarded(cs[n])
      BY <1>2
    <3>2. Forwarded(cs[i])
      <4>1. i \in 1 .. i
        BY <1>1
      <4> HIDE DEF Forwarded
      <4>2. QED
        BY <3>1, <4>1
    <3>3. QED
      BY <1>1, <1>5, <1>6, <1>17, <3>1, <3>2
  <2>2. ASSUME NEW d \in F PROVE d \in following
    <3>4. d \in K /\ d <= c0 /\ z < d
      BY <1>17
    <3>1. PICK i \in 1 .. Len(cs) : cs[i] = d
      BY <1>1, <3>4
    <3>2. ASSUME NEW n \in 1 .. i PROVE Forwarded(cs[n])
      <4>1. n \in 1 .. Len(cs) /\ (n = i \/ n \in 1 .. i - 1) /\ i \in 1 .. Len(cs)
        BY <1>1
      <4>2. n = i \/ cs[i] < cs[n]
        BY <1>1, <4>1
      <4>3. cs[n] \in Int /\ cs[i] \in Int
        BY <1>1, <1>3, <4>1
      <4>4. z < cs[n]
        BY <3>1, <3>4, <4>2, <4>3
      <4> HIDE DEF Forwarded
      <4>5. QED
        BY <1>6, <4>1, <4>4
    <3>3. i \in {j \in DOMAIN cs : \A n \in 1 .. j : Forwarded(cs[n])}
      <4> HIDE DEF Forwarded
      <4>1. QED
        BY <1>2, <3>2
    <3>5. QED
      <4> HIDE DEF Forwarded
      <4>1. QED
        BY <3>1, <3>3
  <2>3. QED
    <3> HIDE DEF following
    <3>1. QED
      BY <2>1, <2>2
<1> HIDE DEF following
<1>8. r = [q EXCEPT !.stack = [i \in DOMAIN @ |->
            IF i + 4 \in F THEN [env |-> @[@[i].env].forward] ELSE @[i]]]
  BY <1>4, <1>7
<1>9. Top(q) = Len(q.stack) /\ Top(q) \in Nat /\ DOMAIN q.stack = 1 .. Top(q)
  BY TopNat, SeqFacts DEF Machine
<1>10. r.stack = [i \in DOMAIN q.stack |->
                    IF i + 4 \in F THEN [env |-> q.stack[q.stack[i].env].forward] ELSE q.stack[i]]
  BY <1>8 DEF Machine
<1>11. SameRegisters(q, r) /\ r.heap = q.heap
  BY <1>8 DEF Machine, SameRegisters
<1>12. r \in [stack : {r.stack}, env : {r.env}, cont : {r.cont}, heap : {r.heap},
              used : {r.used}, room : {r.room}, overrun : {r.overrun}]
  BY <1>8 DEF Machine
<1>13. r.stack = [i \in 1 .. Top(q) |-> r.stack[i]]
  BY <1>9, <1>10
<1>14. IsSeq(r.stack) /\ Len(r.stack) = Top(q)
  BY <1>9, <1>13, SeqBy
<1>15. Machine(r) /\ Top(r) = Top(q)
  BY <1>11, <1>12, <1>14 DEF Machine, Top, SameRegisters
<1>16. QED
  BY <1>9, <1>10, <1>11, <1>15

\* The environment e, which is in use at y, and those around it move to the heap, and
\* the continuations from c0 on follow; those above it have none on the stack.
LEMMA SavedEnv ==
  ASSUME NEW s, Machine(s), SafeHeap(s.heap), NEW K, NEW E, Sound(s, K, E), NEW e \in E,
         NEW y \in Int, Refers(s, K, E, y, e), NEW c0 \in K,
         \A d \in K : d <= c0 => d < y \/ EnvOf(s, d) = e,
         \A d \in K : c0 < d => EnvOf(s, d) <= 0,
         NEW r, r = save_env_in_heap(s, e, c0)
  PROVE  /\ Machine(r) /\ SameRegisters(s, r) /\ Top(r) = Top(s) /\ SafeHeap(r.heap)
         /\ HeapConts(r) = HeapConts(s)
         /\ \E E2 \in SUBSET E : Sound(r, K, E2)
         /\ \A d \in K : EnvOf(s, d) <= 0 => EnvOf(r, d) <= 0
         /\ EnvOf(s, c0) = e => EnvOf(r, c0) <= 0
         /\ \A n : ArgsIn(s.stack, Top(s), n) =>
              /\ ArgsIn(r.stack, Top(s), n)
              /\ \A i \in Top(s) - n + 1 .. Top(s) : r.stack[i] = s.stack[i]
<1>1. /\ Top(s) \in Nat /\ bottom = 5 /\ K \subseteq Nat /\ E \subseteq Nat
      /\ \A c \in K : /\ s.stack[c].size \in Nat /\ ContLow(s, c) \in Int /\ ContLow(s, c) <= c - 4
                      /\ c >= 5 /\ c <= Top(s)
      /\ \A c \in K \ {bottom} : ContLow(s, c) > 5 /\ c > 5
      /\ \A x \in E : EnvLow(s, x) \in Int /\ EnvLow(s, x) <= x - 1 /\ x > 5 /\ x <= Top(s) /\ EnvLow(s, x) > 5
  BY Numbers
<1> DEFINE C == StackEnvs(s, e)
           q == copy_envs(s, C)
<1>2. /\ C \subseteq E /\ e \in C /\ \A x \in C : x <= e
      /\ \A x \in C : EnvAbove(s, x) > 0 => EnvAbove(s, x) \in C
  BY EnvsChain
<1>3. PICK z \in C : \A x \in C : z <= x
  BY EnvsChain
<1>4. \A d \in K : z < d /\ d <= c0 => EnvOf(s, d) \in C
  <2>1. ASSUME NEW d \in K, z < d, d <= c0 PROVE EnvOf(s, d) \in C
    BY <1>3, <2>1, AboveChain
  <2>2. QED
    BY <2>1
<1>5. r = ForwardEnvs(q, c0)
  BY DEF save_env_in_heap
<1>6. \E D : D = C
  OBVIOUS
<1> HIDE DEF C
<1>7. /\ Machine(q) /\ SameRegisters(s, q) /\ Top(q) = Top(s) /\ SafeHeap(q.heap)
      /\ \A i \in 1 .. Top(s) :
           /\ i \in C => q.stack[i] = [forward |-> -s.stack[i].id]
           /\ i \notin C /\ i + 1 \in C => q.stack[i] = argument_limit_marker
           /\ i \notin C /\ i + 1 \notin C => q.stack[i] = s.stack[i]
  <2>1. C \in SUBSET E
    BY <1>2
  <2>2. QED
    BY <1>2, <2>1, CopiedEnvs
<1> HIDE DEF q
<1>8. /\ Conts(q, K)
      /\ \A c \in K : /\ ContLow(q, c) = ContLow(s, c) /\ EnvOf(q, c) = EnvOf(s, c)
                      /\ \A i \in ContLow(s, c) .. c : q.stack[i] = s.stack[i]
      /\ \A x : Boundary(s, K, E, x) /\ x <= Top(s) => Begins(q.stack, x)
  <2>1. C \in SUBSET E /\ q.cont = s.cont
    BY <1>2, <1>7 DEF SameRegisters
  <2>2. QED
    BY <1>7, <2>1, CopiedKeeps
<1> DEFINE F == Followers(K, c0, z)
           E2 == {x \in E : x < z}
<1>9. z \in E /\ z \in Nat /\ c0 \in Nat
  BY <1>1, <1>2, <1>3
<1>10. \A d \in K : d <= c0 => (z < d <=> within_stack(EnvOf(q, d)) /\ IsForwarded(q.stack[EnvOf(q, d)]))
  <2>1. ASSUME NEW d \in K, d <= c0, z < d
        PROVE  within_stack(EnvOf(q, d)) /\ IsForwarded(q.stack[EnvOf(q, d)])
    <3>1. EnvOf(q, d) \in C
      BY <1>4, <1>8, <2>1
    <3>2. EnvOf(q, d) \in 1 .. Top(s)
      BY <1>1, <1>2, <3>1
    <3>3. q.stack[EnvOf(q, d)] = [forward |-> -s.stack[EnvOf(q, d)].id]
      BY <1>7, <3>1, <3>2
    <3>4. QED
      BY <3>2, <3>3 DEF within_stack, IsForwarded
  <2>2. ASSUME NEW d \in K, d <= c0, ~(z < d), within_stack(EnvOf(q, d))
        PROVE  ~IsForwarded(q.stack[EnvOf(q, d)])
    <3>1. PICK x : x = EnvOf(s, d)
      OBVIOUS
    <3>2. x \in E /\ x < d
      BY <1>8, <2>2, <3>1 DEF within_stack, Sound, References, Refers
    <3>9. x \in Nat /\ d \in Nat
      BY <1>1, <3>2
    <3>3. x < z /\ x \in Nat /\ d \in Nat
      BY <1>9, <2>2, <3>2, <3>9
    <3>4. x \in 1 .. Top(s) /\ x \notin C
      BY <1>1, <1>2, <1>3, <1>9, <3>2, <3>3
    <3>5. x + 1 \notin C
      <4>1. ASSUME x + 1 \in C PROVE FALSE
        <5>1. PICK w \in C : w = x + 1
          BY <4>1
        <5>2. w \in E /\ z <= w /\ x < w
          BY <1>2, <1>3, <3>3, <5>1
        <5>3. x < EnvLow(s, w)
          BY <3>2, <5>2 DEF Sound, Apart
        <5>4. EnvLow(s, w) <= w - 1 /\ EnvLow(s, w) \in Int
          BY <1>1, <5>2
        <5>5. QED
          BY <3>3, <5>1, <5>3, <5>4
      <4>2. QED
        BY <4>1
    <3>6. q.stack[x] = s.stack[x]
      BY <1>7, <3>4, <3>5
    <3>7. ~IsForwarded(s.stack[x])
      BY <3>2 DEF Sound, Envs
    <3>8. QED
      BY <1>8, <3>1, <3>6, <3>7
  <2>3. QED
    BY <2>1, <2>2
<1>11. /\ Machine(r) /\ Top(r) = Top(q) /\ SameRegisters(q, r) /\ r.heap = q.heap
       /\ \A i \in 1 .. Top(q) :
            r.stack[i] = IF i + 4 \in F THEN [env |-> q.stack[q.stack[i].env].forward] ELSE q.stack[i]
  <2>1. Machine(q) /\ Conts(q, K) /\ z \in Int /\ Follow(q, K, c0, z)
    BY <1>7, <1>8, <1>9, <1>10 DEF Follow
  <2>2. QED
    BY <1>5, <2>1, Forwarding
<1>12. \A d \in F : d \in K /\ d <= c0 /\ z < d /\ d > 5
  BY <1>1, <1>9 DEF Followers
<1>13. /\ Machine(r) /\ SameRegisters(s, r) /\ Top(r) = Top(s) /\ SafeHeap(r.heap)
  BY <1>7, <1>11 DEF SameRegisters
<1> HIDE DEF F
\* The continuations keep all but their environments.
<1>14. ASSUME NEW c \in K, NEW i \in ContLow(s, c) .. c, i # c - 4
       PROVE  r.stack[i] = s.stack[i]
  <2>1. i \in 1 .. Top(s) /\ i + 4 \notin K
    BY <1>14, ContCellsApart
  <2>2. i + 4 \notin F
    BY <1>12, <2>1
  <2>3. r.stack[i] = q.stack[i]
    BY <1>7, <1>11, <2>1, <2>2
  <2>4. QED
    BY <1>8, <2>3
<1>15. ASSUME NEW c \in K
       PROVE  /\ c - 4 \in 1 .. Top(s) /\ c - 4 \in ContLow(s, c) .. c /\ EnvOf(s, c) \in Int
              /\ c \in F => EnvOf(r, c) \in Int /\ EnvOf(r, c) <= 0
              /\ c \notin F => EnvOf(r, c) = EnvOf(s, c)
  <2>1. c - 4 \in 1 .. Top(s) /\ c - 4 \in ContLow(s, c) .. c /\ c - 4 + 4 = c
    BY <1>1
  <2>2. r.stack[c - 4] = IF c \in F THEN [env |-> q.stack[EnvOf(q, c)].forward] ELSE q.stack[c - 4]
    BY <1>7, <1>11, <2>1 DEF EnvOf
  <2>3. q.stack[c - 4] = s.stack[c - 4]
    BY <1>8, <2>1
  <2>4. c \notin F => EnvOf(r, c) = EnvOf(s, c)
    BY <2>2, <2>3 DEF EnvOf
  <2>5. ASSUME c \in F PROVE EnvOf(r, c) \in Int /\ EnvOf(r, c) <= 0
    <3>1. EnvOf(q, c) \in C
      BY <1>4, <1>8, <1>12, <2>5
    <3>2. PICK x \in C : x = EnvOf(q, c)
      BY <3>1
    <3>3. x \in E /\ x \in 1 .. Top(s)
      BY <1>1, <1>2
    <3>4. q.stack[x] = [forward |-> -s.stack[x].id] /\ s.stack[x].id \in Nat
      BY <1>7, <3>3 DEF Sound, Envs
    <3>5. EnvOf(r, c) = -s.stack[x].id
      BY <2>2, <2>5, <3>2, <3>4 DEF EnvOf
    <3>6. QED
      BY <3>4, <3>5
  <2>6. EnvOf(s, c) \in Int
    BY DEF Sound, Conts
  <2>7. QED
    BY <2>1, <2>4, <2>5, <2>6
<1>16. ASSUME NEW x \in E2, NEW i \in EnvLow(s, x) .. x PROVE r.stack[i] = s.stack[i]
  <2>1. x \in E /\ x < z /\ i \in Nat /\ i <= x /\ EnvLow(s, x) <= i /\ i > 5 /\ x \in Nat /\ x <= Top(s)
    BY <1>1, <1>9
  <2>2. i \in 1 .. Top(s)
    BY <1>1, <2>1
  <2>3. i \notin C
    BY <1>3, <1>9, <2>1
  <2>4. i + 1 \notin C
    <3>1. ASSUME i + 1 \in C PROVE FALSE
      <4>1. PICK w \in C : w = i + 1
        BY <3>1
      <4>2. w \in E /\ z <= w /\ w \in Nat
        BY <1>1, <1>2, <1>3
      <4>3. x < w
        BY <1>9, <2>1, <4>2
      <4>4. x < EnvLow(s, w)
        BY <2>1, <4>2, <4>3 DEF Sound, Apart
      <4>5. EnvLow(s, w) <= w - 1 /\ EnvLow(s, w) \in Int
        BY <1>1, <4>2
      <4>6. QED
        BY <2>1, <4>1, <4>4, <4>5
    <3>2. QED
      BY <3>1
  <2>5. i + 4 \notin F
    <3>1. ASSUME i + 4 \in F PROVE FALSE
      <4>1. PICK d \in K : d = i + 4 /\ z < d
        BY <1>12, <3>1
      <4>2. x < d /\ d \in Nat
        BY <1>1, <1>9, <2>1, <4>1
      <4>3. x < ContLow(s, d)
        BY <2>1, <4>2 DEF Sound, Apart
      <4>4. ContLow(s, d) <= d - 4 /\ ContLow(s, d) \in Int
        BY <1>1
      <4>5. QED
        BY <2>1, <4>1, <4>3, <4>4
    <3>2. QED
      BY <3>1
  <2>6. q.stack[i] = s.stack[i]
    BY <1>7, <2>2, <2>3, <2>4
  <2>7. QED
    BY <1>7, <1>11, <2>2, <2>5, <2>6
<1>17. ASSUME NEW x, Boundary(s, K, E, x), x <= Top(s) PROVE Begins(r.stack, x)
  <2>1. Begins(q.stack, x) /\ x \in 1 .. Top(s) /\ x - 1 \in 1 .. Top(s) /\ x \in Nat
    BY <1>1, <1>8, <1>17 DEF Boundary
  <2>2. \A k \in K : k <= x \/ x < k - 4
    <3>1. ASSUME NEW k \in K PROVE k <= x \/ x < k - 4
      <4>1. x < ContLow(s, k) \/ k <= x
        BY <1>17 DEF Boundary
      <4>2. ContLow(s, k) <= k - 4 /\ ContLow(s, k) \in Int /\ k \in Nat
        BY <1>1
      <4>3. QED
        BY <2>1, <4>1, <4>2
    <3>2. QED
      BY <3>1
  <2>3. x + 4 \notin F /\ x - 1 + 4 \notin F
    <3>1. x + 4 \notin K /\ x - 1 + 4 \notin K
      BY <2>1, <2>2
    <3>2. QED
      BY <1>12, <3>1
  <2>4. r.stack[x] = q.stack[x] /\ r.stack[x - 1] = q.stack[x - 1]
    BY <1>7, <1>11, <2>1, <2>3
  <2>5. QED
    BY <2>1, <2>4 DEF Begins
<1>18. References(r, K, E2)
  <2>1. ASSUME NEW u \in K \cup E2, u < z, NEW x, Refers(s, K, E, u, x) PROVE Refers(r, K, E2, u, x)
    <3>1. SUFFICES ASSUME x > 0 PROVE Refers(r, K, E2, u, x)
      BY DEF Refers
    <3>2. /\ x \in E /\ x < u
          /\ \A w \in E : w < u => w <= x
          /\ \A c \in K : x < c /\ c < u => EnvOf(s, c) = x
      BY <2>1, <3>1 DEF Refers
    <3>6. u \in Nat /\ x \in Nat
      BY <1>1, <3>2
    <3>3. x < z /\ x \in E2
      BY <1>9, <2>1, <3>2, <3>6
    <3>4. ASSUME NEW c \in K, x < c, c < u PROVE EnvOf(r, c) = x
      <4>1. ~(z < c)
        BY <1>1, <1>9, <2>1, <3>4
      <4>2. c \notin F
        BY <1>12, <4>1
      <4>3. QED
        BY <1>15, <3>2, <3>4, <4>2
    <3>5. QED
      BY <3>2, <3>3, <3>4 DEF Refers
  <2>2. ASSUME NEW c \in K PROVE Refers(r, K, E2, c, EnvOf(r, c))
    <3>1. CASE c \in F
      BY <1>15, <3>1 DEF Refers
    <3>2. CASE c \notin F /\ c0 < c
      BY <1>15, <3>2 DEF Refers
    <3>3. CASE c \notin F /\ ~(c0 < c)
      <4>1. c # z
        BY <1>9 DEF Sound, Conts, Envs, IsEnvironment
      <4>2. c < z
        BY <1>1, <1>9, <3>3, <4>1 DEF F, Followers
      <4>3. Refers(s, K, E, c, EnvOf(s, c))
        BY DEF Sound, References
      <4>4. QED
        BY <1>15, <2>1, <3>3, <4>2, <4>3
    <3>4. QED
      BY <3>1, <3>2, <3>3
  <2>3. ASSUME NEW x \in E2 PROVE Refers(r, K, E2, x, EnvAbove(r, x))
    <3>5. x \in Nat /\ EnvLow(s, x) \in Int /\ EnvLow(s, x) <= x - 1
      BY <1>1
    <3>1. x - 1 \in EnvLow(s, x) .. x
      BY <3>5
    <3>2. EnvAbove(r, x) = EnvAbove(s, x)
      BY <1>16, <3>1 DEF EnvAbove
    <3>3. Refers(s, K, E, x, EnvAbove(s, x))
      BY DEF Sound, References
    <3>4. QED
      BY <2>1, <3>2, <3>3
  <2>4. QED
    BY <2>2, <2>3 DEF References
<1>19. Sound(r, K, E2)
  <2>1. Top(r) = Top(s) /\ r.cont = s.cont /\ E2 \in SUBSET E
    BY <1>13 DEF SameRegisters
  <2>2. \A c \in K : r.stack[c] = s.stack[c] /\ EnvOf(r, c) \in Int
    <3>1. ASSUME NEW c \in K PROVE r.stack[c] = s.stack[c] /\ EnvOf(r, c) \in Int
      <4>3. c \in Nat /\ ContLow(s, c) \in Int /\ ContLow(s, c) <= c - 4
        BY <1>1
      <4>1. c \in ContLow(s, c) .. c /\ c # c - 4
        BY <4>3
      <4>2. QED
        BY <1>14, <1>15, <4>1
    <3>2. QED
      BY <3>1
  <2>3. ASSUME NEW c \in K \ {bottom}
        PROVE  /\ r.stack[c - 1] = s.stack[c - 1] /\ r.stack[c - 2] = s.stack[c - 2]
               /\ r.stack[c - 3] = s.stack[c - 3]
               /\ \A i \in ContLow(s, c) .. c - 5 : r.stack[i] = s.stack[i]
               /\ Begins(r.stack, ContLow(s, c) - 1)
    <3>1. /\ c - 1 \in ContLow(s, c) .. c /\ c - 1 # c - 4 /\ c - 2 \in ContLow(s, c) .. c /\ c - 2 # c - 4
          /\ c - 3 \in ContLow(s, c) .. c /\ c - 3 # c - 4
          /\ \A i \in ContLow(s, c) .. c - 5 : i \in ContLow(s, c) .. c /\ i # c - 4
      <4>1. c \in Int /\ ContLow(s, c) \in Int /\ ContLow(s, c) <= c - 4
        BY <1>1
      <4>2. QED
        BY <4>1
    <3>2. Boundary(s, K, E, ContLow(s, c) - 1) /\ ContLow(s, c) - 1 <= Top(s)
      BY <1>1, Boundaries
    <3>3. QED
      BY <1>14, <1>17, <3>1, <3>2
  <2>4. ASSUME NEW x \in E2
        PROVE  /\ r.stack[x] = s.stack[x] /\ r.stack[x - 1] = s.stack[x - 1]
               /\ \A i \in EnvLow(s, x) .. x - 2 : ~IsHeader(r.stack[i])
    <3>1. x \in EnvLow(s, x) .. x /\ x - 1 \in EnvLow(s, x) .. x
          /\ \A i \in EnvLow(s, x) .. x - 2 : i \in EnvLow(s, x) .. x
      <4>1. x \in Int /\ EnvLow(s, x) \in Int /\ EnvLow(s, x) <= x - 1
        BY <1>1, <1>13, Numbers
      <4>2. QED
        BY <4>1
    <3>2. \A i \in EnvLow(s, x) .. x - 2 : ~IsHeader(s.stack[i])
      BY DEF Sound, Envs
    <3>3. QED
      BY <1>16, <3>1, <3>2
  <2>5. QED
    <3> HIDE DEF E2
    <3>1. QED
      BY <1>13, <1>18, <2>1, <2>2, <2>3, <2>4, Reshaped
<1>20. HeapConts(r) = HeapConts(s)
  <2>1. 4 \in ContLow(s, bottom) .. bottom /\ 4 # bottom - 4 /\ bottom \in K
    BY <1>1 DEF Sound, Conts, ContLow
  <2>2. r.stack[4] = s.stack[4]
    BY <1>14, <2>1
  <2>3. QED
    BY <1>1, <2>2 DEF HeapConts
<1>21. ASSUME NEW n, ArgsIn(s.stack, Top(s), n)
       PROVE  /\ ArgsIn(r.stack, Top(s), n)
              /\ \A i \in Top(s) - n + 1 .. Top(s) : r.stack[i] = s.stack[i]
  <2>1. n \in Nat /\ Top(s) - n >= 5 /\ \A x \in K \cup E : x <= Top(s) - n
    BY <1>1, <1>21, BelowArgs DEF ArgsIn
  <2>2. ASSUME NEW i \in Top(s) - n + 1 .. Top(s) PROVE r.stack[i] = s.stack[i]
    <3>1. i \in 1 .. Top(s) /\ i > Top(s) - n
      BY <1>1, <2>1
    <3>2. i \notin K \cup E /\ i + 1 \notin K \cup E /\ i + 4 \notin K \cup E
      BY <1>1, <2>1, <3>1
    <3>3. i \notin C /\ i + 1 \notin C /\ i + 4 \notin F
      BY <1>2, <1>12, <3>2
    <3>4. QED
      BY <1>7, <1>11, <3>1, <3>3
  <2>3. Begins(r.stack, Top(s) - n)
    <3>1. Boundary(s, K, E, Top(s) - n) /\ Top(s) - n <= Top(s)
      BY <1>1, <1>21, <2>1, Boundaries
    <3>2. QED
      BY <1>17, <3>1
  <2>4. QED
    BY <1>21, <2>1, <2>2, <2>3 DEF ArgsIn
<1>22. EnvOf(s, c0) = e => EnvOf(r, c0) <= 0
  <2>1. SUFFICES ASSUME EnvOf(s, c0) = e PROVE c0 \in F
    BY <1>15
  <2>2. e < c0 /\ z <= e
    <3>1. e > 0
      BY <1>1
    <3>2. Refers(s, K, E, c0, EnvOf(s, c0))
      BY DEF Sound, References
    <3>3. QED
      BY <1>2, <1>3, <2>1, <3>1, <3>2 DEF Refers
  <2>3. z < c0
    BY <1>1, <1>9, <2>2
  <2>4. QED
    BY <1>9, <2>3 DEF F, Followers
<1>23. \A d \in K : EnvOf(s, d) <= 0 => EnvOf(r, d) <= 0
  BY <1>15
<1>24. \E D \in SUBSET E : Sound(r, K, D)
  <2>1. E2 \in SUBSET E
    OBVIOUS
  <2> HIDE DEF E2
  <2>2. QED
    BY <1>19, <2>1
<1>25. QED
  BY <1>13, <1>20, <1>21, <1>22, <1>23, <1>24

-----------------------------------------------------------------------------
(* The continuation moves to the heap.                                     *)

\* What stays of the machine and the n arguments while environments move.
Moved(s, r, K, E) ==
  /\ Machine(r) /\ Top(r) = Top(s) /\ SafeHeap(r.heap) /\ HeapConts(r) = HeapConts(s)
  /\ r.cont = s.cont /\ r.used = s.used /\ r.room = s.room /\ r.overrun = s.overrun
  /\ \E E2 \in SUBSET E : Sound(r, K, E2)
  /\ \A d \in K : EnvOf(s, d) <= 0 => EnvOf(r, d) <= 0
  /\ \A n : ArgsIn(s.stack, Top(s), n) =>
       /\ ArgsIn(r.stack, Top(s), n)
       /\ \A i \in Top(s) - n + 1 .. Top(s) : r.stack[i] = s.stack[i]

LEMMA PreservedEnv ==
  ASSUME NEW s, Machine(s), SafeHeap(s.heap), NEW K, NEW E, Sound(s, K, E), s.env \in Int,
         Refers(s, K, E, Top(s) + 1, s.env), NEW r, r = preserve_current_env(s)
  PROVE  Moved(s, r, K, E) /\ r.env \in Int /\ r.env <= 0
<1>1. CASE within_stack(s.env)
  <2> DEFINE q == save_env_in_heap(s, s.env, s.cont)
  <2>1. s.env \in E /\ s.env > 0 /\ s.cont \in K /\ \A d \in K : d <= s.cont
    BY <1>1 DEF within_stack, Refers, Sound, Conts
  <2>2. Top(s) \in Nat /\ K \subseteq Nat /\ \A d \in K : d <= Top(s)
    BY Numbers
  <2>3. \A d \in K : d < Top(s) + 1
    BY <2>2
  <2>4. \A d \in K : ~(s.cont < d)
    <3>1. s.cont \in Nat /\ \A d \in K : d \in Nat /\ d <= s.cont
      BY <2>1, <2>2
    <3>2. QED
      BY <3>1
  <2>5. /\ Machine(q) /\ SameRegisters(s, q) /\ Top(q) = Top(s) /\ SafeHeap(q.heap)
        /\ HeapConts(q) = HeapConts(s)
        /\ \E E2 \in SUBSET E : Sound(q, K, E2)
        /\ \A d \in K : EnvOf(s, d) <= 0 => EnvOf(q, d) <= 0
        /\ \A n : ArgsIn(s.stack, Top(s), n) =>
             /\ ArgsIn(q.stack, Top(s), n)
             /\ \A i \in Top(s) - n + 1 .. Top(s) : q.stack[i] = s.stack[i]
    <3>1. Top(s) + 1 \in Int
      BY <2>2
    <3>2. \A d \in K : d <= s.cont => d < Top(s) + 1 \/ EnvOf(s, d) = s.env
      BY <2>3
    <3>3. \A d \in K : s.cont < d => EnvOf(s, d) <= 0
      BY <2>4
    <3> HIDE DEF q
    <3>4. q = save_env_in_heap(s, s.env, s.cont)
      BY DEF q
    <3>5. QED
      BY <2>1, <3>1, <3>2, <3>3, <3>4, SavedEnv
  <2>6. r = [q EXCEPT !.env = -s.stack[s.env].id]
    BY <1>1 DEF preserve_current_env
  <2> HIDE DEF q
  <2>7. s.stack[s.env].id \in Nat
    BY <2>1 DEF Sound, Envs
  <2>8. /\ Machine(r) /\ r.stack = q.stack /\ r.heap = q.heap /\ r.env = -s.stack[s.env].id
        /\ r.cont = s.cont /\ r.used = s.used /\ r.room = s.room /\ r.overrun = s.overrun
    BY <2>5, <2>6 DEF Machine, SameRegisters
  <2>9. Top(r) = Top(s) /\ HeapConts(r) = HeapConts(s)
    BY <2>5, <2>8 DEF Top, HeapConts
  <2>10. PICK E2 \in SUBSET E : Sound(q, K, E2)
    BY <2>5
  <2>11. r.cont = q.cont /\ Top(r) = Top(q)
    BY <2>5, <2>8, <2>9 DEF SameRegisters
  <2>12. Sound(r, K, E2)
    BY <2>8, <2>10, <2>11 DEF Sound, Conts, Continuation, Envs, Apart, References, Refers, ContOf, EnvOf,
                              ArgsOf, ContLow, EnvLow, EnvAbove
  <2>13. \A d \in K : EnvOf(r, d) = EnvOf(q, d)
    BY <2>8 DEF EnvOf
  <2>14. r.env \in Int /\ r.env <= 0
    BY <2>7, <2>8
  <2>15. QED
    BY <2>5, <2>8, <2>9, <2>12, <2>13, <2>14 DEF Moved
<1>2. CASE ~within_stack(s.env)
  <2>1. r = s /\ s.env <= 0
    BY <1>2 DEF preserve_current_env, within_stack
  <2>2. E \in SUBSET E
    OBVIOUS
  <2>3. QED
    BY <2>1, <2>2 DEF Moved, ArgsIn
<1>3. QED
  BY <1>1, <1>2

LEMMA SavedEnvOf ==
  ASSUME NEW s, Machine(s), SafeHeap(s.heap), NEW K, NEW E, Sound(s, K, E), NEW c \in K,
         \A d \in K : c < d => EnvOf(s, d) <= 0, NEW r, r = save_env_of(s, c)
  PROVE  Moved(s, r, K, E) /\ r.env = s.env /\ EnvOf(r, c) <= 0
<1>1. EnvOf(s, c) \in Int /\ K \subseteq Nat
  BY Numbers DEF Sound, Conts
<1>2. CASE within_stack(EnvOf(s, c))
  <2>1. PICK e : e = EnvOf(s, c)
    OBVIOUS
  <2>8. PICK y \in Int : y = c
    BY <1>1
  <2>2. Refers(s, K, E, y, e)
    BY <2>1, <2>8 DEF Sound, References
  <2>3. e \in E
    BY <1>1, <1>2, <2>1, <2>2 DEF Refers, within_stack
  <2>4. \A d \in K : d <= c => d < y \/ EnvOf(s, d) = e
    <3>1. ASSUME NEW d \in K, d <= c PROVE d < y \/ d = c
      BY <1>1, <2>8, <3>1
    <3>2. QED
      BY <2>1, <3>1
  <2>5. r = save_env_in_heap(s, e, c)
    BY <1>2, <2>1 DEF save_env_of
  <2>6. /\ Machine(r) /\ SameRegisters(s, r) /\ Top(r) = Top(s) /\ SafeHeap(r.heap)
        /\ HeapConts(r) = HeapConts(s)
        /\ \E E2 \in SUBSET E : Sound(r, K, E2)
        /\ \A d \in K : EnvOf(s, d) <= 0 => EnvOf(r, d) <= 0
        /\ EnvOf(s, c) = e => EnvOf(r, c) <= 0
        /\ \A n : ArgsIn(s.stack, Top(s), n) =>
             /\ ArgsIn(r.stack, Top(s), n)
             /\ \A i \in Top(s) - n + 1 .. Top(s) : r.stack[i] = s.stack[i]
    BY <2>2, <2>3, <2>4, <2>5, SavedEnv
  <2>7. QED
    BY <2>1, <2>6 DEF Moved, SameRegisters
<1>3. CASE ~within_stack(EnvOf(s, c))
  <2>1. r = s /\ EnvOf(s, c) <= 0
    BY <1>1, <1>3 DEF save_env_of, within_stack
  <2>2. E \in SUBSET E
    OBVIOUS
  <2>3. QED
    BY <2>1, <2>2 DEF Moved, ArgsIn
<1>4. QED
  BY <1>2, <1>3

LEMMA MovedTwice ==
  ASSUME NEW s, NEW q, NEW r, NEW K, NEW E, Moved(s, q, K, E),
         NEW E2 \in SUBSET E, Moved(q, r, K, E2)
  PROVE  Moved(s, r, K, E)
BY DEF Moved

LEMMA HeapContsSet ==
  ASSUME NEW s, Machine(s), Top(s) >= bottom, NEW k, NEW r, r = SetHeapConts(s, k)
  PROVE  /\ Machine(r) /\ SameRegisters(s, r) /\ r.heap = s.heap /\ Top(r) = Top(s) /\ HeapConts(r) = k
         /\ \A i \in 1 .. Top(s) : i # bottom - 1 => r.stack[i] = s.stack[i]
<1>1. Top(s) = Len(s.stack) /\ Top(s) \in Nat /\ DOMAIN s.stack = 1 .. Top(s) /\ bottom = 5
  BY TopNat, SeqFacts DEF Machine, bottom, continuation_stack_size
<1>2. r.stack = [i \in DOMAIN s.stack |-> IF i = bottom - 1 THEN [conts |-> k] ELSE s.stack[i]]
  BY DEF SetHeapConts, Machine
<1>3. SameRegisters(s, r) /\ r.heap = s.heap
  BY DEF SetHeapConts, Machine, SameRegisters
<1>4. r \in [stack : {r.stack}, env : {r.env}, cont : {r.cont}, heap : {r.heap},
             used : {r.used}, room : {r.room}, overrun : {r.overrun}]
  BY DEF SetHeapConts, Machine
<1>5. r.stack = [i \in 1 .. Top(s) |-> r.stack[i]]
  BY <1>1, <1>2
<1>6. IsSeq(r.stack) /\ Len(r.stack) = Top(s)
  BY <1>1, <1>5, SeqBy
<1>7. Machine(r) /\ Top(r) = Top(s)
  BY <1>3, <1>4, <1>6 DEF Machine, Top, SameRegisters
<1>8. 4 \in DOMAIN s.stack
  BY <1>1
<1>9. r.stack[4] = [conts |-> k]
  BY <1>1, <1>2, <1>8
<1>10. HeapConts(r) = k
  BY <1>1, <1>9 DEF HeapConts
<1>11. QED
  BY <1>1, <1>2, <1>3, <1>7, <1>10

\* Lower on the stack, a continuation needs no more.
LEMMA FrameLower ==
  ASSUME Limit \in Int, NEW a, NEW t, NEW pc, NEW b \in Int, Frame(a, t, pc, b), NEW b2 \in Int, b2 <= b
  PROVE  Frame(a, t, pc, b2)
<1>1. Len(a) \in Nat /\ Extra(t) \in Nat
  BY SeqFacts DEF Frame, Extra
<1> DEFINE account == Account(a, t, pc)
<1>2. Affordable(account[1], account[2], b + Len(a) - Extra(t))
  BY DEF Frame
<1> HIDE DEF account
<1>3. Affordable(account[1], account[2], b2 + Len(a) - Extra(t))
  BY <1>1, <1>2 DEF Affordable
<1>4. QED
  BY <1>3 DEF Frame, account

\* One continuation after the other, the environments are saved, and then all of them.
LEMMA CopiedConts ==
  ASSUME Limit \in Int, NEW s, Machine(s), SafeHeap(s.heap), SafeConts(HeapConts(s)),
         NEW K, NEW E, Sound(s, K, E), NEW r, r = CopyConts(s)
  PROVE  \E q, k : Moved(s, q, K, E) /\ q.env = s.env /\ r = SetHeapConts(q, k) /\ SafeConts(k)
<1> DEFINE cs == StackConts(s, s.cont)
           N == Len(cs) - 1
<1>1. s.cont \in K /\ (\A d \in K : d <= s.cont) /\ Conts(s, K)
  BY DEF Sound, Conts
<1>15. cs = StackConts(s, s.cont)
  OBVIOUS
<1> HIDE DEF cs
<1>2. /\ IsSeq(cs) /\ Len(cs) \in Nat /\ Len(cs) >= 1 /\ cs[1] = s.cont /\ cs[Len(cs)] = bottom
      /\ \A i \in 1 .. Len(cs) : cs[i] \in K
      /\ \A i \in 1 .. Len(cs) - 1 : cs[i] # bottom
      /\ \A i \in 1 .. Len(cs) : \A j \in 1 .. i - 1 : cs[i] < cs[j]
      /\ \A c \in K : c <= s.cont => \E i \in 1 .. Len(cs) : cs[i] = c
  BY <1>1, <1>15, ContsChain
<1>3. N \in Nat /\ K \subseteq Nat
  BY <1>2, Numbers
<1> DEFINE All(f) == f = [n \in 0 .. N |-> IF n = 0 THEN s ELSE save_env_of(f[n - 1], cs[n])]
           saved == CHOOSE f : All(f)
           last == saved[N]
           k == [i \in 1 .. N |-> HeapCont(last, cs[i])] \o HeapConts(last)
<1>4. r = SetHeapConts(last, k)
  BY DEF CopyConts, cs
<1> HIDE DEF N
<1>5. \E f : All(f)
  <2> DEFINE Solves(f, n) == f = [i \in 0 .. n |-> IF i = 0 THEN s ELSE save_env_of(f[i - 1], cs[i])]
             D == {n \in 0 .. N : \E f : Solves(f, n)}
  <2>1. 0 \in D
    <3> DEFINE g == [i \in 0 .. 0 |-> s]
    <3>1. Solves(g, 0)
      OBVIOUS
    <3>2. \E f : Solves(f, 0)
      <4> HIDE DEF Solves, g
      <4>1. QED
        BY <3>1
    <3>3. QED
      <4> HIDE DEF Solves
      <4>1. QED
        BY <1>3, <3>2
  <2>2. ASSUME NEW n \in 1 .. N, n - 1 \in D PROVE n \in D
    <3>1. PICK f : Solves(f, n - 1)
      BY <2>2
    <3>2. \A i \in 0 .. n - 1 : f[i] = IF i = 0 THEN s ELSE save_env_of(f[i - 1], cs[i])
      BY <3>1
    <3> DEFINE g == [i \in 0 .. n |-> IF i = 0 THEN s ELSE save_env_of(f[i - 1], cs[i])]
    <3>3. \A i \in 0 .. n - 1 : g[i] = f[i]
      <4>1. ASSUME NEW i \in 0 .. n - 1 PROVE g[i] = f[i]
        <5>1. i \in 0 .. n
          OBVIOUS
        <5>2. g[i] = IF i = 0 THEN s ELSE save_env_of(f[i - 1], cs[i])
          BY <5>1
        <5> HIDE DEF g
        <5>3. QED
          BY <3>2, <5>2
      <4> HIDE DEF g
      <4>2. QED
        BY <4>1
    <3>4. \A i \in 0 .. n : (IF i = 0 THEN s ELSE save_env_of(f[i - 1], cs[i]))
                              = (IF i = 0 THEN s ELSE save_env_of(g[i - 1], cs[i]))
      <4>1. ASSUME NEW i \in 0 .. n, i # 0 PROVE f[i - 1] = g[i - 1]
        <5>1. i - 1 \in 0 .. n - 1
          BY <4>1
        <5> HIDE DEF g
        <5>2. QED
          BY <3>3, <5>1
      <4> HIDE DEF g
      <4>2. QED
        BY <4>1
    <3>5. Solves(g, n)
      BY <3>4
    <3>6. \E h : Solves(h, n)
      <4> HIDE DEF Solves, g
      <4>1. QED
        BY <3>5
    <3>7. QED
      <4> HIDE DEF Solves
      <4>1. QED
        BY <3>6
  <2>3. 0 .. N \subseteq D
    <3> HIDE DEF D
    <3>1. QED
      BY <1>3, <2>1, <2>2, InductionTo
  <2>4. N \in D
    <3>1. N \in 0 .. N
      BY <1>3
    <3> HIDE DEF D
    <3>2. QED
      BY <2>3, <3>1
  <2>5. PICK f : Solves(f, N)
    BY <2>4
  <2>6. All(f)
    BY <2>5
  <2> HIDE DEF All
  <2>7. QED
    BY <2>6
<1>6. All(saved)
  <2> HIDE DEF All
  <2>1. QED
    BY <1>5
<1>7. saved[0] = s /\ \A n \in 1 .. N : saved[n] = save_env_of(saved[n - 1], cs[n])
  <2> HIDE DEF saved
  <2>1. QED
    BY <1>3, <1>6
<1> HIDE DEF saved, All
<1> DEFINE Done(n) == /\ Moved(s, saved[n], K, E) /\ saved[n].env = s.env
                      /\ \A i \in 1 .. n : EnvOf(saved[n], cs[i]) <= 0
           D == {n \in 0 .. N : Done(n)}
<1>8. 0 \in D
  <2>1. E \in SUBSET E
    OBVIOUS
  <2>2. Moved(s, s, K, E)
    BY <2>1 DEF Moved, ArgsIn
  <2>3. QED
    BY <1>3, <1>7, <2>2
<1>9. ASSUME NEW n \in 1 .. N, n - 1 \in D PROVE n \in D
  <2>1. PICK q : q = saved[n - 1]
    OBVIOUS
  <2>2. Moved(s, q, K, E) /\ q.env = s.env /\ \A i \in 1 .. n - 1 : EnvOf(q, cs[i]) <= 0
    BY <1>9, <2>1
  <2>3. PICK E2 \in SUBSET E : Sound(q, K, E2)
    BY <2>2 DEF Moved
  <2>4. Machine(q) /\ SafeHeap(q.heap)
    BY <2>2 DEF Moved
  <2>5. n \in 1 .. Len(cs) /\ cs[n] \in K /\ \A i \in 1 .. n - 1 : i \in 1 .. Len(cs)
    BY <1>2, <1>3 DEF N
  <2>6. ASSUME NEW d \in K, cs[n] < d PROVE EnvOf(q, d) <= 0
    <3>1. PICK i \in 1 .. Len(cs) : cs[i] = d
      BY <1>1, <1>2
    <3>2. i \in 1 .. n - 1
      <4>1. SUFFICES ASSUME ~(i \in 1 .. n - 1) PROVE FALSE
        OBVIOUS
      <4>2. i = n \/ n \in 1 .. i - 1
        BY <1>2, <1>3, <4>1
      <4>3. i = n \/ cs[i] < cs[n]
        BY <1>2, <4>2
      <4>4. cs[n] \in Nat /\ d \in Nat
        BY <1>3, <2>5
      <4>5. QED
        BY <2>6, <3>1, <4>3, <4>4
    <3>3. QED
      BY <2>2, <3>1, <3>2
  <2>7. saved[n] = save_env_of(q, cs[n])
    BY <1>7, <2>1
  <2>8. Moved(q, saved[n], K, E2) /\ saved[n].env = q.env /\ EnvOf(saved[n], cs[n]) <= 0
    BY <2>3, <2>4, <2>5, <2>6, <2>7, SavedEnvOf
  <2>9. Moved(s, saved[n], K, E)
    BY <2>2, <2>3, <2>8, MovedTwice
  <2>10. ASSUME NEW i \in 1 .. n PROVE EnvOf(saved[n], cs[i]) <= 0
    <3>1. CASE i = n
      BY <2>8, <3>1
    <3>2. CASE i # n
      <4>1. i \in 1 .. n - 1 /\ i \in 1 .. Len(cs)
        BY <2>5, <3>2
      <4>2. cs[i] \in K /\ EnvOf(q, cs[i]) <= 0
        BY <1>2, <2>2, <4>1
      <4>3. QED
        BY <2>8, <4>2 DEF Moved
    <3>3. QED
      BY <3>1, <3>2
  <2>11. Done(n)
    BY <2>2, <2>8, <2>9, <2>10
  <2> HIDE DEF Done
  <2>12. QED
    BY <2>11
<1>10. 0 .. N \subseteq D
  <2> HIDE DEF D
  <2>1. QED
    BY <1>3, <1>8, <1>9, InductionTo
<1>11. Done(N)
  <2>1. N \in 0 .. N
    BY <1>3
  <2> HIDE DEF Done
  <2>2. QED
    BY <1>10, <2>1
<1>12. Moved(s, last, K, E) /\ last.env = s.env /\ \A i \in 1 .. N : EnvOf(last, cs[i]) <= 0
  BY <1>11
<1>13. SafeConts(k)
  <2>1. PICK q : q = last
    OBVIOUS
  <2>2. PICK E2 \in SUBSET E : Sound(q, K, E2)
    BY <1>12, <2>1 DEF Moved
  <2>3. Machine(q) /\ SafeConts(HeapConts(q))
    BY <1>12, <2>1 DEF Moved
  <2>4. ASSUME NEW i \in 1 .. N PROVE HeapFrame(HeapCont(q, cs[i]))
    <3>9. i \in 1 .. Len(cs) /\ i \in 1 .. Len(cs) - 1
      BY <1>2, <1>3 DEF N
    <3>1. PICK c \in K \ {bottom} : c = cs[i]
      BY <1>2, <3>9
    <3>2. Frame(ArgsOf(q, c), q.stack[c - 3].template, q.stack[c - 2].pc, ContLow(q, c) - 1)
      BY <2>2 DEF Sound, Conts, Continuation
    <3>3. ContLow(q, c) > 5 /\ ContLow(q, c) \in Int /\ bottom = 5
      BY <2>2, <2>3, Numbers
    <3>4. ContLow(q, c) - 1 \in Int /\ bottom \in Int /\ bottom <= ContLow(q, c) - 1
      BY <3>3
    <3>5. Frame(ArgsOf(q, c), q.stack[c - 3].template, q.stack[c - 2].pc, bottom)
      BY <3>2, <3>4, FrameLower
    <3>6. EnvOf(q, c) \in Int /\ EnvOf(q, c) <= 0
      BY <1>12, <2>1, <2>2, <3>1 DEF Sound, Conts
    <3>7. /\ HeapCont(q, c).args = ArgsOf(q, c) /\ HeapCont(q, c).env = EnvOf(q, c)
          /\ HeapCont(q, c).template = q.stack[c - 3].template /\ HeapCont(q, c).pc = q.stack[c - 2].pc
      BY DEF HeapCont
    <3>8. QED
      BY <3>1, <3>5, <3>6, <3>7 DEF HeapFrame, within_stack
  <2> DEFINE h == [i \in 1 .. N |-> HeapCont(q, cs[i])]
  <2>5. IsSeq(h) /\ Len(h) = N
    <3>1. h = [i \in 1 .. N |-> h[i]]
      OBVIOUS
    <3> HIDE DEF h
    <3>2. QED
      BY <1>3, <3>1, SeqBy
  <2>6. \A i \in 1 .. Len(h) : HeapFrame(h[i])
    BY <2>4, <2>5
  <2>7. k = h \o HeapConts(q)
    BY <2>1
  <2> HIDE DEF h, k
  <2>8. IsSeq(HeapConts(q)) /\ \A i \in 1 .. Len(HeapConts(q)) : HeapFrame(HeapConts(q)[i])
    BY <2>3 DEF SafeConts
  <2>9. /\ IsSeq(k) /\ Len(k) = Len(h) + Len(HeapConts(q))
        /\ \A i \in 1 .. Len(h) : k[i] = h[i]
        /\ \A i \in 1 .. Len(HeapConts(q)) : k[Len(h) + i] = HeapConts(q)[i]
    <3>1. PICK x, y : x = h /\ y = HeapConts(q)
      OBVIOUS
    <3>2. IsSeq(x) /\ IsSeq(y) /\ k = x \o y
      BY <2>5, <2>7, <2>8, <3>1
    <3>3. /\ IsSeq(k) /\ Len(k) = Len(x) + Len(y)
          /\ \A i \in 1 .. Len(x) : k[i] = x[i]
          /\ \A i \in 1 .. Len(y) : k[Len(x) + i] = y[i]
      BY <3>2, Concatenated
    <3>4. QED
      BY <3>1, <3>3
  <2>10. ASSUME NEW i \in 1 .. Len(k) PROVE HeapFrame(k[i])
    <3>1. Len(h) \in Nat /\ Len(HeapConts(q)) \in Nat
      BY <2>5, <2>8, SeqFacts
    <3>2. CASE i <= Len(h)
      <4>1. i \in 1 .. Len(h)
        BY <2>9, <3>1, <3>2
      <4>2. QED
        BY <2>6, <2>9, <4>1
    <3>3. CASE i > Len(h)
      <4>1. i - Len(h) \in 1 .. Len(HeapConts(q)) /\ Len(h) + (i - Len(h)) = i
        BY <2>9, <3>1, <3>3
      <4>2. k[i] = HeapConts(q)[i - Len(h)]
        BY <2>9, <4>1
      <4>3. QED
        BY <2>8, <4>1, <4>2
    <3>4. QED
      BY <2>9, <3>1, <3>2, <3>3
  <2>11. QED
    BY <2>9, <2>10 DEF SafeConts
<1> HIDE DEF k, last
<1>14. QED
  BY <1>4, <1>12, <1>13

LEMMA Sizes ==
  /\ StackCells \in Nat /\ DefaultSpace \in Nat /\ BigSpace \in Nat /\ WarningLimit \in Nat /\ MaxArgs \in Nat
  /\ LastCell \in Int /\ Limit \in Int /\ LastCell = Limit + 30
  /\ DefaultSpace <= BigSpace /\ 2 <= MaxArgs /\ MaxArgs + BigSpace + 9 <= Limit
  /\ bottom = 5
<1>1. LastCell = StackCells - WarningLimit - 2 /\ Limit = StackCells - WarningLimit - 32
      /\ StackCells \in Nat /\ WarningLimit \in Nat
  BY StackAssumption DEF LastCell, Limit
<1>2. QED
  BY <1>1, StackAssumption DEF bottom, continuation_stack_size

\* Only the bottom continuation is left, and no environment.
LEMMA PreservedCont ==
  ASSUME NEW s, Machine(s), SafeHeap(s.heap), SafeConts(HeapConts(s)),
         NEW K, NEW E, Sound(s, K, E), s.env \in Int, Refers(s, K, E, Top(s) + 1, s.env),
         NEW r, r = preserve_continuation(s)
  PROVE  /\ Machine(r) /\ Top(r) = Top(s) /\ SafeHeap(r.heap) /\ SafeConts(HeapConts(r))
         /\ Sound(r, {bottom}, {}) /\ r.cont = bottom /\ r.env \in Int /\ r.env <= 0
         /\ r.used = s.used /\ r.room = s.room /\ r.overrun = s.overrun
         /\ \A n : ArgsIn(s.stack, Top(s), n) =>
              /\ ArgsIn(r.stack, Top(s), n)
              /\ \A i \in Top(s) - n + 1 .. Top(s) : r.stack[i] = s.stack[i]
<1> DEFINE p == preserve_current_env(s)
<1>1. Moved(s, p, K, E) /\ p.env \in Int /\ p.env <= 0
  BY PreservedEnv
<1>2. PICK E1 \in SUBSET E : Sound(p, K, E1)
  BY <1>1 DEF Moved
<1>3. r = [CopyConts(p) EXCEPT !.cont = bottom]
  BY DEF preserve_continuation
<1> HIDE DEF p
<1>4. Machine(p) /\ SafeHeap(p.heap) /\ SafeConts(HeapConts(p))
  BY <1>1 DEF Moved
<1>5. PICK q, k : Moved(p, q, K, E1) /\ q.env = p.env /\ CopyConts(p) = SetHeapConts(q, k) /\ SafeConts(k)
  <2>1. Limit \in Int
    BY Sizes
  <2>2. QED
    BY <1>2, <1>4, <2>1, CopiedConts
<1>6. Moved(s, q, K, E)
  BY <1>1, <1>2, <1>5, MovedTwice
<1>7. PICK E2 \in SUBSET E1 : Sound(q, K, E2)
  BY <1>5 DEF Moved
<1>8. Machine(q)
  BY <1>6 DEF Moved
<1>9. /\ Top(q) \in Nat /\ bottom = 5 /\ K \subseteq Nat /\ \A c \in K : c <= Top(q) /\ c >= 5
      /\ bottom \in K /\ Top(q) >= bottom
  BY <1>7, <1>8, Numbers DEF Sound, Conts
<1> DEFINE t == SetHeapConts(q, k)
<1>10. /\ Machine(t) /\ SameRegisters(q, t) /\ t.heap = q.heap /\ Top(t) = Top(q) /\ HeapConts(t) = k
       /\ \A i \in 1 .. Top(q) : i # bottom - 1 => t.stack[i] = q.stack[i]
  BY <1>8, <1>9, HeapContsSet
<1> HIDE DEF t
<1>11. r = [t EXCEPT !.cont = bottom]
  BY <1>3, <1>5 DEF t
<1>12. /\ Machine(r) /\ r.stack = t.stack /\ r.heap = t.heap /\ r.cont = bottom
       /\ r.env = t.env /\ r.used = t.used /\ r.room = t.room /\ r.overrun = t.overrun
  BY <1>10, <1>11 DEF Machine
<1>13. Top(r) = Top(q) /\ HeapConts(r) = k
  BY <1>10, <1>12 DEF Top, HeapConts
<1>14. \A i \in 1 .. Top(q) : i # bottom - 1 => r.stack[i] = q.stack[i]
  BY <1>10, <1>12
<1>15. Sound(r, {bottom}, {})
  <2>1. PICK top \in Nat : top = Top(q)
    BY <1>9
  <2>2. /\ top >= bottom /\ top <= Top(q) /\ top <= Top(r)
        /\ \A i \in 1 .. top : i # bottom - 1 => r.stack[i] = q.stack[i]
    BY <1>9, <1>13, <1>14, <2>1
  <2>3. /\ {bottom} \in SUBSET K /\ {} \in SUBSET E2 /\ bottom \in {bottom} /\ r.cont \in {bottom}
        /\ \A c \in {bottom} : c <= r.cont
        /\ \A x \in {bottom} \cup {} : x <= top
        /\ \A c \in K : \A d \in {bottom} : c < d => c \in {bottom}
        /\ \A e \in E2 : \A x \in {bottom} \cup {} : e < x => e \in {}
    <3>1. \A e \in E2 : e \in Nat /\ e > 5
      BY <1>7, <1>8, Numbers
    <3>2. QED
      BY <1>9, <1>12, <2>1, <3>1
  <2>4. PICK K2, F2 : K2 = {bottom} /\ F2 = {}
    OBVIOUS
  <2>5. Sound(r, K2, F2)
    <3>1. /\ K2 \in SUBSET K /\ F2 \in SUBSET E2 /\ bottom \in K2 /\ r.cont \in K2
          /\ \A c \in K2 : c <= r.cont
          /\ \A x \in K2 \cup F2 : x <= top
          /\ \A c \in K : \A d \in K2 : c < d => c \in K2
          /\ \A e \in E2 : \A x \in K2 \cup F2 : e < x => e \in F2
      BY <2>3, <2>4
    <3>2. QED
      BY <1>7, <1>8, <1>12, <2>2, <3>1, Kept
  <2>6. QED
    BY <2>4, <2>5
<1>16. ASSUME NEW n, ArgsIn(s.stack, Top(s), n)
       PROVE  /\ ArgsIn(r.stack, Top(s), n)
              /\ \A i \in Top(s) - n + 1 .. Top(s) : r.stack[i] = s.stack[i]
  <2>1. ArgsIn(q.stack, Top(s), n) /\ \A i \in Top(s) - n + 1 .. Top(s) : q.stack[i] = s.stack[i]
    BY <1>6, <1>16 DEF Moved
  <2>2. Top(q) = Top(s) /\ Top(s) \in Nat /\ n \in Nat /\ Top(s) - n >= 5
    BY <1>6, <1>9, <1>16 DEF Moved, ArgsIn
  <2>3. IsHeader(q.stack[bottom])
    BY <1>7, <1>9 DEF Sound, Conts
  <2>4. ArgsIn(r.stack, Top(s), n)
    BY <1>14, <2>1, <2>2, <2>3, ArgsStay
  <2>5. \A i \in Top(s) - n + 1 .. Top(s) : i \in 1 .. Top(q) /\ i # bottom - 1
    BY <1>9, <2>2
  <2>6. QED
    BY <1>14, <2>1, <2>4, <2>5
<1>17. /\ Top(r) = Top(s) /\ SafeHeap(r.heap) /\ SafeConts(HeapConts(r)) /\ r.env \in Int /\ r.env <= 0
       /\ r.used = s.used /\ r.room = s.room /\ r.overrun = s.overrun
  BY <1>1, <1>5, <1>6, <1>10, <1>12, <1>13 DEF Moved, SameRegisters
<1>18. QED
  BY <1>12, <1>15, <1>16, <1>17

LEMMA TopArgsAre ==
  ASSUME NEW s, Machine(s), NEW n \in Nat, n <= Top(s)
  PROVE  /\ IsSeq(TopArgs(s, n)) /\ Len(TopArgs(s, n)) = n
         /\ \A i \in 1 .. n : TopArgs(s, n)[i] = s.stack[Top(s) - n + i]
<1>1. Top(s) \in Nat /\ IsSeq(s.stack) /\ Top(s) = Len(s.stack)
  BY TopNat DEF Machine
<1> DEFINE i == Top(s) - n + 1
<1>2. i \in Int /\ i >= 1 /\ i <= Top(s) + 1 /\ Top(s) \in Int /\ Top(s) <= Len(s.stack)
  BY <1>1
<1>3. Top(s) - i + 1 = n /\ \A k \in 1 .. n : k + i - 1 = Top(s) - n + k
  BY <1>1
<1> HIDE DEF i
<1>4. TopArgs(s, n) = SubSeq(s.stack, i, Top(s))
  BY DEF TopArgs, i
<1>5. /\ IsSeq(SubSeq(s.stack, i, Top(s))) /\ Len(SubSeq(s.stack, i, Top(s))) = Top(s) - i + 1
      /\ \A k \in 1 .. Top(s) - i + 1 : SubSeq(s.stack, i, Top(s))[k] = s.stack[k + i - 1]
  BY <1>1, <1>2, Part
<1>6. QED
  BY <1>3, <1>4, <1>5

\* The arguments are then above the bottom continuation.
LEMMA CopiedStack ==
  ASSUME NEW s, NEW n, Good(s, s.env, n), NEW r, r = copy_stack_into_heap(s)
  PROVE  /\ Good(r, r.env, n) /\ Top(r) = 5 + n /\ r.env <= 0
         /\ r.used = s.used /\ r.room = s.room /\ r.overrun = s.overrun
         /\ TopArgs(r, n) = TopArgs(s, n)
<1>1. /\ Machine(s) /\ SafeHeap(s.heap) /\ SafeConts(HeapConts(s)) /\ ArgsIn(s.stack, Top(s), n) /\ s.env \in Int
  BY DEF Good
<1>2. PICK K, E : Sound(s, K, E) /\ Refers(s, K, E, Top(s) + 1, s.env)
  BY DEF Good
<1>3. arguments_on_stack(s) = n
  BY <1>1, ArgumentCount
<1> DEFINE p == preserve_continuation(s)
           args == TopArgs(s, n)
<1>4. /\ Machine(p) /\ Top(p) = Top(s) /\ SafeHeap(p.heap) /\ SafeConts(HeapConts(p))
      /\ Sound(p, {bottom}, {}) /\ p.cont = bottom /\ p.env \in Int /\ p.env <= 0
      /\ p.used = s.used /\ p.room = s.room /\ p.overrun = s.overrun
  BY <1>1, <1>2, PreservedCont
<1>5. r = [p EXCEPT !.stack = SubSeq(@, 1, p.cont) \o args]
  BY <1>3 DEF copy_stack_into_heap, move_args_above_cont
<1> HIDE DEF p
<1>6. Top(s) \in Nat /\ n \in Nat /\ Top(s) - n >= 5 /\ n <= Top(s) /\ bottom = 5
  BY <1>1, TopNat, Sizes DEF ArgsIn
<1>7. IsSeq(args) /\ Len(args) = n /\ \A i \in 1 .. n : args[i] = s.stack[Top(s) - n + i]
  BY <1>1, <1>6, TopArgsAre
<1>8. \A i \in 1 .. n : ~IsHeader(args[i])
  <2>1. \A i \in 1 .. n : Top(s) - n + i \in Top(s) - n + 1 .. Top(s)
    BY <1>6
  <2>2. QED
    BY <1>1, <1>7, <2>1 DEF ArgsIn
<1> HIDE DEF args
<1> DEFINE base == SubSeq(p.stack, 1, 5)
<1>9. IsSeq(p.stack) /\ Len(p.stack) >= 5
  BY <1>4, <1>6 DEF Machine, Top
<1>10. IsSeq(base) /\ Len(base) = 5 /\ \A i \in 1 .. 5 : base[i] = p.stack[i]
  <2>1. 5 \in Nat /\ 5 <= Len(p.stack)
    BY <1>9
  <2>2. QED
    BY <1>9, <2>1, Prefix
<1> HIDE DEF base
<1>11. r.stack = base \o args /\ r.env = p.env /\ r.cont = p.cont /\ r.heap = p.heap
       /\ r.used = p.used /\ r.room = p.room /\ r.overrun = p.overrun
  BY <1>4, <1>5, <1>6 DEF Machine, base
<1>12. /\ IsSeq(base \o args) /\ Len(base \o args) = 5 + n
       /\ \A i \in 1 .. 5 : (base \o args)[i] = base[i]
       /\ \A i \in 1 .. n : (base \o args)[5 + i] = args[i]
  <2>1. IsSeq(base) /\ IsSeq(args)
    BY <1>7, <1>10
  <2>2. /\ IsSeq(base \o args) /\ Len(base \o args) = Len(base) + Len(args)
        /\ \A i \in 1 .. Len(base) : (base \o args)[i] = base[i]
        /\ \A i \in 1 .. Len(args) : (base \o args)[Len(base) + i] = args[i]
    BY <2>1, Concatenated
  <2>3. QED
    BY <1>7, <1>10, <2>2
<1>13. r \in [stack : {r.stack}, env : {r.env}, cont : {r.cont}, heap : {r.heap},
              used : {r.used}, room : {r.room}, overrun : {r.overrun}]
  BY <1>4, <1>5 DEF Machine
<1>14. Machine(r) /\ Top(r) = 5 + n
  BY <1>4, <1>11, <1>12, <1>13 DEF Machine, Top
<1>15. (\A i \in 1 .. 5 : r.stack[i] = p.stack[i]) /\ \A i \in 1 .. n : r.stack[5 + i] = args[i]
  BY <1>10, <1>11, <1>12
<1>16. HeapConts(r) = HeapConts(p)
  BY <1>6, <1>15 DEF HeapConts
<1>17. Sound(r, {bottom}, {})
  <2>1. PICK top \in Nat : top = 5
    OBVIOUS
  <2>2. /\ top >= bottom /\ top <= Top(p) /\ top <= Top(r)
        /\ \A i \in 1 .. top : i # bottom - 1 => r.stack[i] = p.stack[i]
    BY <1>4, <1>6, <1>14, <1>15, <2>1
  <2>3. PICK K2, F2 : K2 = {bottom} /\ F2 = {}
    OBVIOUS
  <2>4. /\ K2 \in SUBSET K2 /\ F2 \in SUBSET F2 /\ bottom \in K2 /\ r.cont \in K2
        /\ \A c \in K2 : c <= r.cont
        /\ \A x \in K2 \cup F2 : x <= top
        /\ \A c \in K2 : \A d \in K2 : c < d => c \in K2
        /\ \A e \in F2 : \A x \in K2 \cup F2 : e < x => e \in F2
        /\ Sound(p, K2, F2)
    BY <1>4, <1>6, <1>11, <2>1, <2>3
  <2>5. Sound(r, K2, F2)
    BY <1>4, <1>14, <2>2, <2>4, Kept
  <2>6. QED
    BY <2>3, <2>5
<1>18. ArgsIn(r.stack, Top(r), n)
  <2>1. ASSUME NEW i \in 6 .. 5 + n PROVE ~IsHeader(r.stack[i])
    <3>1. i - 5 \in 1 .. n /\ 5 + (i - 5) = i
      BY <1>6
    <3>2. QED
      BY <1>8, <1>15, <3>1
  <2>2. IsHeader(p.stack[bottom]) /\ p.stack[bottom].header = "continuation"
    BY <1>4 DEF Sound, Conts
  <2>3. p.stack[bottom] # argument_limit_marker
    BY <2>2 DEF argument_limit_marker
  <2>4. Begins(r.stack, 5)
    BY <1>6, <1>15, <2>2, <2>3 DEF Begins
  <2>5. Top(r) - n = 5 /\ Top(r) - n + 1 = 6
    BY <1>6, <1>14
  <2>6. QED
    BY <1>6, <1>14, <2>1, <2>4, <2>5 DEF ArgsIn
<1>19. Refers(r, {bottom}, {}, Top(r) + 1, r.env)
  BY <1>4, <1>11 DEF Refers
<1>20. Good(r, r.env, n)
  BY <1>4, <1>11, <1>14, <1>16, <1>17, <1>18, <1>19 DEF Good
<1>21. TopArgs(r, n) = args
  <2>1. n <= Top(r)
    BY <1>6, <1>14
  <2>2. /\ IsSeq(TopArgs(r, n)) /\ Len(TopArgs(r, n)) = n
        /\ \A i \in 1 .. n : TopArgs(r, n)[i] = r.stack[Top(r) - n + i]
    BY <1>6, <1>14, <2>1, TopArgsAre
  <2>3. Top(r) - n = 5
    BY <1>6, <1>14
  <2>4. \A i \in 1 .. n : TopArgs(r, n)[i] = args[i]
    BY <1>15, <2>2, <2>3
  <2>5. QED
    BY <1>7, <2>2, <2>4, SeqFacts
<1>22. args = TopArgs(s, n)
  BY DEF args
<1>23. QED
  BY <1>4, <1>11, <1>14, <1>20, <1>21, <1>22

-----------------------------------------------------------------------------
(* Space on the stack.                                                     *)

LEMMA Available ==
  ASSUME NEW s, Machine(s), NEW space \in Nat
  PROVE  /\ available_on_stack(s, space) <=> Top(s) + space < Limit
         /\ AboveLimit(s) >= 0 <=> Top(s) + DefaultSpace <= Limit
<1>1. /\ Top(s) \in Nat /\ StackCells \in Nat /\ WarningLimit \in Nat /\ DefaultSpace \in Nat
      /\ Limit = StackCells - WarningLimit - 32
  BY TopNat, Sizes DEF Limit, LastCell
<1>2. AboveLimit(s) = StackCells - Top(s) - 1 - (DefaultSpace + 31 + WarningLimit)
  BY <1>1 DEF AboveLimit, stack_slack, continuation_stack_size
<1>3. QED
  BY <1>1, <1>2 DEF available_on_stack

\* What stays when space is made.
Ensured(s, r, n) ==
  /\ Good(r, r.env, n) /\ r.used = s.used /\ r.room = s.room /\ r.overrun = s.overrun
  /\ TopArgs(r, n) = TopArgs(s, n) /\ Top(r) <= LastCell
  /\ s.env <= 0 => r.env <= 0

LEMMA EnsuredSpace ==
  ASSUME NEW s, NEW n, Good(s, s.env, n), Top(s) <= LastCell, NEW space \in Nat, 5 + n + space < Limit,
         NEW r, r = ensure_stack_space(s, space)
  PROVE  Ensured(s, r, n) /\ Top(r) + space < Limit
<1>1. Machine(s) /\ n \in Nat
  BY DEF Good, ArgsIn
<1> DEFINE q == copy_stack_into_heap(s)
<1>2. CASE available_on_stack(s, space)
  <2>1. r = s
    BY <1>2 DEF ensure_stack_space
  <2>2. QED
    BY <1>1, <1>2, <2>1, Available DEF Ensured
<1>3. CASE ~available_on_stack(s, space)
  <2>1. /\ Good(q, q.env, n) /\ Top(q) = 5 + n /\ q.env <= 0
        /\ q.used = s.used /\ q.room = s.room /\ q.overrun = s.overrun
        /\ TopArgs(q, n) = TopArgs(s, n)
    BY CopiedStack
  <2>2. r = IF available_on_stack(q, space) THEN q ELSE TooSmall(q)
    BY <1>3 DEF ensure_stack_space
  <2> HIDE DEF q
  <2>3. Machine(q)
    BY <2>1 DEF Good
  <2>4. available_on_stack(q, space)
    BY <1>1, <2>1, <2>3, Available
  <2>5. r = q
    BY <2>2, <2>4
  <2>6. Top(r) <= LastCell
    BY <1>1, <2>1, <2>5, Sizes
  <2>7. QED
    BY <1>1, <2>1, <2>5, <2>6 DEF Ensured
<1>4. QED
  BY <1>2, <1>3

LEMMA EnsuredDefault ==
  ASSUME NEW s, NEW n, Good(s, s.env, n), Top(s) <= LastCell, 5 + n + DefaultSpace <= Limit,
         NEW r, r = ensure_default_procedure_space(s)
  PROVE  Ensured(s, r, n) /\ Top(r) + DefaultSpace <= Limit
<1>1. Machine(s) /\ n \in Nat /\ DefaultSpace \in Nat
  BY Sizes DEF Good, ArgsIn
<1> DEFINE q == copy_stack_into_heap(s)
<1>2. CASE AboveLimit(s) >= 0
  <2>1. r = s
    BY <1>2 DEF ensure_default_procedure_space
  <2>2. QED
    BY <1>1, <1>2, <2>1, Available DEF Ensured
<1>3. CASE ~(AboveLimit(s) >= 0)
  <2>1. /\ Good(q, q.env, n) /\ Top(q) = 5 + n /\ q.env <= 0
        /\ q.used = s.used /\ q.room = s.room /\ q.overrun = s.overrun
        /\ TopArgs(q, n) = TopArgs(s, n)
    BY CopiedStack
  <2>2. r = IF AboveLimit(q) >= 0 THEN q ELSE TooSmall(q)
    BY <1>3 DEF ensure_default_procedure_space
  <2> HIDE DEF q
  <2>3. Machine(q)
    BY <2>1 DEF Good
  <2>4. AboveLimit(q) >= 0
    BY <1>1, <2>1, <2>3, Available
  <2>5. r = q
    BY <2>2, <2>4
  <2>6. Top(r) <= LastCell
    BY <1>1, <2>1, <2>5, Sizes
  <2>7. QED
    BY <1>1, <2>1, <2>5, <2>6 DEF Ensured
<1>4. QED
  BY <1>2, <1>3

-----------------------------------------------------------------------------
(* New continuations and environments.                                     *)

ContinuationCells(v, t, pc, c, n) ==
  <<[env |-> v], [template |-> t], [pc |-> pc], [cont |-> c],
    [header |-> "continuation", size |-> n, id |-> 0]>>
EnvironmentCells(v, n, id) == <<[env |-> v], [header |-> "environment", size |-> n + 1, id |-> id]>>

LEMMA FiveCells ==
  ASSUME NEW v, NEW t, NEW pc, NEW c, NEW n, NEW x, x = ContinuationCells(v, t, pc, c, n)
  PROVE  /\ IsSeq(x) /\ Len(x) = 5 /\ x[1].env = v /\ x[2].template = t /\ x[3].pc = pc /\ x[4].cont = c
         /\ IsHeader(x[5]) /\ x[5].header = "continuation" /\ x[5].size = n
<1> DEFINE T == {x[1], x[2], x[3], x[4], x[5]}
<1>1. x \in Seq(T) /\ Len(x) = 5
  BY DEF ContinuationCells
<1>2. IsSeq(x)
  <2> HIDE DEF T
  <2>1. QED
    BY <1>1, SeqOf
<1>3. QED
  BY <1>1, <1>2 DEF ContinuationCells, IsHeader

LEMMA TwoCells ==
  ASSUME NEW v, NEW n, NEW id, NEW x, x = EnvironmentCells(v, n, id)
  PROVE  /\ IsSeq(x) /\ Len(x) = 2 /\ x[1].env = v
         /\ IsEnvironment(x[2]) /\ ~IsForwarded(x[2]) /\ x[2].size = n + 1 /\ x[2].id = id
<1> DEFINE T == {x[1], x[2]}
<1>1. x \in Seq(T) /\ Len(x) = 2
  BY DEF EnvironmentCells
<1>2. IsSeq(x)
  <2> HIDE DEF T
  <2>1. QED
    BY <1>1, SeqOf
<1>3. QED
  BY <1>1, <1>2 DEF EnvironmentCells, IsHeader, IsEnvironment, IsForwarded

LEMMA KeptAll ==
  ASSUME NEW s, Machine(s), NEW K, NEW E, Sound(s, K, E), NEW r, Machine(r), r.cont = s.cont,
         Top(s) <= Top(r), \A i \in 1 .. Top(s) : i # bottom - 1 => r.stack[i] = s.stack[i]
  PROVE  Sound(r, K, E) /\ SameEnvs(s, r, K)
<1>1. /\ Top(s) \in Nat /\ bottom = 5 /\ K \subseteq Nat /\ E \subseteq Nat
      /\ \A x \in K : x <= Top(s) /\ x >= 5
      /\ \A x \in E : x <= Top(s)
  BY Numbers
<1>2. PICK p : p = Top(s)
  OBVIOUS
<1>3. bottom \in K /\ r.cont \in K /\ \A c \in K : c <= r.cont
  BY DEF Sound, Conts
<1>4. /\ p \in Nat /\ p >= bottom /\ p <= Top(s) /\ p <= Top(r) /\ Stays(s, r, p)
  BY <1>1, <1>2, <1>3 DEF Stays
<1>6. LowerPart(K, E, K, E, p, r.cont)
  BY <1>1, <1>2, <1>3 DEF LowerPart
<1>7. QED
  BY <1>4, <1>6, KeptPart

Pushes(s, r, cells) == r.stack = s.stack \o cells
Extends(s, r, cells) ==
  /\ Top(r) = Top(s) + Len(cells)
  /\ \A i \in 1 .. Top(s) : r.stack[i] = s.stack[i]
  /\ \A i \in 1 .. Len(cells) : r.stack[Top(s) + i] = cells[i]

LEMMA Pushed ==
  ASSUME NEW s, Machine(s), NEW r, Machine(r), NEW cells, IsSeq(cells), Pushes(s, r, cells)
  PROVE  Extends(s, r, cells)
<1>1. Top(s) \in Nat /\ Top(s) = Len(s.stack) /\ IsSeq(s.stack)
  BY TopNat DEF Machine
<1>2. r.stack = s.stack \o cells
  BY DEF Pushes
<1>3. /\ Len(s.stack \o cells) = Len(s.stack) + Len(cells)
      /\ \A i \in 1 .. Len(s.stack) : (s.stack \o cells)[i] = s.stack[i]
      /\ \A i \in 1 .. Len(cells) : (s.stack \o cells)[Len(s.stack) + i] = cells[i]
  BY <1>1, Concatenated
<1>4. QED
  BY <1>1, <1>2, <1>3 DEF Top, Extends

\* What is below stays when cells are pushed.
LEMMA PushedOver ==
  ASSUME NEW s, Machine(s), NEW K, NEW E, Sound(s, K, E), NEW r, Machine(r), r.cont = s.cont,
         NEW cells, IsSeq(cells), Pushes(s, r, cells)
  PROVE  /\ Sound(r, K, E) /\ HeapConts(r) = HeapConts(s)
         /\ SameEnvs(s, r, K)
         /\ \A n : ArgsIn(s.stack, Top(s), n) => ArgsIn(r.stack, Top(s), n)
<1>1. /\ Top(s) \in Nat /\ Top(s) = Len(s.stack) /\ IsSeq(s.stack) /\ bottom = 5 /\ Len(cells) \in Nat
      /\ K \subseteq Nat /\ E \subseteq Nat /\ bottom \in K
      /\ \A x \in K : x <= Top(s) /\ x >= 5
      /\ \A x \in E : x <= Top(s)
  <2>1. Top(s) \in Nat /\ Top(s) = Len(s.stack) /\ IsSeq(s.stack) /\ bottom = 5 /\ Len(cells) \in Nat
    BY TopNat, SeqFacts, Sizes DEF Machine
  <2>2. /\ K \subseteq Nat /\ E \subseteq Nat
        /\ \A x \in K : x <= Top(s) /\ x >= 5
        /\ \A x \in E : x <= Top(s)
    BY Numbers
  <2>3. bottom \in K
    BY DEF Sound, Conts
  <2>4. QED
    BY <2>1, <2>2, <2>3
<1>3. /\ Top(r) = Top(s) + Len(cells)
      /\ \A i \in 1 .. Top(s) : r.stack[i] = s.stack[i]
      /\ \A i \in 1 .. Len(cells) : r.stack[Top(s) + i] = cells[i]
  BY Pushed DEF Extends
<1>4. HeapConts(r) = HeapConts(s)
  <2>1. 4 \in 1 .. Top(s)
    BY <1>1
  <2>2. r.stack[4] = s.stack[4]
    BY <1>3, <2>1
  <2>3. QED
    BY <1>1, <2>2 DEF HeapConts
<1>5. Sound(r, K, E) /\ SameEnvs(s, r, K)
  <2>1. Top(s) <= Top(r) /\ \A i \in 1 .. Top(s) : i # bottom - 1 => r.stack[i] = s.stack[i]
    BY <1>1, <1>3
  <2>2. QED
    BY <2>1, KeptAll
<1>6. ASSUME NEW n, ArgsIn(s.stack, Top(s), n) PROVE ArgsIn(r.stack, Top(s), n)
  <2>1. n \in Nat /\ IsHeader(s.stack[bottom])
    BY <1>1, <1>6 DEF ArgsIn, Sound, Conts
  <2>2. \A i \in 1 .. Top(s) : i # bottom - 1 => r.stack[i] = s.stack[i]
    BY <1>3
  <2>3. QED
    BY <1>1, <1>6, <2>1, <2>2, ArgsStay
<1>7. QED
  BY <1>3, <1>4, <1>5, <1>6

\* A continuation with the n arguments that are on the stack.
AddsCont(s, r, v, n, t, pc) ==
  /\ Machine(r) /\ Pushes(s, r, ContinuationCells(v, t, pc, s.cont, n))
  /\ r.cont = Top(s) + 5 /\ r.heap = s.heap

LEMMA AddCont ==
  ASSUME NEW s, NEW v, NEW n, Good(s, v, n), NEW t, NEW pc,
         Frame(TopArgs(s, n), t, pc, Top(s) - n),
         NEW r, AddsCont(s, r, v, n, t, pc)
  PROVE  /\ Good(r, v, 0) /\ HeapConts(r) = HeapConts(s) /\ Top(r) = Top(s) + 5
<1> DEFINE cells == ContinuationCells(v, t, pc, s.cont, n)
           q == [r EXCEPT !.cont = s.cont]
<1>1. /\ Machine(s) /\ SafeHeap(s.heap) /\ SafeConts(HeapConts(s))
      /\ ArgsIn(s.stack, Top(s), n) /\ v \in Int
  BY DEF Good
<1>2. PICK K, E : Sound(s, K, E) /\ Refers(s, K, E, Top(s) + 1, v)
  BY DEF Good
<1>22. PICK c0 : c0 = Top(s) + 5
  OBVIOUS
<1>23. Machine(r) /\ Pushes(s, r, cells) /\ r.cont = c0 /\ r.heap = s.heap
  BY <1>22 DEF AddsCont
<1>3. Machine(q) /\ q.stack = r.stack /\ q.cont = s.cont
  BY <1>23 DEF Machine
<1>4. /\ IsSeq(cells) /\ Len(cells) = 5 /\ cells[1].env = v /\ cells[2].template = t
      /\ cells[3].pc = pc /\ cells[4].cont = s.cont
      /\ IsHeader(cells[5]) /\ cells[5].header = "continuation" /\ cells[5].size = n
  BY FiveCells
<1> HIDE DEF q, cells
<1>5. Pushes(s, q, cells)
  BY <1>3, <1>23 DEF Pushes
<1>25. Sound(q, K, E)
  BY <1>1, <1>2, <1>3, <1>4, <1>5, PushedOver
<1>26. HeapConts(q) = HeapConts(s) /\ SameEnvs(s, q, K)
  BY <1>1, <1>2, <1>3, <1>4, <1>5, <1>25, PushedOver
<1>27. /\ Top(q) = Top(s) + Len(cells)
       /\ \A i \in 1 .. Top(s) : q.stack[i] = s.stack[i]
       /\ \A i \in 1 .. Len(cells) : q.stack[Top(s) + i] = cells[i]
  <2>1. Extends(s, q, cells)
    BY <1>1, <1>3, <1>4, <1>5, Pushed
  <2>2. QED
    BY <2>1 DEF Extends
<1>6. /\ Sound(q, K, E) /\ HeapConts(q) = HeapConts(s) /\ Top(q) = Top(s) + Len(cells)
      /\ \A i \in 1 .. Top(s) : q.stack[i] = s.stack[i]
      /\ \A i \in 1 .. Len(cells) : q.stack[Top(s) + i] = cells[i]
      /\ SameEnvs(s, q, K)
  BY <1>25, <1>26, <1>27
<1>24. ArgsIn(q.stack, Top(s), n)
  BY <1>1, <1>2, <1>3, <1>4, <1>5, <1>6, PushedOver
<1>7. HeapConts(r) = HeapConts(s) /\ Top(r) = c0
  BY <1>3, <1>4, <1>6, <1>22 DEF HeapConts, Top
<1>8. /\ Top(s) \in Nat /\ bottom = 5 /\ K \subseteq Nat /\ E \subseteq Nat /\ c0 \in Nat /\ Top(s) >= 5
      /\ n \in Nat /\ Top(s) - n >= 5
      /\ \A x \in K \cup E : x \in Nat /\ x <= Top(s) - n
  <2>1. /\ Top(s) \in Nat /\ bottom = 5 /\ K \subseteq Nat /\ E \subseteq Nat /\ c0 \in Nat
    BY <1>1, <1>2, <1>22, Numbers
  <2>2. n \in Nat /\ Top(s) - n >= 5
    BY <1>1, <2>1 DEF ArgsIn
  <2>3. \A x \in K \cup E : x <= Top(s) - n
    BY <1>1, <1>2, BelowArgs
  <2>4. QED
    BY <2>1, <2>2, <2>3
<1>9. /\ r.stack[c0 - 4] = cells[1] /\ r.stack[c0 - 3] = cells[2] /\ r.stack[c0 - 2] = cells[3]
      /\ r.stack[c0 - 1] = cells[4] /\ r.stack[c0] = cells[5]
  <2>1. \A i \in 1 .. 5 : r.stack[Top(s) + i] = cells[i]
    BY <1>3, <1>4, <1>6
  <2>2. /\ c0 - 4 = Top(s) + 1 /\ c0 - 3 = Top(s) + 2 /\ c0 - 2 = Top(s) + 3
        /\ c0 - 1 = Top(s) + 4 /\ c0 = Top(s) + 5
    BY <1>8, <1>22
  <2>3. QED
    BY <2>1, <2>2
<1>10. /\ EnvOf(r, c0) = v /\ ContOf(r, c0) = s.cont /\ r.stack[c0 - 3].template = t
       /\ r.stack[c0 - 2].pc = pc /\ IsHeader(r.stack[c0]) /\ r.stack[c0].header = "continuation"
       /\ r.stack[c0].size = n /\ ContLow(r, c0) = Top(s) - n + 1
  BY <1>4, <1>8, <1>9, <1>22 DEF EnvOf, ContOf, ContLow
<1>11. ArgsOf(r, c0) = TopArgs(s, n)
  <2>1. ArgsOf(r, c0) = SubSeq(r.stack, Top(s) - n + 1, Top(s))
    <3>1. c0 - 4 - r.stack[c0].size = Top(s) - n + 1 /\ c0 - 5 = Top(s)
      BY <1>8, <1>10, <1>22
    <3>2. QED
      BY <3>1 DEF ArgsOf
  <2>2. n <= Top(s)
    BY <1>8
  <2>3. /\ IsSeq(TopArgs(s, n)) /\ Len(TopArgs(s, n)) = n
        /\ \A i \in 1 .. n : TopArgs(s, n)[i] = s.stack[Top(s) - n + i]
    BY <1>1, <1>8, <2>2, TopArgsAre
  <2> DEFINE a == Top(s) - n + 1
             b == Top(s)
             x == SubSeq(r.stack, a, b)
  <2>4. /\ a \in Int /\ b \in Int /\ a >= 1 /\ a <= b + 1 /\ b <= Len(r.stack) /\ IsSeq(r.stack)
        /\ b - a + 1 = n /\ \A k \in 1 .. n : k + a - 1 \in 1 .. Top(s) /\ k + a - 1 = Top(s) - n + k
    <3>1. IsSeq(r.stack) /\ Top(s) <= Len(r.stack)
      BY <1>7, <1>8, <1>22, <1>23 DEF Machine, Top
    <3>2. QED
      BY <1>8, <3>1
  <2> HIDE DEF a, b
  <2>5. /\ IsSeq(SubSeq(r.stack, a, b)) /\ Len(SubSeq(r.stack, a, b)) = b - a + 1
        /\ \A k \in 1 .. b - a + 1 : SubSeq(r.stack, a, b)[k] = r.stack[k + a - 1]
    BY <2>4, Part
  <2>9. \A k \in 1 .. n : r.stack[k + a - 1] = s.stack[k + a - 1]
    BY <1>3, <1>6, <2>4
  <2>6. \A k \in 1 .. n : x[k] = TopArgs(s, n)[k]
    BY <2>3, <2>4, <2>5, <2>9
  <2> HIDE DEF x
  <2>7. x = TopArgs(s, n)
    <3>1. PICK y : y = TopArgs(s, n)
      OBVIOUS
    <3>2. IsSeq(x) /\ Len(x) = n
      BY <2>4, <2>5 DEF x
    <3>3. IsSeq(y) /\ Len(y) = n /\ \A k \in 1 .. n : x[k] = y[k]
      BY <2>3, <2>6, <3>1
    <3>4. x = y
      BY <3>2, <3>3, SameSeq
    <3>5. QED
      BY <3>1, <3>4
  <2>8. QED
    BY <2>1, <2>7 DEF x, a, b
<1> DEFINE K2 == K \cup {c0}
<1>12. /\ \A c \in K : c < c0 /\ c \in Nat /\ c # c0
       /\ \A e \in E : e < c0 /\ e \in Nat
  BY <1>8, <1>22
<1>13. Conts(r, K2)
  <2>1. Conts(q, K) /\ Conts(s, K)
    BY <1>2, <1>6 DEF Sound
  <2>2. K2 \subseteq bottom .. Top(r) /\ bottom \in K2 /\ r.cont \in K2 /\ \A c \in K2 : c <= r.cont
    <3>1. bottom \in K /\ r.cont = c0 /\ Top(r) = c0 /\ c0 >= 5
      BY <1>7, <1>8, <1>22, <1>23, <2>1 DEF Conts
    <3>2. \A c \in K2 : c \in Nat /\ c <= c0 /\ c >= 5
      <4>1. \A c \in K : c >= 5
        BY <1>1, <1>2, Numbers
      <4>2. QED
        BY <1>8, <1>12, <3>1, <4>1
    <3>3. QED
      BY <1>8, <3>1, <3>2
  <2>3. r.stack[bottom].size = 0
    BY <1>3, <2>1 DEF Conts
  <2>4. \A c \in K2 : /\ IsHeader(r.stack[c]) /\ r.stack[c].header = "continuation"
                      /\ r.stack[c].size \in Nat /\ EnvOf(r, c) \in Int
    BY <1>1, <1>3, <1>8, <1>10, <2>1 DEF Conts, EnvOf
  <2>5. ASSUME NEW c \in K \ {bottom} PROVE Continuation(r, K2, c)
    <3>1. Continuation(q, K, c)
      BY <2>1 DEF Conts
    <3>2. ContOf(r, c) = ContOf(q, c) /\ ContLow(r, c) = ContLow(q, c) /\ ArgsOf(r, c) = ArgsOf(q, c)
      BY <1>3 DEF ContOf, ContLow, ArgsOf
    <3>3. \A d \in K2 : d < c => d <= ContOf(r, c)
      BY <1>8, <1>12, <3>1, <3>2 DEF Continuation
    <3>4. QED
      BY <1>3, <3>1, <3>2, <3>3 DEF Continuation
  <2>6. Continuation(r, K2, c0)
    <3>1. s.cont \in K /\ \A d \in K : d <= s.cont
      BY <2>1 DEF Conts
    <3>2. s.cont < ContLow(r, c0)
      BY <1>8, <1>10, <3>1
    <3>3. \A d \in K2 : d < c0 => d <= s.cont
      BY <3>1, <1>8
    <3>4. ContLow(r, c0) - 1 = Top(s) - n /\ c0 - 5 = Top(s)
      BY <1>8, <1>10, <1>22
    <3>5. ArgsIn(r.stack, c0 - 5, r.stack[c0].size)
      BY <1>3, <1>10, <1>24, <3>4
    <3>6. Frame(ArgsOf(r, c0), r.stack[c0 - 3].template, r.stack[c0 - 2].pc, ContLow(r, c0) - 1)
      BY <1>10, <1>11, <3>4
    <3>7. ContOf(r, c0) \in K2
      BY <1>10, <3>1
    <3>8. QED
      BY <1>10, <3>2, <3>3, <3>5, <3>6, <3>7 DEF Continuation
  <2>7. QED
    BY <1>8, <2>2, <2>3, <2>4, <2>5, <2>6 DEF Conts
<1>14. Envs(r, E)
  BY <1>3, <1>6, <1>7 DEF Sound, Envs, EnvAbove, EnvLow, Top
<1>15. Apart(r, K2, E)
  <2>1. Apart(q, K, E)
    BY <1>6 DEF Sound
  <2>2. /\ \A c \in K : ContLow(r, c) = ContLow(q, c)
        /\ \A e \in E : EnvLow(r, e) = EnvLow(q, e)
    BY <1>3 DEF ContLow, EnvLow
  <2>3. \A x \in K \cup E : x < ContLow(r, c0)
    BY <1>8, <1>10
  <2>4. /\ \A c \in K : ~(c0 < c)
        /\ \A e \in E : ~(c0 < e)
        /\ ~(c0 < c0)
    BY <1>8, <1>12
  <2>5. QED
    BY <2>1, <2>2, <2>3, <2>4 DEF Apart
<1>16. ASSUME NEW y, NEW x, y \in K \cup E, Refers(q, K, E, y, x) PROVE Refers(r, K2, E, y, x)
  <2>1. \A c \in K : EnvOf(r, c) = EnvOf(q, c)
    BY <1>3 DEF EnvOf
  <2>2. ~(c0 < y)
    BY <1>8, <1>12, <1>16
  <2>3. QED
    BY <1>16, <2>1, <2>2 DEF Refers
<1>17. References(r, K2, E)
  <2>1. /\ \A c \in K : Refers(q, K, E, c, EnvOf(q, c)) /\ EnvOf(r, c) = EnvOf(q, c)
        /\ \A e \in E : Refers(q, K, E, e, EnvAbove(q, e)) /\ EnvAbove(r, e) = EnvAbove(q, e)
    BY <1>3, <1>6 DEF Sound, References, EnvOf, EnvAbove
  <2>2. Refers(r, K2, E, c0, v)
    <3>1. SUFFICES ASSUME v > 0 PROVE Refers(r, K2, E, c0, v)
      BY DEF Refers
    <3>2. /\ v \in E /\ \A e \in E : e < Top(s) + 1 => e <= v
          /\ \A c \in K : v < c /\ c < Top(s) + 1 => EnvOf(s, c) = v
      BY <1>2, <3>1 DEF Refers
    <3>3. \A c \in K : EnvOf(r, c) = EnvOf(s, c) /\ c < Top(s) + 1
      BY <1>3, <1>6, <1>8 DEF EnvOf, SameEnvs
    <3>4. \A e \in E : e < Top(s) + 1
      BY <1>8
    <3>5. \A c \in K2 : c < c0 => c \in K
      BY <1>8
    <3>6. v < c0
      BY <1>12, <3>2
    <3>7. QED
      BY <3>2, <3>3, <3>4, <3>5, <3>6 DEF Refers
  <2>3. QED
    BY <1>10, <1>16, <2>1, <2>2 DEF References
<1>18. Refers(r, K2, E, Top(r) + 1, v)
  <2>1. SUFFICES ASSUME v > 0 PROVE Refers(r, K2, E, Top(r) + 1, v)
    BY DEF Refers
  <2>2. /\ v \in E /\ \A e \in E : e < Top(s) + 1 => e <= v
        /\ \A c \in K : v < c /\ c < Top(s) + 1 => EnvOf(s, c) = v
    BY <1>2, <2>1 DEF Refers
  <2>3. \A c \in K : EnvOf(r, c) = EnvOf(s, c) /\ c < Top(s) + 1
    BY <1>3, <1>6, <1>8 DEF EnvOf, SameEnvs
  <2>4. \A e \in E : e < Top(s) + 1 /\ e < Top(r) + 1
    BY <1>7, <1>8, <1>22
  <2>5. QED
    BY <1>10, <2>2, <2>3, <2>4 DEF Refers
<1>19. ArgsIn(r.stack, Top(r), 0)
  <2>1. r.stack[c0] # argument_limit_marker
    BY <1>10 DEF argument_limit_marker
  <2>2. Top(r) - 0 = c0 /\ Top(r) = c0 /\ bottom <= c0 /\ c0 + 1 .. c0 = {}
    BY <1>7, <1>8, <1>22
  <2>3. Begins(r.stack, c0)
    BY <1>10, <2>1 DEF Begins
  <2>4. QED
    BY <2>2, <2>3 DEF ArgsIn
<1>20. Sound(r, K2, E)
  BY <1>13, <1>14, <1>15, <1>17 DEF Sound
<1>21. QED
  <2> HIDE DEF K2
  <2>1. QED
    BY <1>1, <1>7, <1>18, <1>19, <1>20, <1>22, <1>23 DEF Good

\* An environment of the n arguments that are on the stack.
AddsEnv(s, r, v, n, id) ==
  /\ Machine(r) /\ Pushes(s, r, EnvironmentCells(v, n, id))
  /\ r.cont = s.cont /\ r.heap = s.heap

LEMMA AddEnv ==
  ASSUME NEW s, NEW v, NEW n, Good(s, v, n), NEW id, id \in Nat, NEW r, AddsEnv(s, r, v, n, id)
  PROVE  /\ Good(r, Top(s) + 2, 0) /\ HeapConts(r) = HeapConts(s) /\ Top(r) = Top(s) + 2
<1> DEFINE cells == EnvironmentCells(v, n, id)
<1>1. /\ Machine(s) /\ SafeHeap(s.heap) /\ SafeConts(HeapConts(s))
      /\ ArgsIn(s.stack, Top(s), n) /\ v \in Int
  BY DEF Good
<1>2. PICK K, E : Sound(s, K, E) /\ Refers(s, K, E, Top(s) + 1, v)
  BY DEF Good
<1>3. PICK e0 : e0 = Top(s) + 2
  OBVIOUS
<1>4. Machine(r) /\ Pushes(s, r, cells) /\ r.cont = s.cont /\ r.heap = s.heap
  BY DEF AddsEnv
<1>5. /\ IsSeq(cells) /\ Len(cells) = 2 /\ cells[1].env = v
      /\ IsEnvironment(cells[2]) /\ ~IsForwarded(cells[2]) /\ cells[2].size = n + 1 /\ cells[2].id = id
  BY TwoCells
<1> HIDE DEF cells
<1>6. Sound(r, K, E)
  BY <1>1, <1>2, <1>4, <1>5, PushedOver
<1>7. HeapConts(r) = HeapConts(s) /\ SameEnvs(s, r, K)
  BY <1>1, <1>2, <1>4, <1>5, <1>6, PushedOver
<1>8. Extends(s, r, cells)
  BY <1>1, <1>4, <1>5, Pushed
<1>9. /\ Top(r) = e0 /\ \A i \in 1 .. Top(s) : r.stack[i] = s.stack[i]
      /\ \A i \in 1 .. 2 : r.stack[Top(s) + i] = cells[i]
  BY <1>3, <1>5, <1>8 DEF Extends
<1>10. /\ Top(s) \in Nat /\ bottom = 5 /\ K \subseteq Nat /\ E \subseteq Nat /\ e0 \in Nat
       /\ n \in Nat /\ Top(s) - n >= 5
       /\ \A x \in K \cup E : x \in Nat /\ x <= Top(s) - n /\ x < e0 /\ x # e0
  <2>1. /\ Top(s) \in Nat /\ bottom = 5 /\ K \subseteq Nat /\ E \subseteq Nat /\ e0 \in Nat
    BY <1>1, <1>2, <1>3, Numbers
  <2>2. n \in Nat /\ Top(s) - n >= 5
    BY <1>1, <2>1 DEF ArgsIn
  <2>3. \A x \in K \cup E : x <= Top(s) - n
    BY <1>1, <1>2, BelowArgs
  <2>4. QED
    BY <1>3, <2>1, <2>2, <2>3
<1>11. r.stack[e0 - 1] = cells[1] /\ r.stack[e0] = cells[2]
  BY <1>3, <1>9, <1>10
<1>12. /\ IsEnvironment(r.stack[e0]) /\ ~IsForwarded(r.stack[e0]) /\ r.stack[e0].id = id
       /\ r.stack[e0].size = n + 1 /\ EnvAbove(r, e0) = v /\ EnvLow(r, e0) = Top(s) - n + 1
  BY <1>3, <1>5, <1>10, <1>11 DEF EnvAbove, EnvLow
<1> DEFINE E2 == E \cup {e0}
<1>13. Envs(r, E2)
  <2>1. Envs(r, E)
    BY <1>6 DEF Sound
  <2>2. \A i \in EnvLow(r, e0) .. e0 - 2 : ~IsHeader(r.stack[i])
    <3>1. \A i \in Top(s) - n + 1 .. Top(s) : ~IsHeader(s.stack[i]) /\ i \in 1 .. Top(s)
      BY <1>1, <1>10 DEF ArgsIn
    <3>2. e0 - 2 = Top(s)
      BY <1>3, <1>10
    <3>3. QED
      BY <1>9, <1>12, <3>1, <3>2
  <2>3. n + 1 \in Nat /\ n + 1 >= 1 /\ Top(s) - n + 1 > 5 /\ e0 \in 6 .. e0
    BY <1>3, <1>10
  <2>4. E2 \subseteq bottom + 1 .. Top(r)
    BY <1>9, <1>10, <2>1, <2>3 DEF Envs
  <2>5. QED
    BY <1>1, <1>10, <1>12, <2>1, <2>2, <2>3, <2>4 DEF Envs
<1>14. Apart(r, K, E2)
  <2>1. Apart(r, K, E)
    BY <1>6 DEF Sound
  <2>2. \A x \in K \cup E : x < EnvLow(r, e0)
    BY <1>10, <1>12
  <2>3. /\ \A x \in K \cup E : ~(e0 < x)
        /\ ~(e0 < e0)
    BY <1>10
  <2>4. QED
    BY <2>1, <2>2, <2>3 DEF Apart
<1>15. ASSUME NEW y, NEW x, y \in K \cup E, Refers(r, K, E, y, x) PROVE Refers(r, K, E2, y, x)
  <2>1. ~(e0 < y)
    BY <1>10, <1>15
  <2>2. QED
    BY <1>15, <2>1 DEF Refers
<1>16. References(r, K, E2)
  <2>1. References(r, K, E)
    BY <1>6 DEF Sound
  <2>2. Refers(r, K, E2, e0, v)
    <3>1. SUFFICES ASSUME v > 0 PROVE Refers(r, K, E2, e0, v)
      BY DEF Refers
    <3>2. /\ v \in E /\ \A e \in E : e < Top(s) + 1 => e <= v
          /\ \A c \in K : v < c /\ c < Top(s) + 1 => EnvOf(s, c) = v
      BY <1>2, <3>1 DEF Refers
    <3>3. \A c \in K : EnvOf(r, c) = EnvOf(s, c) /\ c < Top(s) + 1
      BY <1>7, <1>10 DEF SameEnvs
    <3>4. \A e \in E : e < Top(s) + 1
      BY <1>10
    <3>5. \A e \in E2 : e < e0 => e \in E
      BY <1>10
    <3>6. v < e0
      BY <1>10, <3>2
    <3>7. QED
      BY <3>2, <3>3, <3>4, <3>5, <3>6 DEF Refers
  <2>3. QED
    BY <1>12, <1>15, <2>1, <2>2 DEF References
<1>17. Refers(r, K, E2, Top(r) + 1, e0)
  <2>1. e0 < Top(r) + 1 /\ \A e \in E2 : e <= e0
    BY <1>9, <1>10
  <2>2. \A c \in K : ~(e0 < c)
    BY <1>10
  <2>3. QED
    BY <2>1, <2>2 DEF Refers
<1>18. ArgsIn(r.stack, Top(r), 0)
  <2>1. r.stack[e0] # argument_limit_marker /\ IsHeader(r.stack[e0])
    BY <1>12 DEF argument_limit_marker, IsEnvironment
  <2>2. Top(r) - 0 = e0 /\ Top(r) = e0 /\ bottom <= e0 /\ e0 + 1 .. e0 = {}
    BY <1>3, <1>9, <1>10
  <2>3. Begins(r.stack, e0)
    BY <2>1 DEF Begins
  <2>4. QED
    BY <2>2, <2>3 DEF ArgsIn
<1>19. Sound(r, K, E2)
  BY <1>6, <1>13, <1>14, <1>16 DEF Sound
<1>20. Good(r, e0, 0)
  <2> HIDE DEF E2
  <2>1. e0 \in Int
    BY <1>10
  <2>2. QED
    BY <1>1, <1>4, <1>7, <1>17, <1>18, <1>19, <2>1 DEF Good
<1>21. QED
  BY <1>3, <1>7, <1>9, <1>20

-----------------------------------------------------------------------------
(* The operators that make them.                                           *)

LEMMA PushedCont ==
  ASSUME NEW s, NEW n, Good(s, s.env, n), NEW kind,
         Frame(TopArgs(s, n), kind, <<s.used, s.room>>, Top(s) - n),
         NEW r, r = push_continuation(s, kind, n)
  PROVE  /\ Good(r, r.env, 0) /\ HeapConts(r) = HeapConts(s) /\ Top(r) = Top(s) + 5
         /\ r.env = s.env /\ r.used = s.used /\ r.room = s.room
         /\ r.overrun = (s.overrun \/ Top(s) + 5 > LastCell)
<1> DEFINE pc == <<s.used, s.room>>
           cells == ContinuationCells(s.env, kind, pc, s.cont, n)
           q == push_all(s, cells)
<1>1. Machine(s)
  BY DEF Good
<1>2. IsSeq(cells) /\ Len(cells) = 5
  BY FiveCells
<1>3. r = [q EXCEPT !.cont = Top(s) + 5]
  BY DEF push_continuation, ContinuationCells, continuation_stack_size
<1> HIDE DEF cells
<1>4. /\ Machine(q) /\ SameBut(s, q) /\ q.stack = s.stack \o cells /\ Top(q) = Top(s) + 5
      /\ q.overrun = (s.overrun \/ Top(s) + 5 > LastCell)
  BY <1>1, <1>2, PushedAll DEF LastCell
<1> HIDE DEF q
<1>5. /\ Machine(r) /\ r.stack = q.stack /\ r.env = q.env /\ r.cont = Top(s) + 5 /\ r.heap = q.heap
      /\ r.used = q.used /\ r.room = q.room /\ r.overrun = q.overrun
  BY <1>3, <1>4 DEF Machine
<1>6. AddsCont(s, r, s.env, n, kind, pc)
  BY <1>4, <1>5 DEF AddsCont, Pushes, SameBut, cells
<1> HIDE DEF pc
<1>7. Good(r, s.env, 0) /\ HeapConts(r) = HeapConts(s) /\ Top(r) = Top(s) + 5
  <2>1. Frame(TopArgs(s, n), kind, pc, Top(s) - n)
    BY DEF pc
  <2>2. QED
    BY <1>6, <2>1, AddCont
<1>8. QED
  BY <1>4, <1>5, <1>7 DEF SameBut

LEMMA MadeEnv ==
  ASSUME NEW s, NEW n, Good(s, s.env, n), NEW id \in Nat, NEW r, r = pop_args_into_env(s, n, id)
  PROVE  /\ Good(r, r.env, 0) /\ HeapConts(r) = HeapConts(s) /\ Top(r) = Top(s) + 2
         /\ r.env = Top(s) + 2 /\ r.used = s.used /\ r.room = s.room
         /\ r.overrun = (s.overrun \/ Top(s) + 2 > LastCell)
<1> DEFINE cells == EnvironmentCells(s.env, n, id)
           q == push_all(s, cells)
<1>1. Machine(s)
  BY DEF Good
<1>2. IsSeq(cells) /\ Len(cells) = 2
  BY TwoCells
<1>3. r = [q EXCEPT !.env = Top(s) + 2]
  BY DEF pop_args_into_env, EnvironmentCells
<1> HIDE DEF cells
<1>4. /\ Machine(q) /\ SameBut(s, q) /\ q.stack = s.stack \o cells /\ Top(q) = Top(s) + 2
      /\ q.overrun = (s.overrun \/ Top(s) + 2 > LastCell)
  BY <1>1, <1>2, PushedAll DEF LastCell
<1> HIDE DEF q
<1>5. /\ Machine(r) /\ r.stack = q.stack /\ r.env = Top(s) + 2 /\ r.cont = q.cont /\ r.heap = q.heap
      /\ r.used = q.used /\ r.room = q.room /\ r.overrun = q.overrun
  BY <1>3, <1>4 DEF Machine
<1>6. AddsEnv(s, r, s.env, n, id)
  BY <1>4, <1>5 DEF AddsEnv, Pushes, SameBut, cells
<1>7. Good(r, Top(s) + 2, 0) /\ HeapConts(r) = HeapConts(s) /\ Top(r) = Top(s) + 2
  BY <1>6, AddEnv
<1>8. QED
  BY <1>4, <1>5, <1>7 DEF SameBut

-----------------------------------------------------------------------------
(* Continuations come back from the heap.                                  *)

LEMMA Associated ==
  ASSUME NEW x, NEW y, NEW z, IsSeq(x), IsSeq(y), IsSeq(z)
  PROVE  x \o (y \o z) = (x \o y) \o z
<1>1. Len(x) \in Nat /\ Len(y) \in Nat /\ Len(z) \in Nat
  BY SeqFacts
<1> DEFINE yz == y \o z
           xy == x \o y
           l == x \o yz
           r == xy \o z
<1>2. /\ IsSeq(yz) /\ Len(yz) = Len(y) + Len(z)
      /\ \A i \in 1 .. Len(y) : yz[i] = y[i]
      /\ \A i \in 1 .. Len(z) : yz[Len(y) + i] = z[i]
  BY Concatenated
<1>3. /\ IsSeq(xy) /\ Len(xy) = Len(x) + Len(y)
      /\ \A i \in 1 .. Len(x) : xy[i] = x[i]
      /\ \A i \in 1 .. Len(y) : xy[Len(x) + i] = y[i]
  BY Concatenated
<1> HIDE DEF yz, xy
<1>4. /\ IsSeq(l) /\ Len(l) = Len(x) + Len(yz)
      /\ \A i \in 1 .. Len(x) : l[i] = x[i]
      /\ \A i \in 1 .. Len(yz) : l[Len(x) + i] = yz[i]
  BY <1>2, Concatenated
<1>5. /\ IsSeq(r) /\ Len(r) = Len(xy) + Len(z)
      /\ \A i \in 1 .. Len(xy) : r[i] = xy[i]
      /\ \A i \in 1 .. Len(z) : r[Len(xy) + i] = z[i]
  BY <1>3, Concatenated
<1> HIDE DEF l, r
<1> DEFINE N == Len(x) + Len(y) + Len(z)
<1>6. Len(l) = N /\ Len(r) = N
  BY <1>1, <1>2, <1>3, <1>4, <1>5
<1>7. ASSUME NEW i \in 1 .. N PROVE l[i] = r[i]
  <2>1. CASE i <= Len(x)
    <3>1. i \in 1 .. Len(x) /\ i \in 1 .. Len(xy)
      BY <1>1, <1>3, <2>1
    <3>2. QED
      BY <1>3, <1>4, <1>5, <3>1
  <2>2. CASE i > Len(x) /\ i <= Len(x) + Len(y)
    <3>1. PICK j : j = i - Len(x)
      OBVIOUS
    <3>2. j \in 1 .. Len(y) /\ j \in 1 .. Len(yz) /\ i \in 1 .. Len(xy) /\ i = Len(x) + j
      BY <1>1, <1>2, <1>3, <2>2, <3>1
    <3>3. l[i] = yz[j] /\ yz[j] = y[j] /\ r[i] = xy[i] /\ xy[i] = y[j]
      BY <1>2, <1>3, <1>4, <1>5, <3>2
    <3>4. QED
      BY <3>3
  <2>3. CASE i > Len(x) + Len(y)
    <3>1. PICK j : j = i - Len(x) - Len(y)
      OBVIOUS
    <3>2. j \in 1 .. Len(z) /\ Len(y) + j \in 1 .. Len(yz) /\ i = Len(x) + (Len(y) + j) /\ i = Len(xy) + j
      BY <1>1, <1>2, <1>3, <2>3, <3>1
    <3>3. l[i] = yz[Len(y) + j] /\ yz[Len(y) + j] = z[j] /\ r[i] = z[j]
      BY <1>2, <1>4, <1>5, <3>2
    <3>4. QED
      BY <3>3
  <2>4. QED
    BY <1>1, <2>1, <2>2, <2>3
<1>10. l = [i \in 1 .. N |-> l[i]] /\ r = [i \in 1 .. N |-> r[i]]
  BY <1>4, <1>5, <1>6, SeqFacts
<1>8. l = r
  BY <1>7, <1>10
<1>9. QED
  BY <1>8 DEF l, r, xy, yz

LEMMA TopOnly ==
  ASSUME NEW s, NEW v, NEW n, Good(s, v, n)
  PROVE  /\ Machine(s) /\ SafeHeap(s.heap) /\ SafeConts(HeapConts(s)) /\ n \in Nat
         /\ Top(s) \in Nat /\ Top(s) - n >= 5 /\ bottom = 5 /\ n <= Top(s) /\ ArgsIn(s.stack, Top(s), n)
         /\ v \in Int
<1>1. /\ Machine(s) /\ SafeHeap(s.heap) /\ SafeConts(HeapConts(s)) /\ ArgsIn(s.stack, Top(s), n) /\ v \in Int
  BY DEF Good
<1>2. Top(s) \in Nat /\ bottom = 5
  BY <1>1, TopNat, Sizes
<1>3. n \in Nat /\ Top(s) - n >= 5
  BY <1>1, <1>2 DEF ArgsIn
<1>4. QED
  BY <1>1, <1>2, <1>3

\* What stays when the register for environments may not.
SameAccount(s, r) == r.used = s.used /\ r.room = s.room /\ r.overrun = s.overrun

LEMMA Reset ==
  ASSUME NEW s, NEW v, NEW n, Good(s, v, n), NEW k, SafeConts(k), NEW r, r = reset_stack_pointer(s, k),
         NEW e \in Int, e <= 0
  PROVE  /\ Good(r, e, 0) /\ HeapConts(r) = k /\ Top(r) = 5 /\ r.cont = 5 /\ SameAccount(s, r)
<1>1. /\ Machine(s) /\ SafeHeap(s.heap) /\ Top(s) \in Nat /\ Top(s) >= 5 /\ bottom = 5
  BY TopOnly
<1>2. PICK K, E : Sound(s, K, E)
  BY DEF Good
<1> DEFINE p == [s EXCEPT !.stack = SubSeq(@, 1, bottom), !.cont = bottom]
<1>3. /\ IsSeq(SubSeq(s.stack, 1, 5)) /\ Len(SubSeq(s.stack, 1, 5)) = 5
      /\ \A i \in 1 .. 5 : SubSeq(s.stack, 1, 5)[i] = s.stack[i]
  <2>1. IsSeq(s.stack) /\ 5 \in Nat /\ 5 <= Len(s.stack)
    BY <1>1, TopNat DEF Machine
  <2>2. QED
    BY <2>1, Prefix
<1>4. /\ p.stack = SubSeq(s.stack, 1, 5) /\ p.cont = 5 /\ p.env = s.env /\ p.heap = s.heap
      /\ p.used = s.used /\ p.room = s.room /\ p.overrun = s.overrun
  BY <1>1 DEF Machine
<1>5. p \in [stack : {p.stack}, env : {p.env}, cont : {p.cont}, heap : {p.heap},
             used : {p.used}, room : {p.room}, overrun : {p.overrun}]
  BY <1>1 DEF Machine
<1>6. r = SetHeapConts(p, k)
  BY DEF reset_stack_pointer
<1> HIDE DEF p
<1>7. Machine(p) /\ Top(p) = 5 /\ \A i \in 1 .. 5 : p.stack[i] = s.stack[i]
  BY <1>1, <1>3, <1>4, <1>5 DEF Machine, Top
<1>8. /\ Machine(r) /\ SameRegisters(p, r) /\ r.heap = p.heap /\ Top(r) = Top(p) /\ HeapConts(r) = k
      /\ \A i \in 1 .. Top(p) : i # bottom - 1 => r.stack[i] = p.stack[i]
  <2>1. Top(p) >= bottom
    BY <1>1, <1>7
  <2>2. Machine(r) /\ SameRegisters(p, r) /\ r.heap = p.heap /\ Top(r) = Top(p) /\ HeapConts(r) = k
    BY <1>6, <1>7, <2>1, HeapContsSet
  <2>3. \A i \in 1 .. Top(p) : i # bottom - 1 => r.stack[i] = p.stack[i]
    BY <1>6, <1>7, <2>1, HeapContsSet
  <2>4. QED
    BY <2>2, <2>3
<1>9. Stays(s, r, 5)
  BY <1>7, <1>8 DEF Stays
<1>10. PICK K2, E2 : K2 = {bottom} /\ E2 = {}
  OBVIOUS
<1>11. LowerPart(K, E, K2, E2, 5, r.cont)
  <2>1. bottom \in K /\ r.cont = 5 /\ \A d \in K : d \in Nat /\ d >= 5
    BY <1>1, <1>2, <1>4, <1>8, Numbers DEF Sound, Conts, SameRegisters
  <2>2. \A d \in E : d \in Nat /\ d > 5
    BY <1>1, <1>2, Numbers
  <2>3. K2 \in SUBSET K /\ E2 \in SUBSET E /\ bottom \in K2 /\ r.cont \in K2 /\ \A d \in K2 : d <= r.cont
    BY <1>1, <1>10, <2>1
  <2>4. \A x \in K2 \cup E2 : x = 5
    BY <1>1, <1>10
  <2>5. QED
    BY <2>1, <2>2, <2>3, <2>4 DEF LowerPart
<1>12. Sound(r, K2, E2)
  <2>1. 5 \in Nat /\ 5 >= bottom /\ 5 <= Top(s) /\ 5 <= Top(r)
    BY <1>1, <1>7, <1>8
  <2>2. QED
    BY <1>1, <1>2, <1>8, <1>9, <1>11, <2>1, KeptPart
<1>13. Refers(r, K2, E2, Top(r) + 1, e)
  BY DEF Refers
<1>14. ArgsIn(r.stack, Top(r), 0)
  <2>1. IsHeader(r.stack[5]) /\ r.stack[5].header = "continuation"
    BY <1>1, <1>10, <1>12 DEF Sound, Conts
  <2>2. Begins(r.stack, 5)
    BY <2>1 DEF Begins, argument_limit_marker
  <2>3. Top(r) = 5 /\ 5 - 0 = 5 /\ 6 .. 5 = {} /\ 5 + 1 = 6
    BY <1>7, <1>8
  <2>4. QED
    BY <1>1, <2>2, <2>3 DEF ArgsIn
<1>15. r.heap = s.heap /\ Top(r) = 5 /\ r.cont = 5 /\ SameAccount(s, r)
  BY <1>4, <1>7, <1>8 DEF SameRegisters, SameAccount
<1>16. QED
  BY <1>1, <1>8, <1>12, <1>13, <1>14, <1>15 DEF Good

LEMMA FirstCont ==
  ASSUME NEW k, SafeConts(k), k # <<>>
  PROVE  SafeConts(Tail(k)) /\ HeapFrame(Head(k))
<1>1. IsSeq(k) /\ \A i \in 1 .. Len(k) : HeapFrame(k[i])
  BY DEF SafeConts
<1>2. /\ Len(k) >= 1 /\ Head(k) = k[1] /\ IsSeq(Tail(k)) /\ Len(Tail(k)) = Len(k) - 1
      /\ \A i \in 1 .. Len(k) - 1 : Tail(k)[i] = k[i + 1]
  BY <1>1, Rest
<1>3. Len(k) \in Nat
  BY <1>1, SeqFacts
<1>4. \A i \in 1 .. Len(k) - 1 : i + 1 \in 1 .. Len(k)
  BY <1>3
<1>5. QED
  BY <1>1, <1>2, <1>3, <1>4 DEF SafeConts

LEMMA Fetched ==
  ASSUME NEW s, NEW v, NEW n, Good(s, v, n), s.overrun = FALSE, NEW k, SafeConts(k), k # <<>>,
         NEW r, r = copy_continuation_from_heap(s, k)
  PROVE  /\ Good(r, Head(k).env, 0) /\ HeapConts(r) = Tail(k)
         /\ r.cont = Top(r) /\ Top(r) > 5 /\ Top(r) <= Limit + 9
         /\ r.overrun = FALSE /\ r.stack[Top(r) - 3].template = Head(k).template
<1> DEFINE c == Head(k)
           q == reset_stack_pointer(s, Tail(k))
           args == c.args
           base == q.stack
           N == Len(args)
           cells == ContinuationCells(c.env, c.template, c.pc, bottom, N)
           both == args \o cells
           a == push_all(q, args)
           b == push_all(q, both)
<1>1. SafeConts(Tail(k)) /\ HeapFrame(c)
  BY FirstCont
<1>2. c.env \in Int /\ c.env <= 0 /\ Frame(args, c.template, c.pc, 5)
  BY <1>1, Sizes DEF HeapFrame, within_stack
<1> HIDE DEF c
<1>3. /\ Good(q, c.env, 0) /\ HeapConts(q) = Tail(k) /\ Top(q) = 5 /\ q.cont = 5 /\ SameAccount(s, q)
  BY <1>1, <1>2, Reset
<1>4. /\ IsSeq(args) /\ \A i \in 1 .. Len(args) : ~IsHeader(args[i])
  BY <1>2 DEF Frame
<1>23. IsSeq(args)
  BY <1>4
<1>5. N \in Nat
  BY <1>4, SeqFacts
<1>6. r = [b EXCEPT !.cont = bottom + N + continuation_stack_size]
  BY DEF copy_continuation_from_heap, c, ContinuationCells
<1> HIDE DEF q
<1>7. IsSeq(cells) /\ Len(cells) = 5 /\ cells[2].template = c.template
  BY FiveCells
<1>24. IsSeq(cells)
  BY <1>7
<1> HIDE DEF cells, args, base
<1>8. /\ Good(a, c.env, 0 + N) /\ SameBut(q, a) /\ HeapConts(a) = HeapConts(q)
      /\ a.stack = base \o args /\ Top(a) = Top(q) + N
  <2> HIDE DEF a
  <2>1. a = push_all(q, args)
    BY DEF a
  <2>4. Good(q, c.env, 0)
    BY <1>3
  <2>2. /\ Good(a, c.env, 0 + N) /\ SameBut(q, a) /\ HeapConts(a) = HeapConts(q)
        /\ a.stack = q.stack \o args /\ Top(a) = Top(q) + N
    BY <1>4, <1>23, <2>1, <2>4, GoodPush
  <2>3. QED
    BY <2>2 DEF base
<1> HIDE DEF a
<1>9. IsSeq(both) /\ Len(both) = N + 5
  <2>1. IsSeq(both) /\ Len(both) = Len(args) + Len(cells)
    BY <1>23, <1>24, Concatenated
  <2>2. QED
    BY <1>7, <2>1
<1> HIDE DEF both
<1>25. IsSeq(base)
  BY <1>3 DEF Good, Machine, base
<1>10. Machine(q) /\ Machine(a) /\ IsSeq(base)
  BY <1>3, <1>8 DEF Good, Machine, base
<1>11. /\ Machine(b) /\ SameBut(q, b) /\ b.stack = base \o both
       /\ Top(b) = Top(q) + (N + 5)
       /\ b.overrun = (q.overrun \/ Top(q) + (N + 5) > LastCell)
  <2> HIDE DEF b
  <2>1. b = push_all(q, both)
    BY DEF b
  <2>2. /\ Machine(b) /\ SameBut(q, b) /\ b.stack = q.stack \o both
        /\ Top(b) = Top(q) + Len(both)
        /\ b.overrun = (q.overrun \/ Top(q) + Len(both) > StackCells - WarningLimit - 2)
    BY <1>9, <1>10, <2>1, PushedAll
  <2>3. QED
    BY <1>9, <2>2 DEF base, LastCell
<1> HIDE DEF b
<1>12. /\ Machine(r) /\ r.stack = b.stack /\ r.cont = bottom + N + continuation_stack_size /\ r.heap = b.heap
       /\ r.overrun = b.overrun
  BY <1>6, <1>11 DEF Machine
<1>13. /\ r.cont = N + 10 /\ Top(r) = N + 10 /\ Top(a) = N + 5 /\ 0 + N = N /\ Top(a) - N = 5
       /\ r.cont = Top(a) + 5
  <2>1. bottom = 5 /\ continuation_stack_size = 5
    BY Sizes DEF continuation_stack_size
  <2>2. Top(r) = Top(b)
    BY <1>12 DEF Top
  <2>3. QED
    BY <1>3, <1>5, <1>8, <1>11, <1>12, <2>1, <2>2
<1>14. r.stack = a.stack \o cells
  <2>1. base \o (args \o cells) = (base \o args) \o cells
    BY <1>23, <1>24, <1>25, Associated
  <2>2. QED
    BY <1>8, <1>11, <1>12, <2>1 DEF both
<1>15. AddsCont(a, r, c.env, N, c.template, c.pc)
  <2>1. a.cont = bottom
    BY <1>3, <1>8, Sizes DEF SameBut
  <2>2. Pushes(a, r, ContinuationCells(c.env, c.template, c.pc, a.cont, N))
    BY <1>14, <2>1 DEF Pushes, cells
  <2>3. r.heap = a.heap
    BY <1>8, <1>11, <1>12 DEF SameBut
  <2>4. QED
    BY <1>12, <1>13, <2>2, <2>3 DEF AddsCont
<1>16. TopArgs(a, N) = args
  <2>1. Top(q) \in Nat /\ Top(q) = Len(base) /\ N <= Top(a)
    BY <1>5, <1>10, <1>13, TopNat DEF base
  <2>2. /\ IsSeq(TopArgs(a, N)) /\ Len(TopArgs(a, N)) = N
        /\ \A i \in 1 .. N : TopArgs(a, N)[i] = a.stack[Top(a) - N + i]
    BY <1>5, <1>10, <2>1, TopArgsAre
  <2>3. \A i \in 1 .. N : (base \o args)[Len(base) + i] = args[i]
    BY <1>4, <1>10, Concatenated
  <2>4. \A i \in 1 .. N : TopArgs(a, N)[i] = args[i]
    <3>1. Top(a) - N = Len(base)
      BY <1>3, <1>13, <2>1
    <3>2. QED
      BY <1>8, <2>2, <2>3, <3>1
  <2>5. TopArgs(a, N) = [i \in 1 .. N |-> TopArgs(a, N)[i]] /\ args = [i \in 1 .. N |-> args[i]]
    BY <1>4, <2>2, SeqFacts
  <2>6. QED
    BY <2>4, <2>5
<1>17. Good(a, c.env, N)
  BY <1>8, <1>13
<1>18. Good(r, c.env, 0) /\ HeapConts(r) = HeapConts(a)
  <2>1. Frame(TopArgs(a, N), c.template, c.pc, Top(a) - N)
    BY <1>2, <1>13, <1>16
  <2>2. QED
    BY <1>15, <1>17, <2>1, AddCont
<1>19. N <= Limit - 1
  <2>1. /\ Extra(c.template) \in {0, 4}
        /\ \E x, y : Affordable(x, y, 5 + N - Extra(c.template))
    BY <1>2 DEF Frame, Extra
  <2>2. 5 + N - Extra(c.template) <= Limit
    BY <1>5, <2>1, Sizes DEF Affordable
  <2>3. QED
    BY <1>5, <2>1, <2>2, Sizes
<1>20. r.overrun = FALSE /\ Top(r) <= Limit + 9 /\ Top(r) > 5
  <2>1. q.overrun = FALSE
    BY <1>3 DEF SameAccount
  <2>2. Top(q) + (N + 5) <= LastCell /\ Top(r) <= Limit + 9 /\ Top(r) > 5
    BY <1>3, <1>5, <1>13, <1>19, Sizes
  <2>3. Top(q) + (N + 5) \in Int /\ LastCell \in Int
    BY <1>3, <1>5, Sizes
  <2>4. ~(Top(q) + (N + 5) > LastCell)
    BY <2>2, <2>3
  <2>5. r.overrun = (FALSE \/ Top(q) + (N + 5) > LastCell)
    BY <1>11, <1>12, <2>1
  <2>6. QED
    BY <2>2, <2>4, <2>5
<1>21. r.stack[Top(r) - 3].template = c.template
  <2>1. Pushes(a, r, cells)
    BY <1>14 DEF Pushes
  <2>2. Extends(a, r, cells)
    BY <1>7, <1>10, <1>12, <2>1, Pushed
  <2>3. r.stack[Top(a) + 2] = cells[2] /\ Top(a) + 2 = Top(r) - 3
    BY <1>5, <1>7, <1>13, <2>2 DEF Extends
  <2>4. QED
    BY <1>7, <2>3
<1>22. QED
  BY <1>3, <1>8, <1>13, <1>18, <1>20, <1>21 DEF c

-----------------------------------------------------------------------------
(* Returning.                                                              *)

Ready(s, n) == Good(s, s.env, n) /\ Running(s, n)

\* The machine that a continuation comes back to.
Restored(r, n, t, pc) ==
  /\ Good(r, r.env, n) /\ Frame(TopArgs(r, n), t, pc, Top(r) - n)
  /\ r.used = pc[1] /\ r.room = pc[2]

LEMMA Popped ==
  ASSUME NEW s, NEW v, NEW n, Good(s, v, n), s.cont # bottom, NEW r, r = pop_continuation(s)
  PROVE  /\ r.overrun = s.overrun /\ HeapConts(r) = HeapConts(s)
         /\ \E k, pc : Restored(r, k, s.stack[s.cont - 3].template, pc)
<1>1. /\ Machine(s) /\ SafeHeap(s.heap) /\ SafeConts(HeapConts(s)) /\ Top(s) \in Nat /\ bottom = 5
  BY TopOnly
<1>2. PICK K, E : Sound(s, K, E)
  BY DEF Good
<1>3. PICK c : c = s.cont
  OBVIOUS
<1>4. PICK k : k = s.stack[c].size
  OBVIOUS
<1>5. PICK p : p = c - 5
  OBVIOUS
<1>6. c \in K /\ c # bottom /\ \A d \in K : d <= c
  BY <1>2, <1>3 DEF Sound, Conts
<1>7. /\ K \subseteq Nat /\ E \subseteq Nat
      /\ c \in Nat /\ k \in Nat /\ c <= Top(s) /\ c > 5 /\ ContLow(s, c) > 5
      /\ ContLow(s, c) = c - 4 - k /\ p \in Nat /\ p <= Top(s) /\ p >= 5
      /\ \A e \in E : e \in Nat /\ e > 5
      /\ \A d \in K : d \in Nat /\ d >= 5
  <2>1. /\ K \subseteq Nat /\ E \subseteq Nat /\ c \in Nat /\ k \in Nat /\ c <= Top(s) /\ c > 5 /\ ContLow(s, c) > 5
        /\ \A e \in E : e > 5
        /\ \A d \in K : d >= 5
    BY <1>1, <1>2, <1>4, <1>6, Numbers
  <2>2. ContLow(s, c) = c - 4 - k
    BY <1>4 DEF ContLow
  <2>3. QED
    BY <1>1, <1>5, <2>1, <2>2
<1>8. /\ ContOf(s, c) \in K /\ ContOf(s, c) < ContLow(s, c)
      /\ \A d \in K : d < c => d <= ContOf(s, c)
      /\ Frame(ArgsOf(s, c), s.stack[c - 3].template, s.stack[c - 2].pc, ContLow(s, c) - 1)
      /\ ArgsIn(s.stack, p, k)
  BY <1>2, <1>4, <1>5, <1>6 DEF Sound, Conts, Continuation
<1>9. r = [s EXCEPT !.env = EnvOf(s, c), !.cont = ContOf(s, c), !.stack = SubSeq(@, 1, p),
                    !.used = s.stack[c - 2].pc[1], !.room = s.stack[c - 2].pc[2]]
  BY <1>3, <1>5 DEF pop_continuation
<1>10. /\ r.stack = SubSeq(s.stack, 1, p) /\ r.env = EnvOf(s, c) /\ r.cont = ContOf(s, c) /\ r.heap = s.heap
       /\ r.used = s.stack[c - 2].pc[1] /\ r.room = s.stack[c - 2].pc[2] /\ r.overrun = s.overrun
  BY <1>1, <1>9 DEF Machine
<1>11. r \in [stack : {r.stack}, env : {r.env}, cont : {r.cont}, heap : {r.heap},
              used : {r.used}, room : {r.room}, overrun : {r.overrun}]
  BY <1>1, <1>9 DEF Machine
<1>12. /\ IsSeq(SubSeq(s.stack, 1, p)) /\ Len(SubSeq(s.stack, 1, p)) = p
       /\ \A i \in 1 .. p : SubSeq(s.stack, 1, p)[i] = s.stack[i]
  <2>1. IsSeq(s.stack) /\ p <= Len(s.stack)
    BY <1>1, <1>7, TopNat DEF Machine
  <2>2. QED
    BY <1>7, <2>1, Prefix
<1>13. Machine(r) /\ Top(r) = p /\ \A i \in 1 .. p : r.stack[i] = s.stack[i]
  BY <1>1, <1>10, <1>11, <1>12 DEF Machine, Top
<1>14. HeapConts(r) = HeapConts(s)
  BY <1>1, <1>7, <1>13 DEF HeapConts
<1>15. PICK K2, E2 : K2 = K \ {c} /\ E2 = {e \in E : e < c}
  OBVIOUS
<1>16. \A x \in K2 \cup E2 : x \in Nat /\ x < c /\ x <= p
  <2>1. \A x \in K2 \cup E2 : x < c /\ x \in K \cup E /\ x \in Nat
    BY <1>6, <1>7, <1>15
  <2>2. \A x \in K \cup E : x < c => x < ContLow(s, c)
    BY <1>2, <1>6 DEF Sound, Apart
  <2>3. QED
    BY <1>5, <1>7, <2>1, <2>2
<1>17. LowerPart(K, E, K2, E2, p, r.cont)
  <2>1. bottom \in K2
    BY <1>1, <1>2, <1>6, <1>15 DEF Sound, Conts
  <2>2. r.cont \in K2 /\ \A d \in K2 : d <= r.cont
    BY <1>7, <1>8, <1>10, <1>15, <1>16
  <2>3. \A d \in K : \A x \in K2 : d < x => d \in K2
    BY <1>7, <1>15, <1>16
  <2>4. \A e \in E : \A x \in K2 \cup E2 : e < x => e \in E2
    BY <1>7, <1>15, <1>16
  <2>5. K2 \in SUBSET K /\ E2 \in SUBSET E
    BY <1>15
  <2>6. QED
    BY <1>16, <2>1, <2>2, <2>3, <2>4, <2>5 DEF LowerPart
<1>18. Sound(r, K2, E2) /\ SameEnvs(s, r, K2)
  <2>1. p \in Nat /\ p >= bottom /\ p <= Top(s) /\ p <= Top(r) /\ Stays(s, r, p)
    BY <1>1, <1>7, <1>13 DEF Stays
  <2>2. QED
    BY <1>1, <1>2, <1>13, <1>17, <2>1, KeptPart
<1>19. Refers(r, K2, E2, Top(r) + 1, r.env)
  <2>1. PICK x : x = EnvOf(s, c)
    OBVIOUS
  <2>2. SUFFICES ASSUME x > 0 PROVE Refers(r, K2, E2, Top(r) + 1, x)
    BY <1>10, <2>1 DEF Refers
  <2>3. Refers(s, K, E, c, x)
    BY <1>2, <1>6, <2>1 DEF Sound, References
  <2>4. /\ x \in E /\ x < c
        /\ \A e \in E : e < c => e <= x
        /\ \A d \in K : x < d /\ d < c => EnvOf(s, d) = x
    BY <2>2, <2>3 DEF Refers
  <2>5. x \in E2 /\ x < Top(r) + 1
    BY <1>7, <1>13, <1>15, <1>16, <2>4
  <2>6. \A d \in K2 : d \in K /\ d < c /\ EnvOf(r, d) = EnvOf(s, d)
    BY <1>15, <1>16, <1>18 DEF SameEnvs
  <2>7. \A e \in E2 : e \in E /\ e < c
    BY <1>15
  <2>8. QED
    BY <2>4, <2>5, <2>6, <2>7 DEF Refers
<1>20. ArgsIn(r.stack, Top(r), k)
  <2>1. IsHeader(s.stack[bottom])
    BY <1>2 DEF Sound, Conts
  <2>2. \A i \in 1 .. p : i # bottom - 1 => r.stack[i] = s.stack[i]
    BY <1>13
  <2>3. ArgsIn(r.stack, p, k)
    BY <1>7, <1>8, <2>1, <2>2, ArgsStay
  <2>4. QED
    BY <1>13, <2>3
<1>21. r.env \in Int
  BY <1>2, <1>6, <1>10 DEF Sound, Conts
<1>22. Good(r, r.env, k)
  BY <1>1, <1>10, <1>13, <1>14, <1>18, <1>19, <1>20, <1>21 DEF Good
<1>23. TopArgs(r, k) = ArgsOf(s, c)
  <2>1. PICK a : a = c - 4 - k
    OBVIOUS
  <2>2. ArgsOf(s, c) = SubSeq(s.stack, a, p)
    BY <1>4, <1>5, <2>1 DEF ArgsOf
  <2>3. a \in Int /\ p \in Int /\ a >= 1 /\ a <= p + 1 /\ p - a + 1 = k /\ p - k + 1 = a
        /\ \A i \in 1 .. k : i + a - 1 = p - k + i /\ i + a - 1 \in 1 .. p
    BY <1>5, <1>7, <2>1
  <2>4. IsSeq(s.stack) /\ p <= Len(s.stack)
    BY <1>1, <1>7, TopNat DEF Machine
  <2>5. /\ IsSeq(SubSeq(s.stack, a, p)) /\ Len(SubSeq(s.stack, a, p)) = p - a + 1
        /\ \A i \in 1 .. p - a + 1 : SubSeq(s.stack, a, p)[i] = s.stack[i + a - 1]
    BY <2>3, <2>4, Part
  <2>6. k <= Top(r)
    BY <1>5, <1>7, <1>13
  <2>7. /\ IsSeq(TopArgs(r, k)) /\ Len(TopArgs(r, k)) = k
        /\ \A i \in 1 .. k : TopArgs(r, k)[i] = r.stack[Top(r) - k + i]
    BY <1>7, <1>13, <2>6, TopArgsAre
  <2>11. \A i \in 1 .. k : SubSeq(s.stack, a, p)[i] = s.stack[p - k + i] /\ p - k + i \in 1 .. p
    BY <2>3, <2>5
  <2>12. \A i \in 1 .. k : TopArgs(r, k)[i] = r.stack[p - k + i]
    BY <1>13, <2>7
  <2>8. \A i \in 1 .. k : TopArgs(r, k)[i] = SubSeq(s.stack, a, p)[i]
    BY <1>13, <2>11, <2>12
  <2>9. PICK x, y : x = TopArgs(r, k) /\ y = SubSeq(s.stack, a, p)
    OBVIOUS
  <2>10. IsSeq(x) /\ IsSeq(y) /\ Len(x) = k /\ Len(y) = k /\ \A i \in 1 .. k : x[i] = y[i]
    BY <2>3, <2>5, <2>7, <2>8, <2>9
  <2>13. x = y
    BY <2>10, SameSeq
  <2>14. QED
    BY <2>2, <2>9, <2>13
<1>24. PICK pc : pc = s.stack[c - 2].pc
  OBVIOUS
<1>25. Top(r) - k = ContLow(s, c) - 1
  BY <1>5, <1>7, <1>13
<1>26. Restored(r, k, s.stack[c - 3].template, pc)
  BY <1>8, <1>10, <1>22, <1>23, <1>24, <1>25 DEF Restored
<1>27. QED
  BY <1>3, <1>10, <1>14, <1>26

LEMMA ResumedRuns ==
  ASSUME NEW q, NEW k, NEW t, NEW pc, Restored(q, k, t, pc), q.overrun = FALSE, NEW r, r = Resumed(q, t)
  PROVE  /\ Ready(r, k - Extra(t)) /\ HeapConts(r) = HeapConts(q)
         /\ t = "consumer" => k - Extra(t) = 1 /\ r.stack[Top(r)].proc \in Procs
<1> DEFINE args == TopArgs(q, k)
           T == Top(q)
           four == remove_stack_arguments(q, 4)
<1>1. /\ Machine(q) /\ k \in Nat /\ T \in Nat /\ k <= T /\ T - k >= 5
  BY TopOnly DEF Restored
<1>2. /\ Good(q, q.env, k) /\ Frame(args, t, pc, T - k) /\ q.used = pc[1] /\ q.room = pc[2]
  BY DEF Restored
<1>3. IsSeq(args) /\ Len(args) = k /\ \A i \in 1 .. k : args[i] = q.stack[T - k + i]
  BY <1>1, TopArgsAre
<1> HIDE DEF args
<1> DEFINE account == Account(args, t, pc)
<1>4. /\ k >= Extra(t) /\ Few(args, k - Extra(t))
      /\ t = "consumer" => k = 1 /\ args[1].proc \in Procs
      /\ Affordable(account[1], account[2], T - k + k - Extra(t))
  BY <1>2, <1>3 DEF Frame
<1>5. CASE t \in {"exception", "interrupt"}
  <2>1. Extra(t) = 4 /\ k >= 4 /\ t # "consumer"
    BY <1>4, <1>5 DEF Extra
  <2>2. PICK at : at = T - (IF t = "exception" THEN 0 ELSE 1)
    OBVIOUS
  <2>3. account = q.stack[at].pc
    <3>1. CASE t = "exception"
      <4>1. at = T /\ T - k + k = T /\ k \in 1 .. k
        BY <1>1, <2>1, <2>2, <3>1
      <4>2. QED
        BY <1>3, <3>1, <4>1 DEF Account
    <3>2. CASE t = "interrupt"
      <4>1. at = T - 1 /\ T - k + (k - 1) = T - 1 /\ k - 1 \in 1 .. k
        BY <1>1, <2>1, <2>2, <3>2
      <4>2. QED
        BY <1>3, <3>2, <4>1 DEF Account
    <3>3. QED
      BY <1>5, <3>1, <3>2
  <2>4. r = [four EXCEPT !.used = q.stack[at].pc[1], !.room = q.stack[at].pc[2]]
    BY <1>5, <2>2 DEF Resumed
  <2>5. /\ Good(four, q.env, k - 4) /\ SameBut(q, four) /\ HeapConts(four) = HeapConts(q)
        /\ Top(four) = T - 4 /\ four.overrun = q.overrun
        /\ \A i \in 1 .. T - 4 : four.stack[i] = q.stack[i]
    <3> HIDE DEF four
    <3>1. 4 \in 0 .. k /\ four = remove_stack_arguments(q, 4)
      BY <1>1, <2>1 DEF four
    <3>2. QED
      BY <1>2, <3>1, GoodRemove
  <2> HIDE DEF four
  <2>6. Machine(four)
    BY <2>5 DEF Good
  <2>7. /\ Machine(r) /\ r.stack = four.stack /\ r.env = four.env /\ r.cont = four.cont /\ r.heap = four.heap
        /\ r.used = account[1] /\ r.room = account[2] /\ r.overrun = four.overrun
    BY <2>3, <2>4, <2>6 DEF Machine
  <2>8. Good(r, r.env, k - 4)
    <3>1. r.env = q.env /\ q.env \in Int
      BY <2>5, <2>7 DEF SameBut, Good
    <3>2. QED
      BY <2>5, <2>7, <3>1, GoodSame
  <2>9. Top(r) = T - 4 /\ HeapConts(r) = HeapConts(q)
    BY <2>5, <2>7 DEF Top, HeapConts
  <2>10. Affordable(r.used, r.room, Top(r))
    <3>1. T - k + k - 4 = T - 4
      BY <1>1
    <3>2. QED
      BY <1>4, <2>1, <2>7, <2>9, <3>1
  <2>11. Few(TopArgs(r, k - 4), k - 4)
    <3>1. k - 4 \in Nat /\ k - 4 <= Top(r) /\ Machine(r)
      BY <1>1, <2>1, <2>7, <2>9
    <3>2. \A i \in 1 .. k - 4 : TopArgs(r, k - 4)[i] = r.stack[Top(r) - (k - 4) + i]
      BY <3>1, TopArgsAre
    <3>3. \A i \in 1 .. k - 4 : /\ Top(r) - (k - 4) + i = T - k + i /\ T - k + i \in 1 .. T - 4
                                /\ i \in 1 .. k
      BY <1>1, <2>1, <2>9
    <3>4. \A i \in 1 .. k - 4 : TopArgs(r, k - 4)[i] = args[i]
      BY <1>3, <2>5, <2>7, <3>2, <3>3
    <3>5. Few(args, k - 4)
      BY <1>4, <2>1
    <3>6. QED
      BY <3>4, <3>5 DEF Few
  <2>12. QED
    BY <2>1, <2>5, <2>7, <2>8, <2>9, <2>10, <2>11 DEF Ready, Running
<1>6. CASE t \notin {"exception", "interrupt"}
  <2>1. r = q /\ Extra(t) = 0 /\ account = pc /\ k - 0 = k /\ T - k + k - 0 = T
    BY <1>1, <1>6 DEF Resumed, Extra, Account
  <2>2. Ready(r, k)
    BY <1>2, <1>4, <2>1 DEF Ready, Running, args
  <2>3. ASSUME t = "consumer" PROVE r.stack[Top(r)].proc \in Procs
    <3>1. k = 1 /\ 1 \in 1 .. k /\ T - k + 1 = T /\ args[1].proc \in Procs
      BY <1>1, <1>4, <2>3
    <3>2. QED
      BY <1>3, <2>1, <3>1
  <2>4. QED
    BY <1>4, <2>1, <2>2, <2>3
<1>7. QED
  BY <1>5, <1>6

LEMMA Returns ==
  ASSUME NEW s, NEW v, NEW n, Good(s, v, n), s.overrun = FALSE, HasCont(s), NEW r, r = Returned(s)
  PROVE  \E k : /\ Ready(r, k)
                /\ CurrentTemplate(s) = "consumer" => k = 1 /\ r.stack[Top(r)].proc \in Procs
<1>1. SafeConts(HeapConts(s)) /\ bottom = 5
  BY TopOnly
<1> DEFINE q == TakeCont(s)
           t == q.stack[q.cont - 3].template
           p == pop_continuation(q)
<1>2. r = Resumed(p, t)
  BY DEF Returned
<1>3. \E w, k : Good(q, w, k) /\ q.overrun = FALSE /\ q.cont # bottom /\ t = CurrentTemplate(s)
  <2>1. CASE s.cont = bottom
    <3>1. HeapConts(s) # <<>> /\ q = copy_continuation_from_heap(s, HeapConts(s))
      BY <2>1 DEF HasCont, TakeCont, set_current_continuation
    <3> DEFINE h == HeapConts(s)
    <3> HIDE DEF q, h
    <3>2. SafeConts(h) /\ h # <<>> /\ q = copy_continuation_from_heap(s, h)
      BY <1>1, <3>1 DEF h
    <3>3. /\ Good(q, Head(h).env, 0) /\ q.cont = Top(q) /\ Top(q) > 5
          /\ q.overrun = FALSE /\ q.stack[Top(q) - 3].template = Head(h).template
      BY <3>2, Fetched
    <3>4. q.cont # bottom
      BY <1>1, <3>3, TopOnly
    <3>5. t = CurrentTemplate(s)
      BY <2>1, <3>1, <3>3 DEF CurrentTemplate, HasCont, h
    <3>6. QED
      BY <3>3, <3>4, <3>5
  <2>2. CASE s.cont # bottom
    <3>1. q = s /\ t = CurrentTemplate(s)
      BY <2>2 DEF TakeCont, CurrentTemplate, HasCont
    <3>2. QED
      BY <2>2, <3>1
  <2>3. QED
    BY <2>1, <2>2
<1> HIDE DEF q
<1>4. PICK k, pc : p.overrun = FALSE /\ Restored(p, k, t, pc)
  BY <1>3, Popped
<1> HIDE DEF p, t
<1>5. Ready(r, k - Extra(t)) /\ (t = "consumer" => k - Extra(t) = 1 /\ r.stack[Top(r)].proc \in Procs)
  BY <1>2, <1>4, ResumedRuns
<1>6. QED
  BY <1>3, <1>5

LEMMA Skipped ==
  ASSUME NEW s, NEW n, Good(s, s.env, n), HasCont(s), NEW r, r = skip_current_continuation(s)
  PROVE  Good(r, r.env, n) /\ Top(r) = Top(s) /\ SameAccount(s, r)
<1>1. /\ Machine(s) /\ SafeHeap(s.heap) /\ SafeConts(HeapConts(s)) /\ Top(s) \in Nat /\ Top(s) >= 5
      /\ bottom = 5 /\ n \in Nat /\ ArgsIn(s.stack, Top(s), n) /\ s.env \in Int
  BY TopOnly
<1>2. PICK K, E : Sound(s, K, E) /\ Refers(s, K, E, Top(s) + 1, s.env)
  BY DEF Good
<1>3. /\ \A x \in K \cup E : x \in Nat /\ x <= Top(s)
      /\ \A c \in K : c \in Nat /\ c >= 5
  BY <1>1, <1>2, Numbers
<1>4. CASE s.cont = bottom
  <2> DEFINE h == HeapConts(s)
  <2>1. h # <<>> /\ r = SetHeapConts(s, Tail(h))
    BY <1>4 DEF HasCont, skip_current_continuation
  <2>2. SafeConts(Tail(h))
    BY <1>1, <2>1, FirstCont
  <2> HIDE DEF h
  <2>3. Top(s) >= bottom
    BY <1>1
  <2> PICK k : k = Tail(h)
    OBVIOUS
  <2>12. r = SetHeapConts(s, k)
    BY <2>1
  <2>4. Machine(r) /\ SameRegisters(s, r) /\ r.heap = s.heap /\ Top(r) = Top(s) /\ HeapConts(r) = k
    <3>1. Machine(s)
      BY <1>1
    <3>2. Machine(r) /\ SameRegisters(s, r) /\ r.heap = s.heap
      BY <2>12, <2>3, <3>1, HeapContsSet
    <3>3. Top(r) = Top(s) /\ HeapConts(r) = k
      BY <2>12, <2>3, <3>1, HeapContsSet
    <3>4. QED
      BY <3>2, <3>3
  <2>5. \A i \in 1 .. Top(s) : i # bottom - 1 => r.stack[i] = s.stack[i]
    BY <1>1, <2>12, <2>3, HeapContsSet
  <2>6. Sound(r, K, E) /\ SameEnvs(s, r, K)
    <3>1. Top(s) <= Top(r) /\ r.cont = s.cont
      BY <1>1, <2>4 DEF SameRegisters
    <3>2. QED
      BY <1>1, <1>2, <2>4, <2>5, <3>1, KeptAll
  <2>7. ArgsIn(r.stack, Top(s), n)
    <3>1. IsHeader(s.stack[bottom])
      BY <1>2 DEF Sound, Conts
    <3>2. QED
      BY <1>1, <2>5, <3>1, ArgsStay
  <2>8. Refers(r, K, E, Top(s) + 1, s.env)
    BY <1>2, <2>6 DEF Refers, SameEnvs
  <2>9. r.env = s.env /\ SameAccount(s, r)
    BY <2>4 DEF SameRegisters, SameAccount
  <2>10. QED
    BY <1>1, <2>2, <2>4, <2>6, <2>7, <2>8, <2>9 DEF Good
<1>5. CASE s.cont # bottom
  <2>1. PICK c, d : c = s.cont /\ d = ContOf(s, c)
    OBVIOUS
  <2>2. r = [s EXCEPT !.cont = d]
    BY <1>5, <2>1 DEF skip_current_continuation
  <2>3. /\ Machine(r) /\ r.stack = s.stack /\ r.env = s.env /\ r.cont = d /\ r.heap = s.heap
        /\ SameAccount(s, r)
    BY <1>1, <2>2 DEF Machine, SameAccount
  <2>4. c \in K /\ c # bottom /\ \A x \in K : x <= c
    BY <1>2, <1>5, <2>1 DEF Sound, Conts
  <2>5. d \in K /\ d < c /\ \A x \in K : x < c => x <= d
    <3>1. d \in K /\ d < ContLow(s, c) /\ \A x \in K : x < c => x <= d
      BY <1>2, <2>1, <2>4 DEF Sound, Conts, Continuation
    <3>2. c \in Nat /\ d \in Nat /\ ContLow(s, c) \in Int /\ ContLow(s, c) <= c - 4
      BY <1>1, <1>2, <2>4, <3>1, Numbers
    <3>3. QED
      BY <3>1, <3>2
  <2>6. PICK K2 : K2 = K \ {c}
    OBVIOUS
  <2>7. LowerPart(K, E, K2, E, Top(s), r.cont)
    <3>1. bottom \in K2 /\ K2 \in SUBSET K /\ E \in SUBSET E
      BY <1>2, <2>4, <2>6 DEF Sound, Conts
    <3>2. r.cont \in K2
      BY <1>3, <2>3, <2>5, <2>6
    <3>3. \A x \in K2 : x < c
      BY <1>3, <2>4, <2>6
    <3>4. \A x \in K2 : x <= r.cont
      BY <2>3, <2>5, <2>6, <3>3
    <3>5. \A y \in K : \A x \in K2 : y < x => y \in K2
      BY <1>3, <2>4, <2>6, <3>3
    <3>6. \A x \in K2 \cup E : x <= Top(s)
      BY <1>3, <2>6
    <3>7. QED
      BY <3>1, <3>2, <3>4, <3>5, <3>6 DEF LowerPart
  <2>8. Sound(r, K2, E) /\ SameEnvs(s, r, K2)
    <3>1. Top(r) = Top(s) /\ Top(s) <= Top(r) /\ Top(s) <= Top(s) /\ Top(s) >= bottom /\ Stays(s, r, Top(s))
      BY <1>1, <2>3 DEF Top, Stays
    <3>2. QED
      BY <1>1, <1>2, <2>3, <2>7, <3>1, KeptPart
  <2>9. Top(r) = Top(s) /\ HeapConts(r) = HeapConts(s)
    BY <2>3 DEF Top, HeapConts
  <2>10. Refers(r, K2, E, Top(s) + 1, s.env)
    BY <1>2, <2>6, <2>8 DEF Refers, SameEnvs
  <2>11. QED
    BY <1>1, <2>3, <2>8, <2>9, <2>10 DEF Good
<1>6. QED
  BY <1>4, <1>5

LEMMA ConsumerKnown ==
  ASSUME NEW s, NEW v, NEW n, Good(s, v, n), CurrentTemplate(s) = "consumer"
  PROVE  HasCont(s) /\ CurrentConsumer(s) \in Procs
<1>1. HasCont(s)
  BY DEF CurrentTemplate
<1>2. /\ Machine(s) /\ SafeConts(HeapConts(s)) /\ Top(s) \in Nat /\ bottom = 5
  BY TopOnly
<1>3. CASE s.cont = bottom
  <2> DEFINE h == HeapConts(s)
             a == Head(h).args
  <2>1. SafeConts(h) /\ h # <<>> /\ Head(h).template = "consumer"
    BY <1>1, <1>2, <1>3 DEF HasCont, CurrentTemplate
  <2>2. HeapFrame(Head(h))
    BY <2>1, FirstCont
  <2>3. Len(a) = 1 /\ a[1].proc \in Procs
    BY <2>1, <2>2 DEF HeapFrame, Frame
  <2>4. QED
    BY <1>1, <1>3, <2>3 DEF CurrentConsumer
<1>4. CASE s.cont # bottom
  <2>1. PICK K, E : Sound(s, K, E)
    BY DEF Good
  <2>2. PICK c : c = s.cont
    OBVIOUS
  <2>3. c \in K \ {bottom} /\ s.stack[c - 3].template = "consumer"
    BY <1>1, <1>4, <2>1, <2>2 DEF Sound, Conts, CurrentTemplate
  <2>4. Frame(ArgsOf(s, c), "consumer", s.stack[c - 2].pc, ContLow(s, c) - 1)
    BY <2>1, <2>3 DEF Sound, Conts, Continuation
  <2>5. Len(ArgsOf(s, c)) = 1 /\ ArgsOf(s, c)[1].proc \in Procs
    BY <2>4 DEF Frame
  <2>6. PICK k : k = s.stack[c].size
    OBVIOUS
  <2>7. c \in Nat /\ c <= Top(s) /\ k \in Nat /\ c - 4 - k > 5
    BY <1>2, <2>1, <2>3, <2>6, Numbers DEF ContLow
  <2>8. PICK a, p : a = c - 4 - k /\ p = c - 5
    OBVIOUS
  <2>9. a \in Int /\ p \in Int /\ a >= 1 /\ a <= p + 1 /\ p <= Top(s) /\ p - a + 1 = k
    BY <1>2, <2>7, <2>8
  <2>10. ArgsOf(s, c) = SubSeq(s.stack, a, p)
    BY <2>6, <2>8 DEF ArgsOf
  <2>11. IsSeq(s.stack) /\ p <= Len(s.stack)
    BY <1>2, <2>9, TopNat DEF Machine
  <2>12. /\ IsSeq(SubSeq(s.stack, a, p)) /\ Len(SubSeq(s.stack, a, p)) = p - a + 1
         /\ \A i \in 1 .. p - a + 1 : SubSeq(s.stack, a, p)[i] = s.stack[i + a - 1]
    BY <2>9, <2>11, Part
  <2>13. k = 1
    BY <2>5, <2>9, <2>10, <2>12
  <2>14. ArgsOf(s, c)[1] = s.stack[a]
    BY <2>9, <2>10, <2>12, <2>13
  <2>15. a = c - 5
    BY <2>7, <2>8, <2>13
  <2>16. CurrentConsumer(s) = s.stack[c - 5].proc
    BY <1>4, <2>2 DEF CurrentConsumer
  <2>17. QED
    BY <1>1, <2>5, <2>14, <2>15, <2>16
<1>5. QED
  BY <1>3, <1>4

-----------------------------------------------------------------------------
(* Starting a procedure.                                                   *)

\* What the assumptions say of a procedure and of an argument list.
LEMMA ProgramFacts ==
  /\ \A p \in Procs : Protocol[p].wants \in Nat /\ Protocol[p].wants <= MaxArgs
  /\ Handler \in Procs /\ Protocol[Handler].kind = "n-ary" /\ Protocol[Handler].wants = 2
  /\ InterruptHandler \in Procs
  /\ \A list \in Lists \cup {ExceptionArgs} :
       IsSeq(list) /\ \A i \in 1 .. Len(list) : list[i] \in {Value(p) : p \in Procs}
  /\ Len(ExceptionArgs) <= 16
  /\ \A i \in DOMAIN Data : Data[i] \in Procs
<1>1. \A p \in Procs : Protocol[p].wants \in Nat /\ Protocol[p].wants <= MaxArgs
  BY ProgramAssumption, Sizes
<1>2. /\ Handler \in Procs /\ Protocol[Handler].kind = "n-ary" /\ Protocol[Handler].wants = 2
      /\ InterruptHandler \in Procs /\ Len(ExceptionArgs) <= 16
  BY ProgramAssumption
<1>3. ASSUME NEW list \in Lists \cup {ExceptionArgs}
      PROVE  IsSeq(list) /\ \A i \in 1 .. Len(list) : list[i] \in {Value(p) : p \in Procs}
  <2> DEFINE V == {Value(p) : p \in Procs}
  <2>1. list \in Seq(V)
    BY <1>3, ProgramAssumption
  <2> HIDE DEF V
  <2>2. IsSeq(list) /\ \A i \in 1 .. Len(list) : list[i] \in V
    BY <2>1, SeqOf
  <2>3. QED
    BY <2>2 DEF V
<1>4. \A i \in DOMAIN Data : Data[i] \in Procs
  BY ProgramAssumption
<1>5. QED
  BY <1>1, <1>2, <1>3, <1>4

\* Cells that are not headers, in a sequence of their own.
Plain(cells) == IsSeq(cells) /\ \A i \in 1 .. Len(cells) : ~IsHeader(cells[i])

LEMMA PlainFields ==
  ASSUME NEW x
  PROVE  /\ ~IsHeader(Value(x)) /\ ~IsHeader(List(x)) /\ ~IsHeader(Count(x)) /\ ~IsHeader(Info(x))
         /\ ~IsHeader([template |-> x]) /\ ~IsHeader([pc |-> x])
         /\ "proc" \notin DOMAIN List(x) /\ "proc" \notin DOMAIN Info(x)
         /\ "proc" \notin DOMAIN Count(x)
BY DEF IsHeader, Value, List, Count, Info

LEMMA Plain0 == Plain(<<>>) /\ Len(<<>>) = 0
<1>1. <<>> \in Seq({}) /\ Len(<<>>) = 0
  OBVIOUS
<1>2. IsSeq(<<>>)
  BY <1>1, SeqOf
<1>3. QED
  BY <1>1, <1>2 DEF Plain

LEMMA Plain1 ==
  ASSUME NEW a, ~IsHeader(a)
  PROVE  Plain(<<a>>) /\ Len(<<a>>) = 1
<1>1. <<a>> \in Seq({a}) /\ Len(<<a>>) = 1 /\ <<a>>[1] = a
  OBVIOUS
<1>2. IsSeq(<<a>>)
  BY <1>1, SeqOf
<1>3. QED
  BY <1>1, <1>2 DEF Plain

LEMMA Plain2 ==
  ASSUME NEW a, NEW b, ~IsHeader(a), ~IsHeader(b)
  PROVE  Plain(<<a, b>>) /\ Len(<<a, b>>) = 2
<1>1. <<a, b>> \in Seq({a, b}) /\ Len(<<a, b>>) = 2 /\ <<a, b>>[1] = a /\ <<a, b>>[2] = b
  OBVIOUS
<1>2. IsSeq(<<a, b>>)
  BY <1>1, SeqOf
<1>3. \A i \in 1 .. 2 : i = 1 \/ i = 2
  OBVIOUS
<1>4. QED
  BY <1>1, <1>2, <1>3 DEF Plain

LEMMA Plain3 ==
  ASSUME NEW a, NEW b, NEW c, ~IsHeader(a), ~IsHeader(b), ~IsHeader(c)
  PROVE  Plain(<<a, b, c>>) /\ Len(<<a, b, c>>) = 3
<1>1. /\ <<a, b, c>> \in Seq({a, b, c}) /\ Len(<<a, b, c>>) = 3
      /\ <<a, b, c>>[1] = a /\ <<a, b, c>>[2] = b /\ <<a, b, c>>[3] = c
  OBVIOUS
<1>2. IsSeq(<<a, b, c>>)
  BY <1>1, SeqOf
<1>3. \A i \in 1 .. 3 : i = 1 \/ i = 2 \/ i = 3
  OBVIOUS
<1>4. QED
  BY <1>1, <1>2, <1>3 DEF Plain

\* GoodPush, for plain cells.
LEMMA PushPlain ==
  ASSUME NEW s, NEW env, NEW n, Good(s, env, n), NEW cells, Plain(cells),
         NEW r, r = push_all(s, cells)
  PROVE  /\ Good(r, env, n + Len(cells)) /\ SameBut(s, r) /\ HeapConts(r) = HeapConts(s)
         /\ Extends(s, r, cells)
         /\ s.overrun = FALSE /\ Top(s) + Len(cells) <= LastCell => r.overrun = FALSE
<1>1. IsSeq(cells) /\ \A i \in 1 .. Len(cells) : ~IsHeader(cells[i])
  BY DEF Plain
<1>2. /\ Good(r, env, n + Len(cells)) /\ SameBut(s, r) /\ HeapConts(r) = HeapConts(s)
      /\ r.stack = s.stack \o cells
      /\ r.overrun = (s.overrun \/ Top(s) + Len(cells) > LastCell)
  BY <1>1, GoodPush
<1>3. Machine(s) /\ Machine(r) /\ Pushes(s, r, cells)
  BY <1>2 DEF Good, Pushes
<1>4. Extends(s, r, cells)
  BY <1>1, <1>3, Pushed
<1>5. ASSUME s.overrun = FALSE, Top(s) + Len(cells) <= LastCell PROVE r.overrun = FALSE
  <2>1. Top(s) + Len(cells) \in Int /\ LastCell \in Int
    BY <1>1, <1>3, TopNat, SeqFacts, Sizes
  <2>2. ~(Top(s) + Len(cells) > LastCell)
    BY <1>5, <2>1
  <2>3. QED
    BY <1>2, <1>5, <2>2
<1>6. QED
  BY <1>2, <1>4, <1>5

\* Arguments that are passed on in a list.
Passed(list) == IsSeq(list) /\ \A i \in 1 .. Len(list) : list[i] \in {Value(p) : p \in Procs}

LEMMA PassedLists == \A list \in Lists \cup {<<>>, ExceptionArgs} : Passed(list)
BY ProgramFacts, Plain0 DEF Passed, Plain

\* What a procedure finds on the stack is few, or ends in a list.
Fits(n, after, count) ==
  /\ n \in Nat /\ n <= MaxArgs
  /\ Plain(after) /\ Len(after) <= 3 /\ count = n + Len(after)
  /\ Len(after) > 0 => "proc" \notin DOMAIN after[1]

LEMMA ArgsFit ==
  ASSUME NEW p \in Procs, NEW k \in Nat, NEW list, Passed(list), Accepts(p, k + Len(list)),
         k <= MaxArgs \/ Protocol[p].kind = "n-ary",
         NEW n, n = StackArgs(p, k, list), NEW all, Len(all) = k + Len(list)
  PROVE  /\ Fits(n, AfterStackArgs(p, n, all), matched_count(p, k, list))
         /\ n <= k + Len(list)
<1> DEFINE total == k + Len(list)
           rest == List(SubSeq(all, n + 1, Len(all)))
           after == AfterStackArgs(p, n, all)
           kind == Protocol[p].kind
           wants == Protocol[p].wants
<1>1. /\ Len(list) \in Nat /\ total \in Nat /\ total >= k /\ wants \in Nat /\ wants <= MaxArgs
      /\ MaxArgs \in Nat /\ 2 <= MaxArgs
  BY SeqFacts, ProgramFacts, Sizes DEF Passed
<1>2. kind \in {"fixed", "n-ary", "args+nargs", "dispatch"}
  BY ProgramAssumption
<1>3. kind = "fixed" => total = wants
  BY DEF Accepts
<1>4. kind # "fixed" => total >= wants
  BY DEF Accepts
<1>5. ~IsHeader(rest) /\ "proc" \notin DOMAIN rest /\ ~IsHeader(Count(n)) /\ ~IsHeader(Count(Len(all)))
  BY PlainFields
<1> HIDE DEF rest, kind, wants
<1>10. list = <<>> => total = k
  BY Plain0, <1>1
<1>6. CASE kind = "n-ary"
  <2>1. n = wants /\ after = <<rest>> /\ matched_count(p, k, list) = n + 1
    BY <1>6 DEF StackArgs, AfterStackArgs, matched_count, rest, kind, wants
  <2>2. Plain(<<rest>>) /\ Len(<<rest>>) = 1
    BY <1>5, Plain1
  <2>3. <<rest>>[1] = rest
    OBVIOUS
  <2>4. QED
    BY <1>1, <1>4, <1>5, <1>6, <2>1, <2>2, <2>3 DEF Fits
<1>7. CASE kind # "n-ary" /\ Spreads(p, total)
  <2>1. after = <<rest, Count(n), Count(Len(all))>> /\ matched_count(p, k, list) = n + 3
    BY <1>7 DEF AfterStackArgs, matched_count, rest, kind
  <2>2. Plain(<<rest, Count(n), Count(Len(all))>>) /\ Len(<<rest, Count(n), Count(Len(all))>>) = 3
    BY <1>5, Plain3
  <2>3. <<rest, Count(n), Count(Len(all))>>[1] = rest
    OBVIOUS
  <2>4. k <= MaxArgs
    BY <1>7 DEF kind
  <2>5. n = IF list = <<>> THEN k ELSE IF total >= 3 THEN Larger(2, k) ELSE total
    BY <1>7 DEF StackArgs, kind
  <2>6. n \in Nat /\ n <= MaxArgs /\ n <= total
    BY <1>1, <1>10, <2>4, <2>5 DEF Larger
  <2>7. QED
    BY <1>5, <2>1, <2>2, <2>3, <2>6 DEF Fits
<1>8. CASE kind # "n-ary" /\ ~Spreads(p, total)
  <2>1. after = <<>> /\ matched_count(p, k, list) = n /\ n = total
    BY <1>8 DEF StackArgs, AfterStackArgs, matched_count, kind
  <2>2. Plain(<<>>) /\ Len(<<>>) = 0
    BY Plain0
  <2>3. kind = "fixed" \/ (kind = "dispatch" /\ total < 3)
    BY <1>1, <1>2, <1>8 DEF Spreads, kind
  <2>4. n <= MaxArgs
    BY <1>1, <1>3, <2>1, <2>3
  <2>5. after = <<>> /\ n + 0 = n /\ n \in Nat /\ n <= total
    BY <1>1, <2>1
  <2>6. QED
    BY <2>1, <2>2, <2>4, <2>5 DEF Fits
<1>9. QED
  BY <1>6, <1>7, <1>8

LEMMA PushedList ==
  ASSUME NEW s, NEW k, Good(s, s.env, k), Top(s) + 3 <= LastCell, s.overrun = FALSE,
         NEW list, Passed(list), NEW n \in 1 .. Len(list), k + n <= MaxArgs,
         NEW r, r = push_list(s, list, n)
  PROVE  Good(r, r.env, k + n) /\ Top(r) < Limit /\ r.overrun = FALSE
<1> DEFINE a == push_all(s, <<List(list)>>)
           b == ensure_stack_space(a, n)
           c == remove_stack_arguments(b, 1)
           cells == SubSeq(list, 1, n)
<1>1. r = push_all(c, cells)
  BY DEF push_list, push
<1>2. Plain(<<List(list)>>) /\ Len(<<List(list)>>) = 1
  BY PlainFields, Plain1
<1>3. Machine(s) /\ k \in Nat /\ Top(s) \in Nat
  BY TopOnly
<1>4. Len(list) \in Nat /\ n \in Nat /\ n <= Len(list)
  BY SeqFacts DEF Passed
<1>5. Plain(cells) /\ Len(cells) = n
  <2>1. IsSeq(cells) /\ Len(cells) = n /\ \A i \in 1 .. n : cells[i] = list[i]
    BY <1>4, Prefix DEF Passed
  <2>2. \A i \in 1 .. n : i \in 1 .. Len(list)
    BY <1>4
  <2>3. \A i \in 1 .. n : ~IsHeader(list[i])
    BY <2>2, PlainFields DEF Passed
  <2>4. QED
    BY <2>1, <2>3 DEF Plain
<1> HIDE DEF cells
<1>6. Good(a, s.env, k + 1) /\ a.env = s.env /\ Top(a) = Top(s) + 1 /\ a.overrun = FALSE
  <2>1. /\ Good(a, s.env, k + Len(<<List(list)>>)) /\ SameBut(s, a)
        /\ Extends(s, a, <<List(list)>>)
        /\ s.overrun = FALSE /\ Top(s) + Len(<<List(list)>>) <= LastCell => a.overrun = FALSE
    BY <1>2, PushPlain
  <2>2. LastCell \in Int /\ Top(s) + 1 <= LastCell
    BY <1>3, Sizes
  <2>3. QED
    BY <1>2, <1>3, <2>1, <2>2 DEF SameBut, Extends
<1> HIDE DEF a
<1>7. Ensured(a, b, k + 1) /\ Top(b) + n < Limit
  <2>1. Good(a, a.env, k + 1) /\ Top(a) <= LastCell /\ 5 + (k + 1) + n < Limit
    BY <1>3, <1>4, <1>6, Sizes
  <2>2. QED
    BY <1>4, <2>1, EnsuredSpace
<1>8. Good(b, b.env, k + 1) /\ b.overrun = FALSE
  BY <1>6, <1>7 DEF Ensured
<1> HIDE DEF b
<1>9. Good(c, b.env, k) /\ c.env = b.env /\ Top(c) = Top(b) - 1 /\ c.overrun = FALSE
  <2>1. PICK j, one : j = k + 1 /\ one = 1
    OBVIOUS
  <2>2. one \in 0 .. j /\ j - one = k /\ c = remove_stack_arguments(b, one)
    BY <1>3, <2>1
  <2>3. Good(b, b.env, j)
    BY <1>8, <2>1
  <2> HIDE DEF c
  <2>4. /\ Good(c, b.env, j - one) /\ SameBut(b, c) /\ Top(c) = Top(b) - one /\ c.overrun = b.overrun
    BY <2>2, <2>3, GoodRemove
  <2>5. QED
    BY <1>8, <2>1, <2>2, <2>4 DEF SameBut
<1> HIDE DEF c
<1>10. /\ Good(r, b.env, k + Len(cells)) /\ SameBut(c, r) /\ Extends(c, r, cells)
       /\ c.overrun = FALSE /\ Top(c) + Len(cells) <= LastCell => r.overrun = FALSE
  BY <1>1, <1>5, <1>9, PushPlain
<1>11. Top(b) \in Nat /\ Limit \in Int /\ LastCell = Limit + 30
  BY <1>8, TopOnly, Sizes
<1>12. Top(r) = Top(b) - 1 + n /\ Top(r) < Limit
  BY <1>4, <1>5, <1>7, <1>9, <1>10, <1>11 DEF Extends
<1>13. r.overrun = FALSE
  <2>1. Top(c) + Len(cells) <= LastCell
    BY <1>4, <1>5, <1>9, <1>11, <1>7
  <2>2. QED
    BY <1>9, <1>10, <2>1
<1>14. QED
  BY <1>5, <1>9, <1>10, <1>12, <1>13 DEF SameBut

\* What a procedure is started with.
CanStart(s, v, p, k, list) ==
  /\ Good(s, v, k) /\ Top(s) + 3 <= LastCell /\ s.overrun = FALSE
  /\ p \in Procs /\ Passed(list) /\ Accepts(p, k + Len(list))
  /\ k <= MaxArgs \/ Protocol[p].kind = "n-ary"
  /\ v = s.env \/ list = <<>>

LEMMA Matched ==
  ASSUME NEW s, NEW v, NEW p, NEW k, NEW list, CanStart(s, v, p, k, list),
         NEW r, r = protocol_match(s, p, k, list), NEW n, n = matched_count(p, k, list)
  PROVE  /\ \E w : Good(r, w, n)
         /\ n <= MaxArgs + 3 /\ Few(TopArgs(r, n), n) /\ Top(r) <= LastCell /\ r.overrun = FALSE
<1> DEFINE l == StackArgs(p, k, list)
           all == pop_args_to_list(s, k, list)
           after == AfterStackArgs(p, l, all)
           q == IF l > k THEN push_list(s, list, l - k) ELSE remove_stack_arguments(s, k - l)
<1>1. r = push_all(q, after)
  BY DEF protocol_match
<1>2. /\ Machine(s) /\ k \in Nat /\ Top(s) \in Nat /\ k <= Top(s) /\ Good(s, v, k)
      /\ Top(s) + 3 <= LastCell /\ s.overrun = FALSE
      /\ p \in Procs /\ Passed(list) /\ Accepts(p, k + Len(list)) /\ Len(list) \in Nat
      /\ k <= MaxArgs \/ Protocol[p].kind = "n-ary"
      /\ v = s.env \/ list = <<>>
  BY TopOnly, SeqFacts DEF CanStart, Passed
<1>3. Len(all) = k + Len(list)
  <2>1. IsSeq(TopArgs(s, k)) /\ Len(TopArgs(s, k)) = k
    BY <1>2, TopArgsAre
  <2>2. IsSeq(list)
    BY <1>2 DEF Passed
  <2>3. Len(TopArgs(s, k) \o list) = k + Len(list)
    BY <2>1, <2>2, Concatenated
  <2>4. QED
    BY <2>3 DEF pop_args_to_list
<1> HIDE DEF l, all
<1>4. Fits(l, after, n) /\ l <= k + Len(list)
  <2>1. l = StackArgs(p, k, list)
    BY DEF l
  <2>2. QED
    BY <1>2, <1>3, <2>1, ArgsFit
<1> HIDE DEF after
<1>5. l \in Nat /\ l <= MaxArgs /\ Plain(after) /\ Len(after) \in Nat /\ Len(after) <= 3 /\ n = l + Len(after)
  BY <1>4, SeqFacts DEF Fits, Plain
<1>6. /\ \E w : Good(q, w, l)
      /\ Top(q) + 3 <= LastCell /\ q.overrun = FALSE
  <2>1. CASE l > k
    <3>1. list # <<>> /\ v = s.env /\ l - k \in 1 .. Len(list) /\ k + (l - k) <= MaxArgs /\ k + (l - k) = l
      BY <1>2, <1>4, <1>5, <2>1, Plain0
    <3>2. PICK d : d = l - k
      OBVIOUS
    <3>3. q = push_list(s, list, d) /\ d \in 1 .. Len(list) /\ k + d <= MaxArgs /\ k + d = l
      BY <2>1, <3>1, <3>2
    <3> HIDE DEF q
    <3>4. Good(q, q.env, k + d) /\ Top(q) < Limit /\ q.overrun = FALSE
      BY <1>2, <3>1, <3>3, PushedList
    <3>5. Top(q) \in Nat /\ Limit \in Int /\ LastCell = Limit + 30
      BY <3>4, TopOnly, Sizes
    <3>6. QED
      BY <3>3, <3>4, <3>5
  <2>2. CASE ~(l > k)
    <3>1. PICK d : d = k - l
      OBVIOUS
    <3>2. d \in 0 .. k /\ k - d = l /\ q = remove_stack_arguments(s, d)
      BY <1>2, <1>5, <2>2, <3>1
    <3> HIDE DEF q
    <3>3. Good(q, v, k - d) /\ Top(q) = Top(s) - d /\ q.overrun = s.overrun
      BY <1>2, <3>2, GoodRemove
    <3>4. QED
      BY <1>2, <3>2, <3>3, Sizes
  <2>3. QED
    BY <2>1, <2>2
<1> HIDE DEF q
<1>7. PICK w : Good(q, w, l)
  BY <1>6
<1>8. /\ Good(r, w, n) /\ Extends(q, r, after)
      /\ q.overrun = FALSE /\ Top(q) + Len(after) <= LastCell => r.overrun = FALSE
  BY <1>1, <1>5, <1>7, PushPlain
<1>9. Top(q) \in Nat /\ LastCell \in Int /\ Top(r) = Top(q) + Len(after)
  BY <1>7, <1>8, TopOnly, Sizes DEF Extends
<1>10. Top(r) <= LastCell /\ r.overrun = FALSE /\ n <= MaxArgs + 3
  BY <1>5, <1>6, <1>8, <1>9, Sizes
<1>11. Few(TopArgs(r, n), n)
  <2>1. CASE Len(after) = 0
    BY <1>5, <2>1 DEF Few
  <2>2. CASE Len(after) > 0
    <3>1. "proc" \notin DOMAIN after[1]
      BY <1>4, <2>2 DEF Fits
    <3>2. Machine(r) /\ n \in Nat /\ n <= Top(r)
      BY <1>8, TopOnly
    <3>3. l + 1 \in 1 .. n /\ Top(r) - n + (l + 1) = Top(q) + 1 /\ 1 \in 1 .. Len(after)
      BY <1>5, <1>9, <2>2
    <3>4. TopArgs(r, n)[l + 1] = r.stack[Top(r) - n + (l + 1)]
      BY <3>2, <3>3, TopArgsAre
    <3>5. r.stack[Top(q) + 1] = after[1]
      BY <1>8, <3>3 DEF Extends
    <3>6. QED
      BY <3>1, <3>3, <3>4, <3>5 DEF Few
  <2>3. QED
    BY <1>5, <2>1, <2>2
<1>12. QED
  BY <1>8, <1>10, <1>11

LEMMA HasRoom ==
  ASSUME NEW s, NEW w, NEW n, Good(s, w, n), n <= MaxArgs + 3, Few(TopArgs(s, n), n),
         Top(s) <= LastCell, s.overrun = FALSE, NEW p, NEW e \in Int, e <= 0,
         NEW r, r = WithRoom(s, p, e)
  PROVE  Ready(r, n)
<1> DEFINE q == install_val_closure(s, p, e)
<1>1. Machine(s) /\ n \in Nat /\ Top(s) \in Nat /\ n <= Top(s)
  BY TopOnly
<1>2. /\ Machine(q) /\ q.stack = s.stack /\ q.cont = s.cont /\ q.heap = s.heap /\ q.env = e
      /\ q.used = 0 /\ q.overrun = s.overrun /\ q.room = IF p \in BigProcs THEN BigSpace ELSE DefaultSpace
  BY <1>1 DEF install_val_closure, Machine
<1>3. r = ensure_stack_space(q, q.room)
  BY DEF WithRoom
<1> HIDE DEF q
<1>4. Good(q, q.env, n)
  <2>1. q.env \in Int /\ (q.env = w \/ ~within_stack(q.env))
    BY <1>2 DEF within_stack
  <2>2. QED
    BY <1>2, <2>1, GoodSame
<1>5. Top(q) = Top(s) /\ TopArgs(q, n) = TopArgs(s, n)
  BY <1>2 DEF Top, TopArgs
<1>6. PICK space : space = q.room
  OBVIOUS
<1>7. space \in Nat /\ space <= BigSpace /\ 5 + n + space < Limit
  <2>1. space \in Nat /\ space <= BigSpace
    BY <1>2, <1>6, Sizes
  <2>2. QED
    BY <1>1, <2>1, Sizes
<1>8. Ensured(q, r, n) /\ Top(r) + space < Limit
  BY <1>3, <1>4, <1>5, <1>6, <1>7, EnsuredSpace
<1>9. /\ Good(r, r.env, n) /\ r.used = 0 /\ r.room = space /\ r.overrun = FALSE
      /\ TopArgs(r, n) = TopArgs(s, n)
  BY <1>2, <1>5, <1>6, <1>8 DEF Ensured
<1>10. Affordable(r.used, r.room, Top(r))
  <2>1. Top(r) \in Nat /\ Limit \in Int
    BY <1>9, TopOnly, Sizes
  <2>2. QED
    BY <1>7, <1>8, <1>9, <2>1 DEF Affordable
<1>11. QED
  BY <1>9, <1>10 DEF Ready, Running

LEMMA StartedRuns ==
  ASSUME NEW s, NEW v, NEW p, NEW k, NEW list, CanStart(s, v, p, k, list), NEW e \in Int, e <= 0,
         NEW r, r = Started(s, p, e, k, list), NEW n, n = matched_count(p, k, list)
  PROVE  Ready(r, n)
<1> DEFINE q == protocol_match(s, p, k, list)
<1>1. r = WithRoom(q, p, e)
  BY DEF Started
<1> HIDE DEF q
<1>2. /\ \E w : Good(q, w, n)
      /\ n <= MaxArgs + 3 /\ Few(TopArgs(q, n), n) /\ Top(q) <= LastCell /\ q.overrun = FALSE
  BY Matched DEF q
<1>3. QED
  BY <1>1, <1>2, HasRoom

\* The stack of a procedure that runs is not full.
LEMMA ReadyTop ==
  ASSUME NEW s, NEW n, Ready(s, n)
  PROVE  /\ Good(s, s.env, n) /\ Machine(s) /\ n \in Nat /\ Top(s) \in Nat /\ n <= Top(s) /\ Top(s) - n >= 5
         /\ Affordable(s.used, s.room, Top(s)) /\ s.used \in Int /\ s.room \in Int
         /\ Top(s) <= Limit /\ Limit \in Int /\ LastCell \in Int /\ LastCell = Limit + 30
         /\ s.overrun = FALSE /\ Few(TopArgs(s, n), n) /\ s.env \in Int
<1>1. /\ Good(s, s.env, n) /\ s.overrun = FALSE /\ Affordable(s.used, s.room, Top(s)) /\ Few(TopArgs(s, n), n)
  BY DEF Ready, Running
<1>2. Machine(s) /\ n \in Nat /\ Top(s) \in Nat /\ n <= Top(s) /\ Top(s) - n >= 5 /\ s.env \in Int
  BY <1>1, TopOnly
<1>3. Limit \in Int /\ LastCell \in Int /\ LastCell = Limit + 30
  BY Sizes
<1>4. s.used \in Int /\ s.room \in Int /\ s.used <= s.room /\ Top(s) + s.room - s.used <= Limit
  BY <1>1 DEF Affordable
<1>5. QED
  BY <1>1, <1>2, <1>3, <1>4

-----------------------------------------------------------------------------
(* Interrupts and exceptions.                                              *)

LEMMA Cells4 ==
  ASSUME NEW a, NEW b, NEW c, NEW d, ~IsHeader(a), ~IsHeader(b), ~IsHeader(c), ~IsHeader(d)
  PROVE  Plain(<<a, b, c, d>>) /\ Len(<<a, b, c, d>>) = 4
<1>1. /\ <<a, b, c, d>> \in Seq({a, b, c, d}) /\ Len(<<a, b, c, d>>) = 4
      /\ <<a, b, c, d>>[1] = a /\ <<a, b, c, d>>[2] = b /\ <<a, b, c, d>>[3] = c /\ <<a, b, c, d>>[4] = d
  OBVIOUS
<1>2. IsSeq(<<a, b, c, d>>)
  BY <1>1, SeqOf
<1>3. \A i \in 1 .. 4 : i = 1 \/ i = 2 \/ i = 3 \/ i = 4
  OBVIOUS
<1>4. QED
  BY <1>1, <1>2, <1>3 DEF Plain

\* What an interrupt or an exception saves, with the count of the code that it stops.
Saves(s, cells, kind) ==
  /\ Plain(cells) /\ Len(cells) = 4
  /\ cells[IF kind = "exception" THEN 4 ELSE 3].pc = <<s.used, s.room>>

LEMMA InterruptSaves ==
  ASSUME NEW s PROVE Saves(s, <<Info("val"), Info("template"), SavedPc(s), Info("enabled")>>, "interrupt")
<1> DEFINE cells == <<Info("val"), Info("template"), SavedPc(s), Info("enabled")>>
<1>1. Plain(cells) /\ Len(cells) = 4
  BY PlainFields, Cells4 DEF SavedPc
<1>2. cells[3].pc = <<s.used, s.room>>
  BY DEF SavedPc
<1>3. QED
  BY <1>1, <1>2 DEF Saves

LEMMA ExceptionSaves ==
  ASSUME NEW s PROVE Saves(s, <<Info("size"), Info("exception"), Info("template"), SavedPc(s)>>, "exception")
<1> DEFINE cells == <<Info("size"), Info("exception"), Info("template"), SavedPc(s)>>
<1>1. Plain(cells) /\ Len(cells) = 4
  BY PlainFields, Cells4 DEF SavedPc
<1>2. cells[4].pc = <<s.used, s.room>>
  BY DEF SavedPc
<1>3. QED
  BY <1>1, <1>2 DEF Saves

\* The code stops with n arguments, and its continuation saves k.
Stops(s, n, kind, cells, q, k, r) ==
  /\ kind \in {"exception", "interrupt"} /\ Saves(s, cells, kind)
  /\ q = push_all(s, cells) /\ k = n + 4 /\ r = push_continuation(q, kind, k)

LEMMA Stopped ==
  ASSUME NEW s, NEW n, Ready(s, n), NEW kind, NEW cells, NEW q, NEW k, NEW r,
         Stops(s, n, kind, cells, q, k, r)
  PROVE  Good(q, s.env, k) /\ Good(r, r.env, 0) /\ Top(r) = Top(s) + 9 /\ r.overrun = FALSE
<1>16. /\ kind \in {"exception", "interrupt"} /\ Saves(s, cells, kind)
       /\ q = push_all(s, cells) /\ k = n + 4 /\ r = push_continuation(q, kind, k)
  BY DEF Stops
<1>1. Plain(cells) /\ Len(cells) = 4
  BY <1>16 DEF Saves
<1>2. /\ Good(s, s.env, n) /\ Machine(s) /\ n \in Nat /\ Top(s) \in Nat /\ n <= Top(s) /\ s.overrun = FALSE
      /\ Top(s) <= Limit /\ Limit \in Int /\ LastCell \in Int /\ LastCell = Limit + 30
      /\ Affordable(s.used, s.room, Top(s)) /\ Few(TopArgs(s, n), n)
  BY ReadyTop
<1>3. k \in Nat /\ k = n + 4 /\ Top(s) + 4 <= LastCell /\ Top(s) + 9 <= LastCell
  BY <1>2, <1>16
<1>4. /\ Good(q, s.env, k) /\ SameBut(s, q) /\ Extends(s, q, cells) /\ q.overrun = FALSE
  <2>1. /\ Good(q, s.env, n + Len(cells)) /\ SameBut(s, q) /\ Extends(s, q, cells)
        /\ s.overrun = FALSE /\ Top(s) + Len(cells) <= LastCell => q.overrun = FALSE
    BY <1>1, <1>2, <1>16, PushPlain
  <2>2. QED
    BY <1>1, <1>2, <1>3, <2>1
<1>5. /\ q.env = s.env /\ Top(q) = Top(s) + 4 /\ Machine(q) /\ k <= Top(q) /\ Top(q) - k = Top(s) - n
      /\ ArgsIn(q.stack, Top(q), k)
  BY <1>1, <1>2, <1>3, <1>4, TopOnly DEF SameBut, Extends
<1> DEFINE args == TopArgs(q, k)
           pc == <<q.used, q.room>>
<1>6. IsSeq(args) /\ Len(args) = k /\ \A i \in 1 .. k : args[i] = q.stack[Top(q) - k + i]
  BY <1>3, <1>5, TopArgsAre
<1> HIDE DEF args
<1>7. \A i \in 1 .. k : ~IsHeader(args[i])
  <2>1. \A i \in 1 .. k : Top(q) - k + i \in Top(q) - k + 1 .. Top(q)
    BY <1>2, <1>3, <1>5
  <2>2. \A j \in Top(q) - k + 1 .. Top(q) : ~IsHeader(q.stack[j])
    BY <1>5 DEF ArgsIn
  <2>3. QED
    BY <1>6, <2>1, <2>2
<1>8. Few(args, n)
  <2>1. \A i \in 1 .. n : TopArgs(s, n)[i] = s.stack[Top(s) - n + i]
    BY <1>2, TopArgsAre
  <2>2. \A i \in 1 .. n : i \in 1 .. k /\ Top(s) - n + i \in 1 .. Top(s) /\ Top(q) - k + i = Top(s) - n + i
    BY <1>2, <1>3, <1>5
  <2>3. \A i \in 1 .. n : args[i] = TopArgs(s, n)[i]
    BY <1>4, <1>6, <2>1, <2>2 DEF Extends
  <2>4. QED
    BY <1>2, <2>3 DEF Few
<1>9. Account(args, kind, pc) = <<s.used, s.room>>
  <2>1. CASE kind = "exception"
    <3>1. k \in 1 .. k /\ Top(q) - k + k = Top(s) + 4 /\ 4 \in 1 .. Len(cells)
      BY <1>1, <1>2, <1>3, <1>5
    <3>2. args[k] = cells[4]
      BY <1>4, <1>6, <3>1 DEF Extends
    <3>3. QED
        BY <1>6, <1>16, <2>1, <3>2 DEF Account, Saves
  <2>2. CASE kind = "interrupt"
    <3>1. k - 1 \in 1 .. k /\ Top(q) - k + (k - 1) = Top(s) + 3 /\ 3 \in 1 .. Len(cells)
      BY <1>1, <1>2, <1>3, <1>5
    <3>2. args[k - 1] = cells[3]
      BY <1>4, <1>6, <3>1 DEF Extends
    <3>3. QED
      BY <1>6, <1>16, <2>2, <3>2 DEF Account, Saves
  <2>3. QED
    BY <1>16, <2>1, <2>2
<1>10. Frame(args, kind, pc, Top(q) - k)
  <2>1. Extra(kind) = 4 /\ kind # "consumer" /\ k - 4 = n /\ k >= 4
    BY <1>2, <1>3, <1>16 DEF Extra
  <2>2. Top(q) - k + k - 4 = Top(s)
    BY <1>2, <1>3, <1>5
  <2> DEFINE account == Account(args, kind, pc)
  <2>3. Affordable(account[1], account[2], Top(q) - k + Len(args) - Extra(kind))
    BY <1>2, <1>6, <1>9, <2>1, <2>2
  <2>4. QED
    BY <1>6, <1>7, <1>8, <2>1, <2>3 DEF Frame
<1>11. Good(q, q.env, k) /\ Frame(TopArgs(q, k), kind, <<q.used, q.room>>, Top(q) - k)
  BY <1>4, <1>5, <1>10 DEF args
<1>12. /\ Good(r, r.env, 0) /\ Top(r) = Top(q) + 5 /\ r.overrun = (q.overrun \/ Top(q) + 5 > LastCell)
  BY <1>11, <1>16, PushedCont
<1>13. ~(Top(q) + 5 > LastCell) /\ Top(q) + 5 = Top(s) + 9
  BY <1>2, <1>3, <1>5
<1>14. r.overrun = FALSE
  BY <1>4, <1>12, <1>13
<1>15. QED
  BY <1>4, <1>12, <1>13, <1>14

LEMMA Interrupted ==
  ASSUME NEW s, NEW n, Ready(s, n), NEW r, r = handle_interrupt(s, n)
  PROVE  Ready(r, 2)
<1> DEFINE cells == <<Info("val"), Info("template"), SavedPc(s), Info("enabled")>>
           two == <<Info("interrupted"), Info("enabled")>>
<1>1. PICK q : q = push_all(s, cells)
  OBVIOUS
<1>2. PICK k : k = n + 4
  OBVIOUS
<1>3. PICK t : t = push_continuation(q, "interrupt", k)
  OBVIOUS
<1>4. PICK u : u = push_all(t, two)
  OBVIOUS
<1>5. r = WithRoom(u, InterruptHandler, 0)
  BY <1>1, <1>2, <1>3, <1>4 DEF handle_interrupt
<1>6. Saves(s, cells, "interrupt")
  BY InterruptSaves
<1> HIDE DEF cells
<1>14. Stops(s, n, "interrupt", cells, q, k, t)
  BY <1>1, <1>2, <1>3, <1>6 DEF Stops
<1>7. Good(t, t.env, 0) /\ Top(t) = Top(s) + 9 /\ t.overrun = FALSE
  BY <1>14, Stopped
<1>8. Plain(two) /\ Len(two) = 2
  BY PlainFields, Plain2
<1> HIDE DEF two
<1>9. Top(s) \in Nat /\ Top(s) <= Limit /\ Limit \in Int /\ LastCell = Limit + 30
  BY ReadyTop
<1>10. /\ Good(u, t.env, 0 + Len(two)) /\ Extends(t, u, two)
       /\ t.overrun = FALSE /\ Top(t) + Len(two) <= LastCell => u.overrun = FALSE
  BY <1>4, <1>7, <1>8, PushPlain
<1>11. Good(u, t.env, 2) /\ Top(u) <= LastCell /\ u.overrun = FALSE
  BY <1>7, <1>8, <1>9, <1>10 DEF Extends
<1>12. 2 <= MaxArgs + 3 /\ Few(TopArgs(u, 2), 2)
  BY Sizes DEF Few
<1>13. PICK e, j : e = 0 /\ j = 2
  OBVIOUS
<1>15. e \in Int /\ e <= 0 /\ r = WithRoom(u, InterruptHandler, e)
  BY <1>5, <1>13
<1>16. Good(u, t.env, j) /\ j <= MaxArgs + 3 /\ Few(TopArgs(u, j), j)
  BY <1>11, <1>12, <1>13
<1>17. Ready(r, j)
  BY <1>11, <1>15, <1>16, HasRoom
<1>18. QED
  BY <1>13, <1>17

LEMMA CheckedInterrupts ==
  ASSUME NEW s, NEW n, Ready(s, n), NEW interrupted, NEW r, r = check_interrupts(s, n, interrupted)
  PROVE  \E k : Ready(r, k)
BY Interrupted DEF check_interrupts

\* A call that can go ahead.
CanCall(c) == (\E v : CanStart(c.s, v, c.p, c.nargs, c.list)) /\ c.e \in Int /\ c.e <= 0

LEMMA Performed ==
  ASSUME NEW c, CanCall(c), NEW interrupted, NEW r, r = Perform(c, interrupted)
  PROVE  \E k : Ready(r, k)
<1>1. PICK s, p, e, n, list : s = c.s /\ p = c.p /\ e = c.e /\ n = c.nargs /\ list = c.list
  OBVIOUS
<1>2. PICK q, k : q = Started(s, p, e, n, list) /\ k = matched_count(p, n, list)
  OBVIOUS
<1>3. Ready(q, k)
  BY <1>1, <1>2, StartedRuns DEF CanCall
<1>4. r = check_interrupts(q, k, interrupted)
  BY <1>1, <1>2 DEF Perform
<1>5. QED
  BY <1>3, <1>4, CheckedInterrupts

LEMMA RaisedStarts ==
  ASSUME NEW s, NEW n, Ready(s, n), NEW reasons, Plain(reasons), Len(reasons) <= 16,
         NEW c, c = Raised(s, reasons)
  PROVE  CanCall(c)
<1> DEFINE cells == <<Info("size"), Info("exception"), Info("template"), SavedPc(s)>>
           two == <<Info("opcode"), Info("exception")>>
<1>1. PICK q : q = push_all(s, cells)
  OBVIOUS
<1>2. PICK k : k = n + 4
  OBVIOUS
<1>3. PICK t : t = push_continuation(q, "exception", k)
  OBVIOUS
<1>4. PICK u : u = push_all(t, two)
  OBVIOUS
<1>5. PICK w : w = push_all(u, reasons)
  OBVIOUS
<1>6. Saves(s, cells, "exception")
  BY ExceptionSaves
<1>7. Good(q, s.env, k) /\ Good(t, t.env, 0) /\ Top(t) = Top(s) + 9 /\ t.overrun = FALSE
  <2>1. Stops(s, n, "exception", cells, q, k, t)
    BY <1>1, <1>2, <1>3, <1>6 DEF Stops
  <2> HIDE DEF cells
  <2>2. QED
    BY <2>1, Stopped
<1>8. arguments_on_stack(q) = k
  BY <1>7, TopOnly, ArgumentCount
<1>9. c = Calling(w, Handler, 0, Len(reasons) + 2, <<>>)
  BY <1>1, <1>3, <1>4, <1>5, <1>8 DEF Raised, push_exception_continuation
<1> HIDE DEF cells
<1>10. Plain(two) /\ Len(two) = 2
  BY PlainFields, Plain2
<1> HIDE DEF two
<1>11. Top(s) \in Nat /\ Top(s) <= Limit /\ Limit \in Int /\ LastCell = Limit + 30 /\ Len(reasons) \in Nat
  BY ReadyTop, SeqFacts DEF Plain
<1>12. /\ Good(u, t.env, 0 + Len(two)) /\ SameBut(t, u) /\ Extends(t, u, two)
       /\ t.overrun = FALSE /\ Top(t) + Len(two) <= LastCell => u.overrun = FALSE
  BY <1>4, <1>7, <1>10, PushPlain
<1>13. Good(u, t.env, 2) /\ u.env = t.env /\ Top(u) = Top(s) + 11 /\ u.overrun = FALSE
  BY <1>7, <1>10, <1>11, <1>12 DEF Extends, SameBut
<1>14. PICK j : j = 2 + Len(reasons)
  OBVIOUS
<1>15. /\ Good(w, u.env, 2 + Len(reasons)) /\ SameBut(u, w) /\ Extends(u, w, reasons)
       /\ u.overrun = FALSE /\ Top(u) + Len(reasons) <= LastCell => w.overrun = FALSE
  BY <1>5, <1>13, PushPlain
<1>16. Good(w, w.env, j) /\ Top(w) + 3 <= LastCell /\ w.overrun = FALSE /\ j \in Nat /\ j >= 2
       /\ j = Len(reasons) + 2 /\ j + 0 = j
  BY <1>11, <1>13, <1>14, <1>15 DEF Extends, SameBut
<1>17. Handler \in Procs /\ Passed(<<>>) /\ Accepts(Handler, j + Len(<<>>)) /\ Protocol[Handler].kind = "n-ary"
  <2>1. Handler \in Procs /\ Protocol[Handler].kind = "n-ary" /\ Protocol[Handler].wants = 2
    BY ProgramFacts
  <2>2. Accepts(Handler, j)
    BY <1>16, <2>1 DEF Accepts
  <2>3. Passed(<<>>) /\ Len(<<>>) = 0
    BY PassedLists, Plain0
  <2>4. QED
    BY <1>16, <2>1, <2>2, <2>3
<1>18. CanStart(w, w.env, Handler, j, <<>>)
  BY <1>16, <1>17 DEF CanStart
<1>19. c.s = w /\ c.p = Handler /\ c.e = 0 /\ c.nargs = j /\ c.list = <<>>
  BY <1>9, <1>16 DEF Calling
<1>20. QED
  BY <1>18, <1>19 DEF CanCall

\* Without some of its arguments a procedure can still run.
LEMMA Dropped ==
  ASSUME NEW s, NEW n, Ready(s, n), NEW r, r = remove_stack_arguments(s, n)
  PROVE  Ready(r, 0)
<1>1. /\ Good(s, s.env, n) /\ n \in Nat /\ Top(s) \in Nat /\ n <= Top(s) /\ s.overrun = FALSE
      /\ Affordable(s.used, s.room, Top(s)) /\ Limit \in Int
  BY ReadyTop
<1>2. n \in 0 .. n /\ n - n = 0
  BY <1>1
<1>3. Good(r, s.env, n - n) /\ SameBut(s, r) /\ Top(r) = Top(s) - n /\ r.overrun = s.overrun
  BY <1>1, <1>2, GoodRemove
<1>4. Good(r, r.env, 0) /\ r.overrun = FALSE
  BY <1>1, <1>2, <1>3 DEF SameBut
<1>5. Affordable(r.used, r.room, Top(r))
  BY <1>1, <1>3 DEF SameBut, Affordable
<1>6. Few(TopArgs(r, 0), 0)
  BY Sizes DEF Few
<1>7. QED
  BY <1>4, <1>5, <1>6 DEF Ready, Running

-----------------------------------------------------------------------------
(* Calls.                                                                  *)

LEMMA RaisedRuns ==
  ASSUME NEW s, NEW n, Ready(s, n), NEW reasons, Plain(reasons), Len(reasons) <= 16,
         NEW interrupted, NEW r, r = raise_exception(s, reasons, interrupted)
  PROVE  \E k : Ready(r, k)
<1>1. PICK c : c = Raised(s, reasons)
  OBVIOUS
<1>2. CanCall(c)
  BY <1>1, RaisedStarts
<1>3. r = Perform(c, interrupted)
  BY <1>1 DEF raise_exception
<1>4. QED
  BY <1>2, <1>3, Performed

LEMMA TwoReasons ==
  ASSUME NEW a, NEW x, ~IsHeader(a)
  PROVE  Plain(<<a, List(x)>>) /\ Len(<<a, List(x)>>) <= 16
<1>1. ~IsHeader(List(x))
  BY PlainFields
<1>2. Plain(<<a, List(x)>>) /\ Len(<<a, List(x)>>) = 2
  BY <1>1, Plain2
<1>3. QED
  BY <1>2

LEMMA Applied ==
  ASSUME NEW s, NEW n, Ready(s, n), n <= MaxArgs, NEW p, p \in Procs, NEW e, e \in Int, e <= 0,
         NEW list, Passed(list), NEW interrupted,
         NEW r, r = perform_application(s, p, e, n, list, interrupted)
  PROVE  \E k : Ready(r, k)
<1>1. /\ Good(s, s.env, n) /\ Top(s) \in Nat /\ Top(s) <= Limit /\ Limit \in Int /\ LastCell = Limit + 30
      /\ s.overrun = FALSE
  BY ReadyTop
<1>2. CASE Accepts(p, n + Len(list))
  <2>1. PICK c : c = Calling(s, p, e, n, list)
    OBVIOUS
  <2>2. r = Perform(c, interrupted)
    BY <1>2, <2>1 DEF perform_application
  <2>3. c.s = s /\ c.p = p /\ c.e = e /\ c.nargs = n /\ c.list = list
    BY <2>1 DEF Calling
  <2>4. Top(s) + 3 <= LastCell
    BY <1>1
  <2>5. CanStart(s, s.env, p, n, list)
    BY <1>1, <1>2, <2>4 DEF CanStart
  <2>6. CanCall(c)
    BY <2>3, <2>5 DEF CanCall
  <2>7. QED
    BY <2>2, <2>6, Performed
<1>3. CASE ~Accepts(p, n + Len(list))
  <2>1. PICK q, reasons : /\ q = remove_stack_arguments(s, n)
                          /\ reasons = <<Value(p), List(pop_args_to_list(s, n, list))>>
    OBVIOUS
  <2>2. r = raise_exception(q, reasons, interrupted)
    BY <1>3, <2>1 DEF perform_application, application_exception, raise_exception
  <2>3. Ready(q, 0)
    BY <2>1, Dropped
  <2>4. Plain(reasons) /\ Len(reasons) <= 16
    BY <2>1, TwoReasons, PlainFields
  <2>5. QED
    BY <2>2, <2>3, <2>4, RaisedRuns
<1>4. QED
  BY <1>2, <1>3

LEMMA Called ==
  ASSUME NEW s, NEW n, Ready(s, n), n <= MaxArgs, NEW p, p \in Procs, NEW e, e \in Int, e <= 0,
         NEW interrupted, NEW r, r = call(s, p, e, n, interrupted)
  PROVE  \E k : Ready(r, k)
<1>1. CASE Protocol[p].kind = "fixed" /\ p \notin BigProcs /\ n = Protocol[p].wants
  <2>1. PICK q, t : q = install_val_closure(s, p, e) /\ t = ensure_default_procedure_space(q)
    OBVIOUS
  <2>2. r = check_interrupts(t, n, interrupted)
    BY <1>1, <2>1 DEF call
  <2>3. /\ Good(s, s.env, n) /\ Machine(s) /\ n \in Nat /\ Top(s) \in Nat /\ Top(s) <= Limit
        /\ Limit \in Int /\ LastCell = Limit + 30 /\ s.overrun = FALSE /\ Few(TopArgs(s, n), n)
    BY ReadyTop
  <2>4. /\ Machine(q) /\ q.stack = s.stack /\ q.cont = s.cont /\ q.heap = s.heap /\ q.env = e
        /\ q.used = 0 /\ q.overrun = s.overrun /\ q.room = DefaultSpace
    BY <1>1, <2>1, <2>3 DEF install_val_closure, Machine
  <2>5. Good(q, q.env, n)
    <3>1. q.env \in Int /\ (q.env = s.env \/ ~within_stack(q.env))
      BY <2>4 DEF within_stack
    <3>2. QED
      BY <2>3, <2>4, <3>1, GoodSame
  <2>6. Top(q) = Top(s) /\ TopArgs(q, n) = TopArgs(s, n)
    BY <2>4 DEF Top, TopArgs
  <2>7. Top(q) <= LastCell /\ 5 + n + DefaultSpace <= Limit
    BY <2>3, <2>6, Sizes
  <2>8. Ensured(q, t, n) /\ Top(t) + DefaultSpace <= Limit
    BY <2>1, <2>5, <2>7, EnsuredDefault
  <2>9. /\ Good(t, t.env, n) /\ t.used = 0 /\ t.room = DefaultSpace /\ t.overrun = FALSE
        /\ Few(TopArgs(t, n), n)
    BY <2>3, <2>4, <2>6, <2>8 DEF Ensured
  <2>10. Affordable(t.used, t.room, Top(t))
    <3>1. Top(t) \in Nat /\ Limit \in Int /\ DefaultSpace \in Nat
      BY <2>9, TopOnly, Sizes
    <3>2. QED
      BY <2>8, <2>9, <3>1 DEF Affordable
  <2>11. Ready(t, n)
    BY <2>9, <2>10 DEF Ready, Running
  <2>12. QED
    BY <2>2, <2>11, CheckedInterrupts
<1>2. CASE ~(Protocol[p].kind = "fixed" /\ p \notin BigProcs /\ n = Protocol[p].wants)
  <2>1. PICK list : list = <<>>
    OBVIOUS
  <2>2. r = perform_application(s, p, e, n, list, interrupted)
    BY <1>2, <2>1 DEF call
  <2>3. Passed(list)
    BY <2>1, PassedLists
  <2>4. QED
    BY <2>2, <2>3, Applied
<1>3. QED
  BY <1>1, <1>2

LEMMA CalledWithValues ==
  ASSUME NEW s, Ready(s, 1), s.stack[Top(s)].proc \in Procs, NEW val, ~IsHeader(val),
         NEW interrupted, NEW r, r = call_with_values(s, val, interrupted)
  PROVE  \E k : Ready(r, k)
<1>1. PICK consumer, one, q, t, list, e :
        /\ consumer = s.stack[Top(s)].proc /\ one = 1 /\ q = remove_stack_arguments(s, one)
        /\ t = push_all(q, <<val>>) /\ list = <<>> /\ e = 0
  OBVIOUS
<1>2. r = perform_application(t, consumer, e, one, list, interrupted)
  BY <1>1 DEF call_with_values, push
<1>3. Ready(q, 0)
  BY <1>1, Dropped
<1>4. Plain(<<val>>) /\ Len(<<val>>) = 1
  BY Plain1
<1>5. /\ Good(q, q.env, 0) /\ Top(q) \in Nat /\ Top(q) <= Limit
      /\ Limit \in Int /\ LastCell = Limit + 30 /\ q.overrun = FALSE
  BY <1>3, ReadyTop
<1>6. PICK cells : cells = <<val>>
  OBVIOUS
<1>7. /\ Good(t, q.env, 0 + Len(cells)) /\ SameBut(q, t) /\ Extends(q, t, cells)
      /\ q.overrun = FALSE /\ Top(q) + Len(cells) <= LastCell => t.overrun = FALSE
  BY <1>1, <1>4, <1>5, <1>6, PushPlain
<1>8. Good(t, t.env, one) /\ t.overrun = FALSE /\ Top(t) = Top(q) + 1 /\ t.used = q.used /\ t.room = q.room
  BY <1>1, <1>4, <1>5, <1>6, <1>7 DEF SameBut, Extends
<1>9. /\ Good(s, s.env, one) /\ Top(s) \in Nat /\ Affordable(s.used, s.room, Top(s)) /\ one \in Nat
  BY <1>1, ReadyTop
<1>10. Top(q) = Top(s) - 1 /\ q.used = s.used /\ q.room = s.room
  <2>1. one \in 0 .. one
    BY <1>1
  <2>2. SameBut(s, q) /\ Top(q) = Top(s) - one
    BY <1>1, <1>9, <2>1, GoodRemove
  <2>3. QED
    BY <1>1, <2>2 DEF SameBut
<1>11. Affordable(t.used, t.room, Top(t))
  <2>1. Top(t) = Top(s)
    BY <1>5, <1>8, <1>9, <1>10
  <2>2. QED
    BY <1>8, <1>9, <1>10, <2>1
<1>12. one <= MaxArgs /\ Few(TopArgs(t, one), one)
  BY <1>1, Sizes DEF Few
<1>13. Ready(t, one)
  BY <1>8, <1>11, <1>12 DEF Ready, Running
<1>14. Passed(list) /\ e \in Int /\ e <= 0 /\ consumer \in Procs
  BY <1>1, PassedLists
<1>15. QED
  BY <1>2, <1>12, <1>13, <1>14, Applied

LEMMA ReturnedValues ==
  ASSUME NEW s, NEW n, Ready(s, n), n <= MaxArgs, NEW list, Passed(list),
         NEW interrupted, NEW r, r = return_values(s, n, list, interrupted)
  PROVE  \E k : Ready(r, k)
<1>1. PICK t : t = CurrentTemplate(s)
  OBVIOUS
<1>2. Good(s, s.env, n) /\ s.overrun = FALSE /\ Affordable(s.used, s.room, Top(s)) /\ n \in Nat
  BY ReadyTop
<1>3. CASE t \in {"ignore", "interrupt"}
  <2>1. r = Returned(s)
    BY <1>1, <1>3 DEF return_values
  <2>2. HasCont(s)
    BY <1>1, <1>3 DEF CurrentTemplate
  <2>3. QED
    BY <1>2, <2>1, <2>2, Returns
<1>4. CASE t = "consumer"
  <2>1. PICK q, p, e : q = skip_current_continuation(s) /\ p = CurrentConsumer(s) /\ e = 0
    OBVIOUS
  <2>2. r = perform_application(q, p, e, n, list, interrupted)
    BY <1>1, <1>4, <2>1 DEF return_values
  <2>7. CurrentTemplate(s) = "consumer"
    BY <1>1, <1>4
  <2>8. HasCont(s) /\ CurrentConsumer(s) \in Procs
    BY <1>2, <2>7, ConsumerKnown
  <2>3. HasCont(s) /\ p \in Procs /\ e \in Int /\ e <= 0
    BY <2>1, <2>8
  <2>4. Good(q, q.env, n) /\ Top(q) = Top(s) /\ SameAccount(s, q)
    BY <1>2, <2>1, <2>3, Skipped
  <2>5. Ready(q, n)
    BY <1>2, <2>4 DEF SameAccount, Ready, Running, Few
  <2>6. QED
    BY <2>2, <2>3, <2>5, Applied
<1>5. CASE t \notin {"ignore", "interrupt", "consumer"}
  <2>1. PICK q, reasons : /\ q = remove_stack_arguments(s, n)
                          /\ reasons = <<Info("false"), List(pop_args_to_list(s, n, list))>>
    OBVIOUS
  <2>2. r = raise_exception(q, reasons, interrupted)
    BY <1>1, <1>5, <2>1 DEF return_values
  <2>3. Ready(q, 0)
    BY <2>1, Dropped
  <2>4. Plain(reasons) /\ Len(reasons) <= 16
    BY <2>1, TwoReasons, PlainFields
  <2>5. QED
    BY <2>2, <2>3, <2>4, RaisedRuns
<1>6. QED
  BY <1>3, <1>4, <1>5

LEMMA Continued ==
  ASSUME NEW s, NEW n, Ready(s, n), NEW k, SafeConts(k), NEW p, p \in Procs, Accepts(p, 0),
         NEW e, e \in Int, e <= 0, NEW q, q = set_current_continuation(s, k), NEW interrupted,
         NEW r, r = perform_application(q, p, e, 0, <<>>, interrupted)
  PROVE  \E j : Ready(r, j)
<1>1. Good(s, s.env, n) /\ s.overrun = FALSE
  BY ReadyTop
<1>2. Limit \in Int /\ LastCell = Limit + 30 /\ Limit >= 5 /\ MaxArgs \in Nat
  BY Sizes
<1>3. /\ \E v : Good(q, v, 0)
      /\ Top(q) + 3 <= LastCell /\ q.overrun = FALSE
  <2>1. CASE k = <<>>
    <3>1. q = reset_stack_pointer(s, k)
      BY <2>1 DEF set_current_continuation
    <3>2. PICK v : v = 0
      OBVIOUS
    <3>3. v \in Int /\ v <= 0
      BY <3>2
    <3>4. Good(q, v, 0) /\ Top(q) = 5 /\ SameAccount(s, q)
      BY <1>1, <3>1, <3>3, Reset
    <3>5. QED
      BY <1>1, <1>2, <3>4 DEF SameAccount
  <2>2. CASE k # <<>>
    <3>1. q = copy_continuation_from_heap(s, k)
      BY <2>2 DEF set_current_continuation
    <3>2. Good(q, Head(k).env, 0) /\ Top(q) <= Limit + 9 /\ q.overrun = FALSE
      BY <1>1, <2>2, <3>1, Fetched
    <3>3. Top(q) \in Nat
      BY <3>2, TopOnly
    <3>4. QED
      BY <1>2, <3>2, <3>3
  <2>3. QED
    BY <2>1, <2>2
<1>4. PICK zero, list : zero = 0 /\ list = <<>>
  OBVIOUS
<1>5. /\ Passed(list) /\ zero + Len(list) = 0 /\ zero <= MaxArgs
      /\ r = perform_application(q, p, e, zero, list, interrupted)
  BY <1>2, <1>4, PassedLists, Plain0
<1>6. PICK c : c = Calling(q, p, e, zero, list)
  OBVIOUS
<1>7. r = Perform(c, interrupted)
  BY <1>5, <1>6 DEF perform_application
<1>8. c.s = q /\ c.p = p /\ c.e = e /\ c.nargs = zero /\ c.list = list
  BY <1>6 DEF Calling
<1>9. PICK v : Good(q, v, zero)
  BY <1>3, <1>4
<1>10. CanStart(q, v, p, zero, list)
  BY <1>3, <1>4, <1>5, <1>9 DEF CanStart
<1>11. CanCall(c)
  BY <1>8, <1>10 DEF CanCall
<1>12. QED
  BY <1>7, <1>11, Performed

-----------------------------------------------------------------------------
(* What a state keeps of an instruction's result.                          *)

LEMMA NoEnvs ==
  ASSUME NEW s, Machine(s), NEW e \in Int, e <= 0
  PROVE  StackEnvs(s, e) = {}
<1> DEFINE next == [x \in Headers(s, "environment") |-> env_parent(s, x)]
           chain == Descent(next, e)
<1>1. e \notin DOMAIN next
  BY DEF Headers
<1>2. chain = <<>>
  BY <1>1 DEF Descent
<1>3. DOMAIN chain = {}
  BY <1>2
<1>4. StackEnvs(s, e) = {chain[i] : i \in DOMAIN chain}
  BY DEF StackEnvs
<1>5. QED
  BY <1>3, <1>4

\* The environments that a register or continuation with env leads to.
LEMMA Leads ==
  ASSUME NEW s, Machine(s), NEW K, NEW E, Sound(s, K, E), NEW e \in Int, e > 0 => e \in E,
         NEW C, C = StackEnvs(s, e)
  PROVE  /\ C \subseteq E /\ (e > 0 => e \in C)
         /\ \A x \in C : EnvAbove(s, x) > 0 => EnvAbove(s, x) \in C
         /\ EnvCells(s, e) = UNION {EnvLow(s, x) .. x : x \in C}
         /\ trace_env(s, e) = UNION {EnvLow(s, x) .. x : x \in C}
<1>1. /\ C \subseteq E /\ (e > 0 => e \in C)
      /\ \A x \in C : EnvAbove(s, x) > 0 => EnvAbove(s, x) \in C
  <2>1. CASE e > 0
    BY <2>1, EnvsChain
  <2>2. CASE ~(e > 0)
    BY <2>2, NoEnvs
  <2>3. QED
    BY <2>1, <2>2
<1>2. \A x \in C : x - 1 - EnvSize(s, x) = EnvLow(s, x)
  BY <1>1, Numbers DEF EnvSize, EnvLow
<1>3. EnvCells(s, e) = UNION {EnvLow(s, x) .. x : x \in C}
  BY <1>2 DEF EnvCells
<1>4. trace_env(s, e) = UNION {EnvLow(s, x) .. x : x \in C}
  BY DEF trace_env, EnvLow
<1>5. QED
  BY <1>1, <1>3, <1>4

\* The cells that the machine can come to, with E the environments in use.
Live(s, K, E, n) ==
  1 .. bottom \cup (Top(s) - n + 1) .. Top(s)
    \cup (UNION {EnvLow(s, e) .. e : e \in E}) \cup (UNION {ContLow(s, c) .. c : c \in K})

InUse(s, K) == StackEnvs(s, s.env) \cup UNION {StackEnvs(s, EnvOf(s, c)) : c \in K}

LEMMA LiveIs ==
  ASSUME NEW s, Machine(s), NEW K, NEW E, Sound(s, K, E), s.env \in Int, s.env > 0 => s.env \in E,
         NEW n, arguments_on_stack(s) = n
  PROVE  LiveCells(s) = Live(s, K, InUse(s, K), n)
<1> DEFINE cs == StackConts(s, s.cont)
           EnvC(e) == UNION {EnvLow(s, x) .. x : x \in StackEnvs(s, e)}
<1>1. s.cont \in K /\ \A c \in K : c <= s.cont
  BY DEF Sound, Conts
<1>2. /\ \A i \in 1 .. Len(cs) : cs[i] \in K
      /\ \A c \in K : \E i \in 1 .. Len(cs) : cs[i] = c
      /\ IsSeq(cs)
  <2>1. Conts(s, K) /\ cs = StackConts(s, s.cont)
    BY DEF Sound
  <2> HIDE DEF cs
  <2>2. QED
    BY <1>1, <2>1, ContsChain
<1>3. DOMAIN cs = 1 .. Len(cs)
  BY <1>2, SeqFacts
<1>4. \A c \in K : EnvOf(s, c) \in Int /\ (EnvOf(s, c) > 0 => EnvOf(s, c) \in E)
  BY DEF Sound, Conts, References, Refers
<1>5. EnvCells(s, s.env) = EnvC(s.env)
  BY Leads
<1>6. \A c \in K : EnvCells(s, EnvOf(s, c)) = EnvC(EnvOf(s, c))
  BY <1>4, Leads
<1>7. \A c \in K : ContCells(s, c) = ContLow(s, c) .. c
  BY DEF ContCells, ContLow
<1> HIDE DEF cs, EnvC
<1>8. UNION {ContCells(s, cs[i]) \cup EnvCells(s, EnvOf(s, cs[i])) : i \in DOMAIN cs}
        = (UNION {ContLow(s, c) .. c : c \in K}) \cup (UNION {EnvC(EnvOf(s, c)) : c \in K})
  <2> DEFINE Low(c) == ContLow(s, c) .. c
             Its(c) == EnvC(EnvOf(s, c))
             Cells(i) == ContCells(s, cs[i]) \cup EnvCells(s, EnvOf(s, cs[i]))
  <2>1. \A i \in DOMAIN cs : cs[i] \in K
    BY <1>2, <1>3
  <2>2. \A c \in K : \E i \in DOMAIN cs : cs[i] = c
    BY <1>2, <1>3
  <2>3. \A i \in DOMAIN cs : Cells(i) = Low(cs[i]) \cup Its(cs[i])
    BY <1>6, <1>7, <2>1
  <2> HIDE DEF Low, Its, Cells
  <2>4. UNION {Cells(i) : i \in DOMAIN cs} = UNION {Low(c) \cup Its(c) : c \in K}
    <3>1. {Cells(i) : i \in DOMAIN cs} = {Low(c) \cup Its(c) : c \in K}
      BY <2>1, <2>2, <2>3
    <3>2. QED
      BY <3>1
  <2>5. UNION {Low(c) \cup Its(c) : c \in K} = (UNION {Low(c) : c \in K}) \cup (UNION {Its(c) : c \in K})
    <3>1. \A x : x \in UNION {Low(c) \cup Its(c) : c \in K} <=> \E c \in K : x \in Low(c) \/ x \in Its(c)
      OBVIOUS
    <3>2. \A x : x \in UNION {Low(c) : c \in K} <=> \E c \in K : x \in Low(c)
      OBVIOUS
    <3>3. \A x : x \in UNION {Its(c) : c \in K} <=> \E c \in K : x \in Its(c)
      OBVIOUS
    <3>4. QED
      BY <3>1, <3>2, <3>3
  <2>6. QED
    BY <2>4, <2>5 DEF Low, Its, Cells
<1>9. UNION {EnvLow(s, e) .. e : e \in InUse(s, K)}
        = EnvC(s.env) \cup UNION {EnvC(EnvOf(s, c)) : c \in K}
  BY DEF InUse, EnvC
<1> DEFINE A == 1 .. bottom
           B == (Top(s) - n + 1) .. Top(s)
           C == EnvCells(s, s.env)
           F == UNION {ContLow(s, c) .. c : c \in K}
           G == UNION {EnvC(EnvOf(s, c)) : c \in K}
           H == UNION {EnvLow(s, e) .. e : e \in InUse(s, K)}
           W == UNION {ContCells(s, cs[i]) \cup EnvCells(s, EnvOf(s, cs[i])) : i \in DOMAIN cs}
<1>10. LiveCells(s) = A \cup B \cup C \cup W
  BY DEF LiveCells, cs
<1>11. Live(s, K, InUse(s, K), n) = A \cup B \cup H \cup F
  BY DEF Live
<1>12. W = F \cup G
  BY <1>8
<1>13. H = C \cup G
  BY <1>5, <1>9
<1> HIDE DEF A, B, C, F, G, H, W
<1>15. QED
  BY <1>10, <1>11, <1>12, <1>13

\* Where a continuation's arguments or those on the stack begin can still be seen.
LEMMA DeadCells ==
  ASSUME NEW cell
  PROVE  /\ IsHeader(DeadCell(cell)) <=> IsHeader(cell)
         /\ DeadCell(cell) = argument_limit_marker <=> cell = argument_limit_marker
<1>1. IsHeader(argument_limit_marker) /\ argument_limit_marker.header = "limit"
  BY DEF IsHeader, argument_limit_marker
<1>2. CASE ~IsHeader(cell)
  <2>1. DeadCell(cell) = Info("dead") /\ ~IsHeader(Info("dead"))
    BY <1>2, PlainFields DEF DeadCell
  <2>2. QED
    BY <1>1, <1>2, <2>1
<1>3. CASE cell = argument_limit_marker
  BY <1>1, <1>3 DEF DeadCell
<1>4. CASE IsHeader(cell) /\ cell # argument_limit_marker
  <2>1. DeadCell(cell) = [header |-> "dead", size |-> 0, id |-> 0]
    BY <1>4 DEF DeadCell
  <2>2. IsHeader(DeadCell(cell)) /\ DeadCell(cell).header = "dead"
    BY <2>1 DEF IsHeader
  <2>3. QED
    BY <1>1, <1>4, <2>2
<1>5. QED
  BY <1>2, <1>3, <1>4

LEMMA BeginsStays ==
  ASSUME NEW s, NEW r, NEW x \in Nat, x >= 2,
         \A i \in 1 .. x : r.stack[i] = s.stack[i] \/ r.stack[i] = DeadCell(s.stack[i]),
         Begins(s.stack, x)
  PROVE  Begins(r.stack, x)
<1>1. x \in 1 .. x /\ x - 1 \in 1 .. x
  OBVIOUS
<1>2. /\ r.stack[x] = s.stack[x] \/ r.stack[x] = DeadCell(s.stack[x])
      /\ r.stack[x - 1] = s.stack[x - 1] \/ r.stack[x - 1] = DeadCell(s.stack[x - 1])
  BY <1>1
<1>3. IsHeader(r.stack[x]) <=> IsHeader(s.stack[x])
  BY <1>2, DeadCells
<1>4. r.stack[x] = argument_limit_marker <=> s.stack[x] = argument_limit_marker
  BY <1>2, DeadCells
<1>5. r.stack[x - 1] = argument_limit_marker <=> s.stack[x - 1] = argument_limit_marker
  BY <1>2, DeadCells
<1>6. QED
  BY <1>3, <1>4, <1>5 DEF Begins

\* Nothing that is used is lost.
LEMMA Forgotten ==
  ASSUME NEW s, NEW n, Ready(s, n), NEW ids, NEW r, r = Forget(s, ids)
  PROVE  Ready(r, n) /\ TopArgs(r, n) = TopArgs(s, n)
<1>1. /\ Good(s, s.env, n) /\ Machine(s) /\ n \in Nat /\ Top(s) \in Nat /\ n <= Top(s) /\ Top(s) - n >= 5
      /\ Affordable(s.used, s.room, Top(s)) /\ s.overrun = FALSE /\ Few(TopArgs(s, n), n) /\ s.env \in Int
  BY ReadyTop
<1>2. SafeHeap(s.heap) /\ SafeConts(HeapConts(s)) /\ ArgsIn(s.stack, Top(s), n) /\ bottom = 5
  BY <1>1, TopOnly
<1>3. PICK K, E : Sound(s, K, E) /\ Refers(s, K, E, Top(s) + 1, s.env)
  BY <1>1 DEF Good
<1>4. PICK U : U = InUse(s, K)
  OBVIOUS
<1>5. PICK live : live = Live(s, K, U, n)
  OBVIOUS
<1>6. LiveCells(s) = live
  <2>1. s.env > 0 => s.env \in E
    BY <1>3 DEF Refers
  <2>2. arguments_on_stack(s) = n
    BY <1>1, <1>2, ArgumentCount
  <2>3. QED
    BY <1>1, <1>3, <1>4, <1>5, <2>1, <2>2, LiveIs
<1>7. DOMAIN s.stack = 1 .. Top(s) /\ Top(s) = Len(s.stack) /\ IsSeq(s.stack)
  BY <1>1, SeqFacts, TopNat DEF Machine
<1>8. /\ r \in [stack : {r.stack}, env : {r.env}, cont : {r.cont}, heap : {r.heap},
               used : {r.used}, room : {r.room}, overrun : {r.overrun}]
      /\ r.env = s.env /\ r.cont = s.cont /\ r.used = s.used /\ r.room = s.room /\ r.overrun = s.overrun
  BY <1>1 DEF Forget, Machine
<1>9. r.stack = [i \in 1 .. Top(s) |-> IF i \in live THEN s.stack[i] ELSE DeadCell(s.stack[i])]
  BY <1>1, <1>6, <1>7 DEF Forget, Machine
<1>10. r.heap = [id \in DOMAIN s.heap \cap ids |-> s.heap[id]]
  BY <1>1 DEF Forget, Machine
<1>11. \A i \in 1 .. Top(s) : /\ i \in live => r.stack[i] = s.stack[i]
                              /\ r.stack[i] = s.stack[i] \/ r.stack[i] = DeadCell(s.stack[i])
  BY <1>9
<1>12. Machine(r) /\ Top(r) = Top(s)
  <2>1. r.stack = [i \in 1 .. Top(s) |-> r.stack[i]]
    BY <1>9
  <2>2. IsSeq(r.stack) /\ Len(r.stack) = Top(s)
    BY <1>1, <2>1, SeqBy
  <2>3. QED
    BY <1>1, <1>8, <2>2 DEF Machine, Top
<1>13. SafeHeap(r.heap)
  <2>1. IsFiniteSet(DOMAIN s.heap \cap ids)
    BY <1>2, FS_Subset DEF SafeHeap
  <2>2. DOMAIN r.heap = DOMAIN s.heap \cap ids /\ \A id \in DOMAIN r.heap : id \in DOMAIN s.heap /\ r.heap[id] = s.heap[id]
    BY <1>10
  <2>3. QED
    BY <1>2, <2>1, <2>2 DEF SafeHeap
<1>14. \A i \in 1 .. 5 : i \in live
  BY <1>2, <1>5 DEF Live
<1>15. HeapConts(r) = HeapConts(s)
  <2>1. 4 \in 1 .. Top(s) /\ 4 \in live
    BY <1>1, <1>14
  <2>2. QED
    BY <1>2, <1>11, <2>1 DEF HeapConts
<1>16. \A i \in Top(s) - n + 1 .. Top(s) : r.stack[i] = s.stack[i]
  <2>1. \A i \in Top(s) - n + 1 .. Top(s) : i \in 1 .. Top(s) /\ i \in live
    BY <1>1, <1>5 DEF Live
  <2>2. QED
    BY <1>11, <2>1
<1>17. TopArgs(r, n) = TopArgs(s, n)
  <2>1. /\ IsSeq(TopArgs(s, n)) /\ Len(TopArgs(s, n)) = n
        /\ \A i \in 1 .. n : TopArgs(s, n)[i] = s.stack[Top(s) - n + i]
    BY <1>1, TopArgsAre
  <2>2. /\ IsSeq(TopArgs(r, n)) /\ Len(TopArgs(r, n)) = n
        /\ \A i \in 1 .. n : TopArgs(r, n)[i] = r.stack[Top(s) - n + i]
    BY <1>1, <1>12, TopArgsAre
  <2>3. \A i \in 1 .. n : Top(s) - n + i \in Top(s) - n + 1 .. Top(s)
    BY <1>1
  <2>4. \A i \in 1 .. n : TopArgs(r, n)[i] = TopArgs(s, n)[i]
    BY <1>16, <2>1, <2>2, <2>3
  <2>5. /\ TopArgs(s, n) = [i \in 1 .. n |-> TopArgs(s, n)[i]]
        /\ TopArgs(r, n) = [i \in 1 .. n |-> TopArgs(r, n)[i]]
    BY <2>1, <2>2, SeqFacts
  <2>6. QED
    BY <2>4, <2>5
<1>18. ArgsIn(r.stack, Top(r), n)
  <2>1. Begins(r.stack, Top(s) - n)
    <3>1. PICK x : x = Top(s) - n
      OBVIOUS
    <3>2. x \in Nat /\ x >= 2 /\ \A i \in 1 .. x : i \in 1 .. Top(s)
      BY <1>1, <3>1
    <3>3. Begins(s.stack, x)
      BY <1>2, <3>1 DEF ArgsIn
    <3>4. \A i \in 1 .. x : r.stack[i] = s.stack[i] \/ r.stack[i] = DeadCell(s.stack[i])
      BY <1>11, <3>2
    <3>5. QED
      BY <3>1, <3>2, <3>3, <3>4, BeginsStays
  <2>2. QED
    BY <1>2, <1>12, <1>16, <2>1 DEF ArgsIn
<1>19. \A e \in Int : (e > 0 => e \in E) =>
          /\ StackEnvs(s, e) \subseteq E /\ (e > 0 => e \in StackEnvs(s, e))
          /\ \A x \in StackEnvs(s, e) : EnvAbove(s, x) > 0 => EnvAbove(s, x) \in StackEnvs(s, e)
  BY <1>1, <1>3, Leads
<1>20. \A c \in K : EnvOf(s, c) \in Int /\ (EnvOf(s, c) > 0 => EnvOf(s, c) \in E)
  BY <1>3 DEF Sound, Conts, References, Refers
<1>21. s.env > 0 => s.env \in E
  BY <1>3 DEF Refers
<1>22. /\ U \subseteq E
       /\ \A x \in U : EnvAbove(s, x) > 0 => EnvAbove(s, x) \in U
       /\ s.env > 0 => s.env \in U
       /\ \A c \in K : EnvOf(s, c) > 0 => EnvOf(s, c) \in U
  BY <1>1, <1>4, <1>19, <1>20, <1>21 DEF InUse
<1>23. /\ \A c \in K : /\ s.stack[c].size \in Nat /\ ContLow(s, c) \in Int /\ ContLow(s, c) <= c - 4
                       /\ c \in Int /\ c <= Top(s) /\ c >= 5
       /\ \A c \in K \ {bottom} : ContLow(s, c) > 5 /\ c > 5
       /\ \A e \in E : /\ EnvLow(s, e) \in Int /\ EnvLow(s, e) <= e - 1
                       /\ e \in Int /\ e <= Top(s) /\ e > 5 /\ EnvLow(s, e) > 5
  BY <1>1, <1>3, Numbers
<1>24. ASSUME NEW c \in K, NEW i \in ContLow(s, c) .. c PROVE r.stack[i] = s.stack[i]
  <2>1. i \in live
    BY <1>5 DEF Live
  <2>2. i \in 1 .. Top(s)
    <3>4. ContLow(s, c) \in Int /\ c \in Int /\ c <= Top(s)
      BY <1>23
    <3>1. CASE c = bottom
      <4>1. s.stack[bottom].size = 0
        BY <1>3 DEF Sound, Conts
      <4>2. ContLow(s, c) = 1
        BY <1>2, <3>1, <4>1 DEF ContLow
      <4>3. QED
        BY <1>1, <3>4, <4>2
    <3>2. CASE c # bottom
      <4>1. ContLow(s, c) > 5
        BY <1>23, <3>2
      <4>2. QED
        BY <1>1, <3>4, <4>1
    <3>3. QED
      BY <3>1, <3>2
  <2>3. QED
    BY <1>11, <2>1, <2>2
<1>25. ASSUME NEW e \in U, NEW i \in EnvLow(s, e) .. e PROVE r.stack[i] = s.stack[i]
  <2>1. i \in live
    BY <1>5 DEF Live
  <2>2. i \in 1 .. Top(s)
    <3>1. EnvLow(s, e) \in Int /\ e \in Int /\ e <= Top(s) /\ EnvLow(s, e) > 5
      BY <1>22, <1>23
    <3>2. QED
      BY <1>1, <3>1
  <2>3. QED
    BY <1>11, <2>1, <2>2
<1>26. \A c \in K : r.stack[c] = s.stack[c] /\ r.stack[c - 4] = s.stack[c - 4] /\ EnvOf(r, c) = EnvOf(s, c)
  <2>1. \A c \in K : c \in ContLow(s, c) .. c /\ c - 4 \in ContLow(s, c) .. c
    BY <1>23
  <2>2. QED
    BY <1>24, <2>1 DEF EnvOf
<1>27. \A e \in U : r.stack[e] = s.stack[e] /\ r.stack[e - 1] = s.stack[e - 1] /\ EnvAbove(r, e) = EnvAbove(s, e)
  <2>1. \A e \in U : e \in EnvLow(s, e) .. e /\ e - 1 \in EnvLow(s, e) .. e
    BY <1>22, <1>23
  <2>2. QED
    BY <1>25, <2>1 DEF EnvAbove
<1>28. ASSUME NEW y, NEW x, Refers(s, K, E, y, x), x > 0 => x \in U PROVE Refers(r, K, U, y, x)
  BY <1>22, <1>26, <1>28 DEF Refers
<1>29. References(r, K, U)
  <2>1. \A c \in K : Refers(r, K, U, c, EnvOf(s, c))
    BY <1>3, <1>22, <1>28 DEF Sound, References
  <2>2. \A e \in U : Refers(r, K, U, e, EnvAbove(s, e))
    BY <1>3, <1>22, <1>28 DEF Sound, References
  <2>3. QED
    BY <1>26, <1>27, <2>1, <2>2 DEF References
<1>30. Sound(r, K, U)
  <2>1. \A c \in K : r.stack[c] = s.stack[c] /\ EnvOf(r, c) \in Int
    BY <1>20, <1>26
  <2>2. ASSUME NEW c \in K \ {bottom}
        PROVE  /\ r.stack[c - 1] = s.stack[c - 1] /\ r.stack[c - 2] = s.stack[c - 2]
               /\ r.stack[c - 3] = s.stack[c - 3]
               /\ \A i \in ContLow(s, c) .. c - 5 : r.stack[i] = s.stack[i]
               /\ Begins(r.stack, ContLow(s, c) - 1)
    <3>1. /\ c - 1 \in ContLow(s, c) .. c /\ c - 2 \in ContLow(s, c) .. c /\ c - 3 \in ContLow(s, c) .. c
          /\ \A i \in ContLow(s, c) .. c - 5 : i \in ContLow(s, c) .. c
      BY <1>23
    <3>2. Boundary(s, K, E, ContLow(s, c) - 1)
      BY <1>1, <1>3, Boundaries
    <3>3. PICK x : x = ContLow(s, c) - 1
      OBVIOUS
    <3>4. x \in Nat /\ x >= 2 /\ \A i \in 1 .. x : i \in 1 .. Top(s)
      <4>1. ContLow(s, c) \in Int /\ c \in Int /\ c <= Top(s) /\ ContLow(s, c) <= c - 4 /\ ContLow(s, c) > 5
        BY <1>23
      <4>2. QED
        BY <1>1, <3>3, <4>1
    <3>5. Begins(s.stack, x)
      BY <3>2, <3>3 DEF Boundary
    <3>6. \A i \in 1 .. x : r.stack[i] = s.stack[i] \/ r.stack[i] = DeadCell(s.stack[i])
      BY <1>11, <3>4
    <3>7. Begins(r.stack, x)
      BY <3>4, <3>5, <3>6, BeginsStays
    <3>8. QED
      BY <1>24, <3>1, <3>3, <3>7
  <2>3. ASSUME NEW e \in U
        PROVE  /\ r.stack[e] = s.stack[e] /\ r.stack[e - 1] = s.stack[e - 1]
               /\ \A i \in EnvLow(s, e) .. e - 2 : ~IsHeader(r.stack[i])
    <3>1. \A i \in EnvLow(s, e) .. e - 2 : i \in EnvLow(s, e) .. e
      BY <1>22, <1>23
    <3>2. \A i \in EnvLow(s, e) .. e - 2 : ~IsHeader(s.stack[i])
      BY <1>3, <1>22 DEF Sound, Envs
    <3>3. \A i \in EnvLow(s, e) .. e - 2 : ~IsHeader(r.stack[i])
      BY <1>25, <3>1, <3>2
    <3>4. QED
      BY <1>27, <3>3
  <2>4. r.cont = s.cont /\ U \in SUBSET E
    BY <1>8, <1>22
  <2>5. QED
    BY <1>1, <1>3, <1>12, <1>29, <2>1, <2>2, <2>3, <2>4, Reshaped
<1>31. Refers(r, K, U, Top(r) + 1, r.env)
  BY <1>3, <1>8, <1>12, <1>22, <1>28
<1>32. Good(r, r.env, n)
  BY <1>1, <1>2, <1>8, <1>12, <1>13, <1>15, <1>18, <1>30, <1>31 DEF Good
<1>33. QED
  BY <1>1, <1>8, <1>12, <1>17, <1>32 DEF Ready, Running

-----------------------------------------------------------------------------
(* The invariant, and how the instructions keep it.                        *)

IInv ==
  /\ Ready(m, nargs) /\ Args = TopArgs(m, nargs)
  /\ \A e \in closed : e \in Int /\ ~within_stack(e)
  /\ \A k \in caught : SafeConts(k)

LEMMA Becomes ==
  ASSUME NEW s, NEW n, Ready(s, n), NEW cl, \A e \in cl : e \in Int /\ ~within_stack(e),
         NEW ca, \A k \in ca : SafeConts(k), Become(s, cl, ca)
  PROVE  IInv'
<1>1. PICK v : v = ViewOf(s, cl, ca)
  OBVIOUS
<1>2. /\ view' = v /\ m' = Forget(s, LiveIds(v)) /\ closed' = cl /\ caught' = ca
  BY <1>1 DEF Become
<1>3. PICK r, ids : r = Forget(s, ids) /\ m' = r
  BY <1>2
<1>4. Ready(r, n) /\ TopArgs(r, n) = TopArgs(s, n)
  BY <1>3, Forgotten
<1>5. Machine(s) /\ n \in Nat /\ n <= Top(s) /\ ArgsIn(s.stack, Top(s), n)
  BY ReadyTop, TopOnly
<1>6. v.args = TopArgs(s, n)
  <2>1. arguments_on_stack(s) = n
    BY <1>5, ArgumentCount
  <2>2. v.args = TopArgs(s, arguments_on_stack(s))
    BY <1>1 DEF ViewOf
  <2>3. QED
    BY <2>1, <2>2
<1>7. Len(v.args) = n
  BY <1>5, <1>6, TopArgsAre
<1>8. nargs' = n /\ Args' = v.args
  BY <1>2, <1>7 DEF nargs, Args
<1>9. QED
  BY <1>2, <1>3, <1>4, <1>6, <1>8 DEF IInv

\* Most instructions keep what the program has kept.
LEMMA Steps ==
  ASSUME IInv, NEW s, NEW n, Ready(s, n), Step(s)
  PROVE  IInv'
<1>1. /\ \A e \in closed : e \in Int /\ ~within_stack(e)
      /\ \A k \in caught : SafeConts(k)
  BY DEF IInv
<1>2. Become(s, closed, caught)
  BY DEF Step
<1>3. QED
  BY <1>1, <1>2, Becomes

LEMMA StateFacts ==
  ASSUME IInv
  PROVE  /\ Good(m, m.env, nargs) /\ Machine(m) /\ nargs \in Nat /\ Top(m) \in Nat /\ nargs <= Top(m)
         /\ Top(m) - nargs >= 5 /\ Affordable(m.used, m.room, Top(m)) /\ m.used \in Int /\ m.room \in Int
         /\ Top(m) <= Limit /\ Limit \in Int /\ LastCell \in Int /\ LastCell = Limit + 30
         /\ m.overrun = FALSE /\ m.env \in Int
<1>1. Ready(m, nargs)
  BY DEF IInv
<1>2. QED
  BY <1>1, ReadyTop

LEMMA FewData ==
  ASSUME IInv, OnlyData
  PROVE  /\ nargs <= MaxArgs
         /\ \A i \in 1 .. nargs : \E p \in Procs : TopArgs(m, nargs)[i] = Value(p)
<1>1. Ready(m, nargs) /\ Args = TopArgs(m, nargs)
  BY DEF IInv
<1>2. IsSeq(Args) /\ Len(Args) = nargs
  BY <1>1, StateFacts, TopArgsAre
<1>3. DOMAIN Args = 1 .. nargs
  BY <1>2, SeqFacts
<1>4. \A i \in 1 .. nargs : \E p \in Procs : Args[i] = Value(p)
  BY <1>3 DEF OnlyData
<1>5. \A i \in 1 .. nargs : "proc" \in DOMAIN Args[i]
  <2>1. \A p : "proc" \in DOMAIN Value(p)
    BY DEF Value
  <2>2. QED
    BY <1>4, <2>1
<1>6. Few(Args, nargs)
  BY <1>1 DEF Ready, Running
<1>7. nargs <= MaxArgs
  BY <1>5, <1>6 DEF Few
<1>8. QED
  BY <1>1, <1>4, <1>7

\* Counting the cells that it takes, an instruction goes on.
LEMMA Counted ==
  ASSUME IInv, NEW r, NEW n, Good(r, r.env, n), NEW k \in Nat, k <= 5, MayUse(k), Top(r) <= Top(m) + k,
         r.used = m.used, r.room = m.room, r.overrun = FALSE, Few(TopArgs(r, n), n),
         NEW q, q = Using(r, k)
  PROVE  Ready(q, n)
<1>1. Machine(r) /\ Top(r) \in Nat
  BY TopOnly
<1>2. /\ Machine(q) /\ q.stack = r.stack /\ q.cont = r.cont /\ q.heap = r.heap /\ q.env = r.env
      /\ q.used = r.used + k /\ q.room = r.room /\ q.overrun = r.overrun
  BY <1>1 DEF Using, Machine
<1>3. Good(q, q.env, n)
  <2>1. q.env \in Int /\ (q.env = r.env \/ ~within_stack(q.env))
    BY <1>2, TopOnly
  <2>2. QED
    BY <1>2, <2>1, GoodSame
<1>4. Top(q) = Top(r) /\ TopArgs(q, n) = TopArgs(r, n)
  BY <1>2 DEF Top, TopArgs
<1>5. Affordable(q.used, q.room, Top(q))
  <2>1. /\ m.used \in Int /\ m.room \in Int /\ Top(m) \in Nat /\ Limit \in Int
        /\ Top(m) + m.room - m.used <= Limit
    BY StateFacts DEF Affordable
  <2>2. m.used + k <= m.room
    BY DEF MayUse
  <2>3. QED
    BY <1>1, <1>2, <1>4, <2>1, <2>2 DEF Affordable
<1>6. QED
  BY <1>2, <1>3, <1>4, <1>5 DEF Ready, Running

LEMMA PushStep ==
  ASSUME IInv, NEW v, ~IsHeader(v), PushValue(v)
  PROVE  IInv'
<1>1. OnlyData /\ nargs < MaxArgs /\ MayUse(1) /\ Step(Using(push(m, v), 1))
  BY DEF PushValue
<1>2. /\ Good(m, m.env, nargs) /\ nargs \in Nat /\ Top(m) \in Nat /\ Top(m) <= Limit /\ Limit \in Int
      /\ LastCell = Limit + 30 /\ m.overrun = FALSE
  BY StateFacts
<1>3. PICK cells, r, n, one, q : /\ cells = <<v>> /\ r = push_all(m, cells) /\ n = nargs + 1 /\ one = 1
                                 /\ q = Using(r, one)
  OBVIOUS
<1>4. Plain(cells) /\ Len(cells) = 1
  BY <1>3, Plain1
<1>5. /\ Good(r, m.env, nargs + Len(cells)) /\ SameBut(m, r) /\ Extends(m, r, cells)
      /\ m.overrun = FALSE /\ Top(m) + Len(cells) <= LastCell => r.overrun = FALSE
  BY <1>2, <1>3, <1>4, PushPlain
<1>6. /\ Good(r, r.env, n) /\ Top(r) <= Top(m) + one /\ r.used = m.used /\ r.room = m.room /\ r.overrun = FALSE
      /\ one \in Nat /\ one <= 5 /\ n <= MaxArgs
  BY <1>1, <1>2, <1>3, <1>4, <1>5, Sizes DEF SameBut, Extends
<1>7. Few(TopArgs(r, n), n)
  BY <1>6 DEF Few
<1>8. MayUse(one)
  BY <1>1, <1>3
<1>9. Ready(q, n)
  BY <1>3, <1>6, <1>7, <1>8, Counted
<1>10. Step(q)
  BY <1>1, <1>3 DEF push
<1>11. QED
  BY <1>9, <1>10, Steps

LEMMA NewIdNat == ASSUME IInv PROVE NewId \in Nat
<1> DEFINE headers == {j \in 1 .. Top(m) : IsHeader(m.stack[j])}
           hids == {m.stack[i].id : i \in headers}
           ids == DOMAIN m.heap \cup hids
<1>1. Top(m) \in Nat /\ SafeHeap(m.heap)
  BY StateFacts, TopOnly
<1>2. IsFiniteSet(headers)
  <2>1. IsFiniteSet(1 .. Top(m)) /\ headers \subseteq 1 .. Top(m)
    BY <1>1, FS_Interval
  <2>2. QED
    BY <2>1, FS_Subset
<1>3. IsFiniteSet(hids)
  <2> DEFINE f == [i \in headers |-> m.stack[i].id]
  <2>1. f \in Surjection(headers, hids)
    BY DEF Surjection
  <2> HIDE DEF f, headers, hids
  <2>2. QED
    BY <1>2, <2>1, FS_Surjection
<1>4. IsFiniteSet(ids)
  BY <1>1, <1>3, FS_Union DEF SafeHeap
<1> HIDE DEF ids
<1>5. PICK c : c = Cardinality(ids)
  OBVIOUS
<1>6. c \in Nat
  BY <1>4, <1>5, FS_CardinalityType
<1>7. \E id \in 1 .. c + 1 : id \notin ids
  <2>1. SUFFICES ASSUME 1 .. c + 1 \subseteq ids PROVE FALSE
    OBVIOUS
  <2>2. IsFiniteSet(1 .. c + 1) /\ Cardinality(1 .. c + 1) = c + 1
    <3>1. 1 \in Int /\ c + 1 \in Int /\ 1 <= c + 1 /\ (c + 1) - 1 + 1 = c + 1
      BY <1>6
    <3>2. PICK d : d = c + 1
      OBVIOUS
    <3>3. d \in Int /\ 1 <= d /\ d - 1 + 1 = d
      BY <1>6, <3>2
    <3>4. IsFiniteSet(1 .. d) /\ Cardinality(1 .. d) = IF 1 > d THEN 0 ELSE d - 1 + 1
      BY <3>3, FS_Interval
    <3>5. QED
      BY <3>2, <3>3, <3>4
  <2>3. Cardinality(1 .. c + 1) <= Cardinality(ids)
    BY <1>4, <2>1, FS_Subset
  <2>4. QED
    BY <1>5, <1>6, <2>2, <2>3
<1>8. NewId = CHOOSE id \in 1 .. c + 1 : id \notin ids
  BY <1>5 DEF NewId, ids
<1>9. NewId \in 1 .. c + 1
  BY <1>7, <1>8
<1>10. QED
  BY <1>6, <1>9

LEMMA MakeEnvStep == ASSUME IInv, MakeEnv PROVE IInv'
<1>1. OnlyData /\ MayUse(2) /\ Step(Using(pop_args_into_env(m, nargs, NewId), 2))
  BY DEF MakeEnv
<1>2. /\ Good(m, m.env, nargs) /\ Top(m) \in Nat /\ Top(m) <= Limit /\ Limit \in Int
      /\ LastCell = Limit + 30 /\ m.overrun = FALSE
  BY StateFacts
<1>3. PICK n, id, r, two, zero, q :
        /\ n = nargs /\ id = NewId /\ r = pop_args_into_env(m, n, id) /\ two = 2 /\ zero = 0
        /\ q = Using(r, two)
  OBVIOUS
<1>4. id \in Nat
  BY <1>3, NewIdNat
<1>5. /\ Good(r, r.env, 0) /\ Top(r) = Top(m) + 2 /\ r.used = m.used /\ r.room = m.room
      /\ r.overrun = (m.overrun \/ Top(m) + 2 > LastCell)
  BY <1>2, <1>3, <1>4, MadeEnv
<1>6. ~(Top(m) + 2 > LastCell)
  BY <1>2
<1>7. r.overrun = FALSE
  BY <1>2, <1>5, <1>6
<1>8. Few(TopArgs(r, zero), zero) /\ Good(r, r.env, zero) /\ Top(r) <= Top(m) + two /\ two \in Nat /\ two <= 5
  BY <1>2, <1>3, <1>5, Sizes DEF Few
<1>9. MayUse(two) /\ Step(q)
  BY <1>1, <1>3
<1>10. Ready(q, zero)
  BY <1>3, <1>5, <1>7, <1>8, <1>9, Counted
<1>11. QED
  BY <1>9, <1>10, Steps

LEMMA MakeContStep ==
  ASSUME IInv, NEW kind \in {"plain", "ignore", "consumer"}, MakeCont(kind)
  PROVE  IInv'
<1>1. /\ OnlyData /\ MayUse(5) /\ (kind = "consumer" => nargs = 1)
      /\ Step(Using(push_continuation(m, kind, nargs), 5))
  BY DEF MakeCont, continuation_stack_size
<1>2. /\ Good(m, m.env, nargs) /\ Machine(m) /\ nargs \in Nat /\ Top(m) \in Nat /\ nargs <= Top(m)
      /\ Affordable(m.used, m.room, Top(m)) /\ Top(m) <= Limit /\ Limit \in Int
      /\ LastCell = Limit + 30 /\ m.overrun = FALSE /\ ArgsIn(m.stack, Top(m), nargs)
  BY StateFacts, TopOnly
<1>3. PICK n, r, five, zero, q :
        /\ n = nargs /\ r = push_continuation(m, kind, n) /\ five = 5 /\ zero = 0
        /\ q = Using(r, five)
  OBVIOUS
<1> DEFINE args == TopArgs(m, n)
           pc == <<m.used, m.room>>
<1>4. /\ IsSeq(args) /\ Len(args) = n /\ \A i \in 1 .. n : args[i] = m.stack[Top(m) - n + i]
  BY <1>2, <1>3, TopArgsAre
<1>5. n <= MaxArgs /\ \A i \in 1 .. n : \E p \in Procs : args[i] = Value(p)
  BY <1>1, <1>3, FewData
<1> HIDE DEF args
<1>6. Frame(args, kind, pc, Top(m) - n)
  <2>1. Extra(kind) = 0 /\ Account(args, kind, pc) = pc
    BY DEF Extra, Account
  <2>2. \A i \in 1 .. n : ~IsHeader(args[i])
    BY <1>5, PlainFields
  <2>3. Affordable(pc[1], pc[2], Top(m) - n + n - 0)
    <3>1. Top(m) - n + n - 0 = Top(m)
      BY <1>2, <1>3
    <3>2. QED
      BY <1>2, <3>1
  <2>4. kind = "consumer" => n = 1 /\ args[1].proc \in Procs
    <3>1. SUFFICES ASSUME kind = "consumer" PROVE n = 1 /\ args[1].proc \in Procs
      OBVIOUS
    <3>2. n = 1 /\ 1 \in 1 .. n
      BY <1>1, <1>3, <3>1
    <3>3. PICK p \in Procs : args[1] = Value(p)
      BY <1>5, <3>2
    <3>4. QED
      BY <3>2, <3>3 DEF Value
  <2>5. Few(args, n - 0) /\ n >= 0 /\ n - 0 = n
    BY <1>2, <1>3, <1>5 DEF Few
  <2>6. QED
    BY <1>4, <2>1, <2>2, <2>3, <2>4, <2>5 DEF Frame
<1>7. Good(m, m.env, n) /\ Frame(TopArgs(m, n), kind, <<m.used, m.room>>, Top(m) - n)
  BY <1>2, <1>3, <1>6 DEF args
<1>8. /\ Good(r, r.env, 0) /\ Top(r) = Top(m) + 5 /\ r.used = m.used /\ r.room = m.room
      /\ r.overrun = (m.overrun \/ Top(m) + 5 > LastCell)
  BY <1>3, <1>7, PushedCont
<1>9. ~(Top(m) + 5 > LastCell)
  BY <1>2
<1>10. r.overrun = FALSE
  BY <1>2, <1>8, <1>9
<1>11. Few(TopArgs(r, zero), zero) /\ Good(r, r.env, zero) /\ Top(r) <= Top(m) + five /\ five \in Nat /\ five <= 5
  BY <1>2, <1>3, <1>8, Sizes DEF Few
<1>12. MayUse(five) /\ Step(q)
  BY <1>1, <1>3
<1>13. Ready(q, zero)
  BY <1>3, <1>8, <1>10, <1>11, <1>12, Counted
<1>14. QED
  BY <1>12, <1>13, Steps

-----------------------------------------------------------------------------
(* Variables.                                                              *)

LEMMA EnvBack ==
  ASSUME NEW s, NEW e
  PROVE  /\ env_back(s, e, 0) = e
         /\ \A n \in 1 .. MaxChain : env_back(s, e, n) = env_parent(s, env_back(s, e, n - 1))
<1> DEFINE N == MaxChain
           Solves(f, n) == f = [i \in 0 .. n |-> IF i = 0 THEN e ELSE env_parent(s, f[i - 1])]
           D == {n \in 0 .. N : \E f : Solves(f, n)}
           d == CHOOSE f : Solves(f, N)
<1>1. N \in Nat
  BY StackAssumption
<1>2. 0 \in D
  <2> DEFINE g == [i \in 0 .. 0 |-> e]
  <2>1. \A i \in 0 .. 0 : i = 0
    OBVIOUS
  <2>2. Solves(g, 0)
    BY <2>1
  <2>3. \E f : Solves(f, 0)
    <3> HIDE DEF Solves, g
    <3>1. QED
      BY <2>2
  <2>4. QED
    <3> HIDE DEF Solves
    <3>1. QED
      BY <1>1, <2>3
<1>3. ASSUME NEW n \in 1 .. N, n - 1 \in D PROVE n \in D
  <2>1. PICK f : Solves(f, n - 1)
    BY <1>3
  <2>2. \A i \in 0 .. n - 1 : f[i] = IF i = 0 THEN e ELSE env_parent(s, f[i - 1])
    BY <2>1
  <2> DEFINE g == [i \in 0 .. n |-> IF i = 0 THEN e ELSE env_parent(s, f[i - 1])]
  <2>3. \A i \in 0 .. n - 1 : g[i] = f[i]
    <3>1. \A i \in 0 .. n - 1 : g[i] = IF i = 0 THEN e ELSE env_parent(s, f[i - 1])
      BY <1>1
    <3> HIDE DEF g
    <3>2. QED
      BY <2>2, <3>1
  <2>4. \A i \in 0 .. n : i # 0 => i - 1 \in 0 .. n - 1
    BY <1>1
  <2>5. Solves(g, n)
    BY <2>3, <2>4
  <2>6. \E h : Solves(h, n)
    <3> HIDE DEF Solves, g
    <3>1. QED
      BY <2>5
  <2>7. n \in 0 .. N
    BY <1>1
  <2>8. QED
    <3> HIDE DEF Solves
    <3>1. QED
      BY <2>6, <2>7
<1>4. 0 .. N \subseteq D
  <2> HIDE DEF D
  <2>1. QED
    BY <1>1, <1>2, <1>3, InductionTo
<1>5. Solves(d, N)
  <2>1. N \in D
    <3> HIDE DEF D
    <3>1. QED
      BY <1>1, <1>4
  <2> HIDE DEF Solves
  <2>2. \E f : Solves(f, N)
    BY <2>1
  <2>3. QED
    BY <2>2
<1>6. \A n : env_back(s, e, n) = d[n]
  BY DEF env_back
<1> HIDE DEF d
<1>7. \A i \in 0 .. N : d[i] = IF i = 0 THEN e ELSE env_parent(s, d[i - 1])
  BY <1>5
<1>8. 0 \in 0 .. N /\ \A n \in 1 .. N : n \in 0 .. N /\ n # 0
  BY <1>1
<1>9. QED
  BY <1>6, <1>7, <1>8

\* The instruction that counts through the environments comes to one.
LEMMA FoundEnv ==
  ASSUME IInv, NEW K, NEW E, Sound(m, K, E), Refers(m, K, E, Top(m) + 1, m.env),
         NEW back \in 1 .. MaxChain, Reaches(back), NEW e, e = Environment(back)
  PROVE  e \in Int /\ (e > 0 => e \in E) /\ (e <= 0 => -e \in DOMAIN m.heap)
<1> DEFINE at(i) == env_back(m, m.env, i)
           OK(x) == x \in Int /\ (x > 0 => x \in E)
           D == {i \in 0 .. back - 1 : OK(at(i))}
<1>1. MaxChain \in Nat /\ back - 1 \in Nat
  BY StackAssumption
<1>2. m.env \in Int /\ SafeHeap(m.heap)
  BY StateFacts, TopOnly
<1>3. \A b \in 1 .. back : IsEnv(m, at(b - 1))
  BY DEF Reaches, Environment
<1>4. at(0) = m.env
  BY EnvBack
<1>5. \A n \in 1 .. MaxChain : at(n) = env_parent(m, at(n - 1))
  BY EnvBack
<1> HIDE DEF at
<1>6. OK(at(0))
  BY <1>2, <1>4 DEF Refers
<1>7. ASSUME NEW i \in 1 .. back - 1, OK(at(i - 1)) PROVE OK(at(i))
  <2>1. PICK x : x = at(i - 1)
    OBVIOUS
  <2>2. i \in 1 .. MaxChain /\ i \in 1 .. back
    BY <1>1
  <2>3. at(i) = env_parent(m, x) /\ IsEnv(m, x) /\ x \in Int /\ (x > 0 => x \in E)
    BY <1>3, <1>5, <1>7, <2>1, <2>2
  <2>4. CASE x > 0
    <3>1. at(i) = EnvAbove(m, x)
      BY <2>3, <2>4 DEF env_parent, within_stack, EnvAbove
    <3>2. EnvAbove(m, x) \in Int /\ Refers(m, K, E, x, EnvAbove(m, x))
      BY <2>3, <2>4 DEF Sound, Envs, References
    <3>3. QED
      BY <3>1, <3>2 DEF Refers
  <2>5. CASE ~(x > 0)
    <3>1. at(i) = m.heap[-x].parent /\ -x \in DOMAIN m.heap
      BY <2>3, <2>5 DEF env_parent, within_stack, IsEnv
    <3>2. at(i) \in Int /\ ~(at(i) > 0)
      BY <1>2, <3>1 DEF SafeHeap, within_stack
    <3>3. QED
      BY <3>2
  <2>6. QED
    BY <2>4, <2>5
<1>8. 0 .. back - 1 \subseteq D
  <2>1. 0 \in D
    BY <1>1, <1>6
  <2>2. \A i \in 1 .. back - 1 : i - 1 \in D => i \in D
    <3> HIDE DEF OK
    <3>1. QED
      BY <1>1, <1>7
  <2> HIDE DEF D
  <2>3. QED
    BY <1>1, <2>1, <2>2, InductionTo
<1>9. e = at(back - 1) /\ back \in 1 .. back
  BY DEF Environment, at
<1>10. OK(e) /\ IsEnv(m, e)
  BY <1>1, <1>3, <1>8, <1>9
<1>11. QED
  BY <1>10 DEF IsEnv, within_stack

LEMMA LocalStep ==
  ASSUME IInv, NEW back \in 1 .. MaxChain, Reaches(back),
         NEW i, i \in Slots(Environment(back)), Local(back, i)
  PROVE  IInv'
<1>1. PICK e : e = Environment(back)
  OBVIOUS
<1>2. Good(m, m.env, nargs) /\ Machine(m) /\ SafeHeap(m.heap)
  BY StateFacts, TopOnly
<1>3. PICK K, E : Sound(m, K, E) /\ Refers(m, K, E, Top(m) + 1, m.env)
  BY <1>2 DEF Good
<1>4. e \in Int /\ (e > 0 => e \in E) /\ (e <= 0 => -e \in DOMAIN m.heap)
  BY <1>1, <1>3, FoundEnv
<1>5. i \in Slots(e)
  BY <1>1
<1>6. ~IsHeader(env_ref(m, e, i))
  <2>1. CASE e > 0
    <3>1. env_ref(m, e, i) = m.stack[e - 1 - i] /\ i \in 1 .. EnvSize(m, e)
      BY <1>5, <2>1 DEF env_ref, Slots, within_stack
    <3>2. /\ EnvLow(m, e) \in Int /\ m.stack[e].size \in Nat /\ EnvLow(m, e) = e - m.stack[e].size
          /\ EnvSize(m, e) = m.stack[e].size - 1
          /\ \A j \in EnvLow(m, e) .. e - 2 : ~IsHeader(m.stack[j])
      BY <1>2, <1>3, <1>4, <2>1, Numbers DEF Sound, Envs, EnvLow, EnvSize
    <3>3. e - 1 - i \in EnvLow(m, e) .. e - 2
      BY <1>4, <3>1, <3>2
    <3>4. QED
      BY <3>1, <3>2, <3>3
  <2>2. CASE ~(e > 0)
    <3>1. PICK vals : vals = m.heap[-e].vals
      OBVIOUS
    <3>2. env_ref(m, e, i) = vals[Len(vals) - i + 1] /\ i \in 1 .. Len(vals)
      BY <1>5, <2>2, <3>1 DEF env_ref, Slots, within_stack
    <3>3. IsSeq(vals) /\ \A j \in 1 .. Len(vals) : ~IsHeader(vals[j])
      BY <1>2, <1>4, <2>2, <3>1 DEF SafeHeap
    <3>4. Len(vals) \in Nat
      BY <3>3, SeqFacts
    <3>5. Len(vals) - i + 1 \in 1 .. Len(vals)
      BY <3>2, <3>4
    <3>6. QED
      BY <3>2, <3>3, <3>5
  <2>3. QED
    BY <2>1, <2>2
<1>7. PICK v : v = env_ref(m, e, i)
  OBVIOUS
<1>8. PushValue(v)
  BY <1>1, <1>7 DEF Local
<1>9. QED
  BY <1>6, <1>7, <1>8, PushStep

-----------------------------------------------------------------------------
(* Assignment.                                                             *)

SameTop(s, r, n) == \A i \in Top(s) - n + 1 .. Top(s) : r.stack[i] = s.stack[i]

CellsStay(s, r, K, E) ==
  /\ \A c \in K : r.stack[c] = s.stack[c] /\ EnvOf(r, c) \in Int
  /\ \A c \in K \ {bottom} :
       /\ r.stack[c - 1] = s.stack[c - 1] /\ r.stack[c - 2] = s.stack[c - 2]
       /\ r.stack[c - 3] = s.stack[c - 3]
       /\ \A i \in ContLow(s, c) .. c - 5 : r.stack[i] = s.stack[i]
       /\ Begins(r.stack, ContLow(s, c) - 1)
  /\ \A e \in E : /\ r.stack[e] = s.stack[e] /\ r.stack[e - 1] = s.stack[e - 1]
                   /\ \A i \in EnvLow(s, e) .. e - 2 : ~IsHeader(r.stack[i])

LEMMA StaysSound ==
  ASSUME NEW s, Machine(s), NEW K, NEW E, Sound(s, K, E),
         NEW r, Machine(r), Top(r) = Top(s), r.cont = s.cont, CellsStay(s, r, K, E), References(r, K, E)
  PROVE  Sound(r, K, E)
<1>1. E \in SUBSET E
  OBVIOUS
<1>2. QED
  BY <1>1, Reshaped DEF CellsStay

LEMMA FewSame ==
  ASSUME NEW s, Machine(s), NEW n \in Nat, n <= Top(s), NEW r, Machine(r), Top(r) = Top(s),
         SameTop(s, r, n), Few(TopArgs(s, n), n)
  PROVE  Few(TopArgs(r, n), n)
<1>1. Top(s) \in Nat /\ n <= Top(r)
  BY TopNat
<1>2. \A i \in 1 .. n : TopArgs(s, n)[i] = s.stack[Top(s) - n + i]
  BY TopArgsAre
<1>3. \A i \in 1 .. n : TopArgs(r, n)[i] = r.stack[Top(r) - n + i]
  BY <1>1, TopArgsAre
<1>4. \A i \in 1 .. n : Top(s) - n + i \in Top(s) - n + 1 .. Top(s)
  BY <1>1
<1>5. \A i \in 1 .. n : TopArgs(r, n)[i] = TopArgs(s, n)[i]
  BY <1>2, <1>3, <1>4 DEF SameTop
<1>6. QED
  BY <1>5 DEF Few

LEMMA AssignedOnStack ==
  ASSUME NEW s, NEW n, Ready(s, n), NEW K, NEW E, Sound(s, K, E), Refers(s, K, E, Top(s) + 1, s.env),
         NEW e \in E, NEW j \in EnvLow(s, e) .. e - 2, NEW v, ~IsHeader(v),
         NEW r, r = [s EXCEPT !.stack[j] = v]
  PROVE  Ready(r, n)
<1>1. /\ Good(s, s.env, n) /\ Machine(s) /\ n \in Nat /\ Top(s) \in Nat /\ n <= Top(s) /\ Top(s) - n >= 5
      /\ Affordable(s.used, s.room, Top(s)) /\ s.overrun = FALSE /\ Few(TopArgs(s, n), n) /\ s.env \in Int
  BY ReadyTop
<1>2. SafeHeap(s.heap) /\ SafeConts(HeapConts(s)) /\ ArgsIn(s.stack, Top(s), n) /\ bottom = 5
  BY <1>1, TopOnly
<1>3. DOMAIN s.stack = 1 .. Top(s) /\ Top(s) = Len(s.stack) /\ IsSeq(s.stack)
  BY <1>1, SeqFacts, TopNat DEF Machine
<1>4. /\ \A c \in K : /\ s.stack[c].size \in Nat /\ ContLow(s, c) \in Int /\ ContLow(s, c) <= c - 4
                      /\ c \in Int /\ c <= Top(s) /\ c >= 5
      /\ \A c \in K \ {bottom} : ContLow(s, c) > 5 /\ c > 5
      /\ \A x \in E : /\ EnvLow(s, x) \in Int /\ EnvLow(s, x) <= x - 1
                      /\ x \in Int /\ x <= Top(s) /\ x > 5 /\ EnvLow(s, x) > 5
  BY <1>1, Numbers
<1>5. j \in Int /\ j > 5 /\ j <= e - 2 /\ j >= EnvLow(s, e) /\ j \in 1 .. Top(s) /\ e <= Top(s) - n
  <2>1. e <= Top(s) - n
    BY <1>1, <1>2, BelowArgs
  <2>2. EnvLow(s, e) \in Int /\ e \in Int /\ e <= Top(s) /\ EnvLow(s, e) > 5
    BY <1>4
  <2>3. QED
    BY <1>1, <2>1, <2>2
<1>6. /\ r \in [stack : {r.stack}, env : {r.env}, cont : {r.cont}, heap : {r.heap},
               used : {r.used}, room : {r.room}, overrun : {r.overrun}]
      /\ r.env = s.env /\ r.cont = s.cont /\ r.used = s.used /\ r.room = s.room /\ r.overrun = s.overrun
      /\ r.heap = s.heap /\ r.stack = [s.stack EXCEPT ![j] = v]
  BY <1>1 DEF Machine
<1>7. /\ DOMAIN r.stack = 1 .. Top(s) /\ r.stack[j] = v
      /\ \A i \in 1 .. Top(s) : i # j => r.stack[i] = s.stack[i]
      /\ r.stack = [i \in 1 .. Top(s) |-> r.stack[i]]
  BY <1>3, <1>5, <1>6
<1>8. Machine(r) /\ Top(r) = Top(s)
  <2>1. IsSeq(r.stack) /\ Len(r.stack) = Top(s)
    BY <1>1, <1>7, SeqBy
  <2>2. QED
    BY <1>1, <1>6, <2>1 DEF Machine, Top
<1>9. ASSUME NEW x, Boundary(s, K, E, x), x <= Top(s) PROVE Begins(r.stack, x)
  <2>1. x \in Int /\ x >= 5 /\ Begins(s.stack, x) /\ (x < EnvLow(s, e) \/ e <= x)
    BY <1>2, <1>9 DEF Boundary
  <2>2. x # j /\ x - 1 # j /\ x \in 1 .. Top(s) /\ x - 1 \in 1 .. Top(s)
    BY <1>1, <1>4, <1>5, <1>9, <2>1
  <2>3. r.stack[x] = s.stack[x] /\ r.stack[x - 1] = s.stack[x - 1]
    BY <1>7, <2>2
  <2>4. QED
    BY <2>1, <2>3 DEF Begins
<1>10. /\ Boundary(s, K, E, Top(s) - n)
       /\ \A c \in K \ {bottom} : Boundary(s, K, E, ContLow(s, c) - 1)
  BY <1>1, <1>2, Boundaries
<1>11. ASSUME NEW c \in K, NEW i \in ContLow(s, c) .. c PROVE r.stack[i] = s.stack[i] /\ i \in 1 .. Top(s)
  <2>1. /\ c < e => c < EnvLow(s, e)
        /\ e < c => e < ContLow(s, c)
    BY DEF Sound, Apart
  <2>2. c \in Int /\ ContLow(s, c) \in Int
    BY <1>4
  <2>3. i \in 1 .. Top(s)
    BY <1>1, ContCellsApart
  <2>4. c # e
    <3>1. s.stack[c].header = "continuation" /\ s.stack[e].header = "environment"
      BY DEF Sound, Conts, Envs, IsEnvironment
    <3>2. QED
      BY <3>1
  <2>5. e \in Int
    BY <1>4
  <2>6. i # j
    <3>1. EnvLow(s, e) \in Int
      BY <1>4
    <3>2. CASE c < e
      BY <1>5, <2>1, <2>2, <2>5, <3>1, <3>2
    <3>3. CASE e < c
      BY <1>5, <2>1, <2>2, <2>5, <3>1, <3>3
    <3>4. QED
      BY <2>2, <2>4, <2>5, <3>2, <3>3
  <2>7. QED
    BY <1>7, <2>3, <2>6
<1>12. \A c \in K : /\ r.stack[c] = s.stack[c] /\ r.stack[c - 4] = s.stack[c - 4] /\ EnvOf(r, c) = EnvOf(s, c)
  <2>1. \A c \in K : c \in ContLow(s, c) .. c /\ c - 4 \in ContLow(s, c) .. c
    BY <1>4
  <2>2. QED
    BY <1>11, <2>1 DEF EnvOf
<1>13. ASSUME NEW x \in E
       PROVE  /\ r.stack[x] = s.stack[x] /\ r.stack[x - 1] = s.stack[x - 1] /\ EnvAbove(r, x) = EnvAbove(s, x)
              /\ \A i \in EnvLow(s, x) .. x - 2 : ~IsHeader(r.stack[i])
  <2>1. x \in Int /\ x <= Top(s) /\ x > 5 /\ EnvLow(s, x) \in Int /\ EnvLow(s, x) > 5 /\ EnvLow(s, e) \in Int /\ e \in Int
    BY <1>4
  <2>2. (x < e => x < EnvLow(s, e)) /\ (e < x => e < EnvLow(s, x))
    BY DEF Sound, Apart
  <2>3. x # j /\ x - 1 # j /\ x \in 1 .. Top(s) /\ x - 1 \in 1 .. Top(s)
    BY <1>1, <1>4, <1>5, <2>1, <2>2
  <2>4. r.stack[x] = s.stack[x] /\ r.stack[x - 1] = s.stack[x - 1]
    BY <1>7, <2>3
  <2>5. ASSUME NEW i \in EnvLow(s, x) .. x - 2 PROVE ~IsHeader(r.stack[i])
    <3>1. ~IsHeader(s.stack[i])
      BY DEF Sound, Envs
    <3>2. i \in 1 .. Top(s)
      BY <1>1, <2>1
    <3>3. QED
      BY <1>7, <3>1, <3>2
  <2>6. QED
    BY <2>4, <2>5 DEF EnvAbove
<1>14. ASSUME NEW y, NEW x, Refers(s, K, E, y, x) PROVE Refers(r, K, E, y, x)
  BY <1>12, <1>14 DEF Refers
<1>15. References(r, K, E)
  <2>1. \A c \in K : Refers(r, K, E, c, EnvOf(s, c))
    BY <1>14 DEF Sound, References
  <2>2. \A x \in E : Refers(r, K, E, x, EnvAbove(s, x))
    BY <1>14 DEF Sound, References
  <2>3. QED
    BY <1>12, <1>13, <2>1, <2>2 DEF References
<1>16. Sound(r, K, E)
  <2>1. \A c \in K : r.stack[c] = s.stack[c] /\ EnvOf(r, c) \in Int
    BY <1>12 DEF Sound, Conts
  <2>2. ASSUME NEW c \in K \ {bottom}
        PROVE  /\ r.stack[c - 1] = s.stack[c - 1] /\ r.stack[c - 2] = s.stack[c - 2]
               /\ r.stack[c - 3] = s.stack[c - 3]
               /\ \A i \in ContLow(s, c) .. c - 5 : r.stack[i] = s.stack[i]
               /\ Begins(r.stack, ContLow(s, c) - 1)
    <3>1. /\ c - 1 \in ContLow(s, c) .. c /\ c - 2 \in ContLow(s, c) .. c /\ c - 3 \in ContLow(s, c) .. c
          /\ \A i \in ContLow(s, c) .. c - 5 : i \in ContLow(s, c) .. c
      BY <1>4
    <3>2. Boundary(s, K, E, ContLow(s, c) - 1)
      BY <1>10
    <3>3. ContLow(s, c) - 1 <= Top(s)
      <4>1. c \in Int /\ ContLow(s, c) \in Int /\ ContLow(s, c) <= c - 4 /\ c <= Top(s)
        BY <1>4
      <4>2. QED
        BY <1>1, <4>1
    <3>4. Begins(r.stack, ContLow(s, c) - 1)
      BY <1>9, <3>2, <3>3
    <3>5. QED
      BY <1>11, <3>1, <3>4
  <2>3. E \in SUBSET E /\ r.cont = s.cont
    BY <1>6
  <2>4. \A x \in E : /\ r.stack[x] = s.stack[x] /\ r.stack[x - 1] = s.stack[x - 1]
                     /\ \A i \in EnvLow(s, x) .. x - 2 : ~IsHeader(r.stack[i])
    BY <1>13
  <2>5. QED
    <3>1. Machine(s) /\ Machine(r) /\ Top(r) = Top(s)
      BY <1>1, <1>8
    <3>2. CellsStay(s, r, K, E)
      BY <2>1, <2>2, <2>4 DEF CellsStay
    <3>3. QED
      BY <1>15, <2>3, <3>1, <3>2, StaysSound, Zenon
<1>17. HeapConts(r) = HeapConts(s)
  <2>1. 4 \in 1 .. Top(s) /\ 4 # j
    BY <1>1, <1>5
  <2>2. QED
    BY <1>2, <1>7, <2>1 DEF HeapConts
<1>18. \A i \in Top(s) - n + 1 .. Top(s) : r.stack[i] = s.stack[i]
  <2>1. e \in Int
    BY <1>4
  <2>2. \A i \in Top(s) - n + 1 .. Top(s) : i \in 1 .. Top(s) /\ i # j
    BY <1>1, <1>5, <2>1
  <2>3. QED
    BY <1>7, <2>2
<1>19. ArgsIn(r.stack, Top(r), n)
  <2>1. Begins(r.stack, Top(s) - n)
    <3>1. Top(s) - n <= Top(s)
      BY <1>1
    <3>2. QED
      BY <1>9, <1>10, <3>1
  <2>2. QED
    BY <1>2, <1>8, <1>18, <2>1 DEF ArgsIn
<1>20. Few(TopArgs(r, n), n)
  <2>1. Top(r) = Top(s) /\ Machine(r) /\ n \in Nat /\ n <= Top(s)
    BY <1>1, <1>8
  <2>2. SameTop(s, r, n)
    BY <1>18 DEF SameTop
  <2>3. QED
    BY <1>1, <2>1, <2>2, FewSame, Zenon
<1>21. Refers(r, K, E, Top(r) + 1, r.env)
  BY <1>6, <1>8, <1>14
<1>22. Good(r, r.env, n)
  BY <1>1, <1>2, <1>6, <1>8, <1>16, <1>17, <1>19, <1>21 DEF Good
<1>23. QED
  BY <1>1, <1>6, <1>8, <1>20, <1>22 DEF Ready, Running

LEMMA SoundSame ==
  ASSUME NEW s, NEW K, NEW E, Sound(s, K, E), NEW x, Refers(s, K, E, Top(s) + 1, x),
         NEW r, r.stack = s.stack, r.cont = s.cont
  PROVE  Sound(r, K, E) /\ Refers(r, K, E, Top(r) + 1, x)
<1>1. Top(r) = Top(s)
  BY DEF Top
<1>2. Sound(r, K, E)
  BY <1>1 DEF Sound, Conts, Continuation, Envs, Apart, References, Refers, ContOf, EnvOf, ArgsOf,
              ContLow, EnvLow, EnvAbove
<1>3. QED
  BY <1>1, <1>2 DEF Refers, EnvOf

LEMMA AssignedInHeap ==
  ASSUME NEW s, NEW n, Ready(s, n), NEW id \in DOMAIN s.heap, NEW j \in 1 .. Len(s.heap[id].vals),
         NEW v, ~IsHeader(v), NEW r, r = [s EXCEPT !.heap[id].vals[j] = v]
  PROVE  Ready(r, n)
<1>1. /\ Good(s, s.env, n) /\ Machine(s) /\ Top(s) \in Nat /\ SafeHeap(s.heap)
      /\ Affordable(s.used, s.room, Top(s)) /\ s.overrun = FALSE /\ Few(TopArgs(s, n), n)
  BY ReadyTop, TopOnly
<1>2. /\ r \in [stack : {r.stack}, env : {r.env}, cont : {r.cont}, heap : {r.heap},
               used : {r.used}, room : {r.room}, overrun : {r.overrun}]
      /\ r.env = s.env /\ r.cont = s.cont /\ r.used = s.used /\ r.room = s.room /\ r.overrun = s.overrun
      /\ r.stack = s.stack /\ r.heap = [s.heap EXCEPT ![id].vals[j] = v]
  BY <1>1 DEF Machine
<1>3. Machine(r)
  BY <1>1, <1>2 DEF Machine
<1>4. /\ DOMAIN r.heap = DOMAIN s.heap
      /\ \A x \in DOMAIN s.heap : x # id => r.heap[x] = s.heap[x]
      /\ r.heap[id] = [s.heap[id] EXCEPT !.vals[j] = v]
  BY <1>2
<1>5. SafeHeap(r.heap)
  <2> DEFINE old == s.heap[id]
             vals == s.heap[id].vals
             new == [vals EXCEPT ![j] = v]
  <2>1. IsSeq(vals) /\ \A i \in 1 .. Len(vals) : ~IsHeader(vals[i])
    BY <1>1 DEF SafeHeap
  <2>2. DOMAIN vals = 1 .. Len(vals) /\ Len(vals) \in Nat
    BY <2>1, SeqFacts
  <2>3. new = [i \in 1 .. Len(vals) |-> new[i]] /\ \A i \in 1 .. Len(vals) : new[i] = IF i = j THEN v ELSE vals[i]
    BY <2>2
  <2>4. IsSeq(new) /\ Len(new) = Len(vals)
    <3> HIDE DEF vals, new
    <3>1. QED
      BY <2>2, <2>3, SeqBy
  <2>5. \A i \in 1 .. Len(new) : ~IsHeader(new[i])
    <3> HIDE DEF vals, new
    <3>1. QED
      BY <2>1, <2>3, <2>4
  <2>7. ASSUME NEW x \in DOMAIN s.heap
        PROVE  /\ r.heap[x].parent \in Int /\ ~within_stack(r.heap[x].parent)
               /\ IsSeq(r.heap[x].vals) /\ \A i \in 1 .. Len(r.heap[x].vals) : ~IsHeader(r.heap[x].vals[i])
    <3>1. s.heap[x].parent \in Int /\ ~within_stack(s.heap[x].parent)
          /\ IsSeq(s.heap[x].vals) /\ \A i \in 1 .. Len(s.heap[x].vals) : ~IsHeader(s.heap[x].vals[i])
      BY <1>1 DEF SafeHeap
    <3>2. CASE x # id
      BY <1>4, <3>1, <3>2
    <3>3. CASE x = id
      <4>1. "parent" \in DOMAIN old => r.heap[id].parent = old.parent
        BY <1>4
      <4>2. "vals" \in DOMAIN old => r.heap[id].vals = new
        BY <1>4
      <4>3. QED
        BY <2>4, <2>5, <3>1, <3>3, <4>1, <4>2
    <3>4. QED
      BY <3>2, <3>3
  <2>8. QED
    BY <1>1, <1>4, <2>7 DEF SafeHeap
<1>6. Good(r, r.env, n)
  <2>1. PICK K, E : Sound(s, K, E) /\ Refers(s, K, E, Top(s) + 1, s.env)
    BY <1>1 DEF Good
  <2>2. HeapConts(r) = HeapConts(s) /\ Top(r) = Top(s)
    BY <1>2 DEF HeapConts, Top
  <2>3. Sound(r, K, E)
    BY <1>2, <2>1, SoundSame, Zenon
  <2>4. Refers(r, K, E, Top(r) + 1, r.env)
    BY <1>2, <2>1, SoundSame, Zenon
  <2>5. SafeConts(HeapConts(r)) /\ ArgsIn(r.stack, Top(r), n) /\ r.env \in Int
    BY <1>1, <1>2, <2>2 DEF Good
  <2>6. QED
    BY <1>3, <1>5, <2>3, <2>4, <2>5 DEF Good
<1>7. QED
  BY <1>1, <1>2, <1>6 DEF Ready, Running, Top, TopArgs

LEMMA SetLocalStep ==
  ASSUME IInv, NEW back \in 1 .. MaxChain, Reaches(back),
         NEW i, i \in Slots(Environment(back)), NEW p, SetLocal(back, i, p)
  PROVE  IInv'
<1>1. PICK e, v, r : e = Environment(back) /\ v = Value(p) /\ r = env_set(m, e, i, v)
  OBVIOUS
<1>2. Ready(m, nargs) /\ Good(m, m.env, nargs) /\ Machine(m) /\ SafeHeap(m.heap)
  BY StateFacts, TopOnly DEF IInv
<1>3. PICK K, E : Sound(m, K, E) /\ Refers(m, K, E, Top(m) + 1, m.env)
  BY <1>2 DEF Good
<1>4. e \in Int /\ (e > 0 => e \in E) /\ (e <= 0 => -e \in DOMAIN m.heap)
  BY <1>1, <1>3, FoundEnv
<1>5. i \in Slots(e) /\ ~IsHeader(v) /\ Step(r)
  BY <1>1, PlainFields DEF SetLocal
<1>6. Ready(r, nargs)
  <2>1. CASE e > 0
    <3>1. PICK j : j = e - 1 - i
      OBVIOUS
    <3>2. r = [m EXCEPT !.stack[j] = v] /\ i \in 1 .. EnvSize(m, e)
      BY <1>1, <1>5, <2>1, <3>1 DEF env_set, Slots, within_stack
    <3>3. /\ EnvLow(m, e) \in Int /\ m.stack[e].size \in Nat /\ EnvLow(m, e) = e - m.stack[e].size
          /\ EnvSize(m, e) = m.stack[e].size - 1
      BY <1>2, <1>3, <1>4, <2>1, Numbers DEF Sound, Envs, EnvLow, EnvSize
    <3>4. j \in EnvLow(m, e) .. e - 2
      BY <1>4, <3>1, <3>2, <3>3
    <3>5. e \in E
      BY <1>4, <2>1
    <3>6. QED
      BY <1>2, <1>3, <1>5, <3>2, <3>4, <3>5, AssignedOnStack, Zenon
  <2>2. CASE ~(e > 0)
    <3>0. PICK id : id = -e
      OBVIOUS
    <3>a. PICK vals : vals = m.heap[id].vals
      OBVIOUS
    <3>b. PICK j : j = Len(vals) - i + 1
      OBVIOUS
    <3>1. vals = m.heap[id].vals /\ j = Len(vals) - i + 1
      BY <3>a, <3>b
    <3>2. r = [m EXCEPT !.heap[id].vals[j] = v] /\ i \in 1 .. Len(vals)
      BY <1>1, <1>5, <2>2, <3>0, <3>1 DEF env_set, Slots, within_stack
    <3>3. IsSeq(vals) /\ id \in DOMAIN m.heap
      BY <1>2, <1>4, <2>2, <3>0, <3>1 DEF SafeHeap
    <3>4. Len(vals) \in Nat
      BY <3>3, SeqFacts
    <3>c. j \in 1 .. Len(vals)
      BY <3>2, <3>4, <3>b
    <3>5. j \in 1 .. Len(m.heap[id].vals)
      BY <3>a, <3>c, Zenon
    <3>6. QED
      BY <1>2, <1>5, <3>2, <3>3, <3>5, AssignedInHeap, Zenon
  <2>3. QED
    BY <2>1, <2>2
<1>7. QED
  BY <1>5, <1>6, Steps

-----------------------------------------------------------------------------
(* Instructions that call, return and keep.                                *)

LEMMA SomeSteps ==
  ASSUME IInv, NEW s, \E n : Ready(s, n), Step(s)
  PROVE  IInv'
BY Steps

\* What is moved to the heap is not seen to move.
LEMMA StaysReady ==
  ASSUME NEW s, NEW n, Ready(s, n), NEW r, Machine(r), Top(r) = Top(s), SafeHeap(r.heap),
         SafeConts(HeapConts(r)), NEW K, NEW E, Sound(r, K, E), r.env \in Int, r.env <= 0,
         r.used = s.used, r.room = s.room, r.overrun = s.overrun,
         ArgsIn(r.stack, Top(s), n), SameTop(s, r, n)
  PROVE  Ready(r, n)
<1>1. /\ Machine(s) /\ n \in Nat /\ n <= Top(s) /\ Affordable(s.used, s.room, Top(s))
      /\ s.overrun = FALSE /\ Few(TopArgs(s, n), n)
  BY ReadyTop
<1>2. Few(TopArgs(r, n), n)
  BY <1>1, FewSame
<1>3. Refers(r, K, E, Top(r) + 1, r.env)
  BY DEF Refers
<1>4. Good(r, r.env, n)
  BY <1>3 DEF Good
<1>5. QED
  BY <1>1, <1>2, <1>4 DEF Ready, Running

LEMMA ClosureStep == ASSUME IInv, Closure PROVE IInv'
<1>1. PICK r : r = preserve_current_env(m) /\ Become(r, {r.env}, {})
  BY DEF Closure
<1>2. /\ Ready(m, nargs) /\ Good(m, m.env, nargs) /\ Machine(m) /\ SafeHeap(m.heap) /\ m.env \in Int
      /\ SafeConts(HeapConts(m)) /\ ArgsIn(m.stack, Top(m), nargs)
  BY StateFacts, TopOnly DEF IInv
<1>3. PICK K, E : Sound(m, K, E) /\ Refers(m, K, E, Top(m) + 1, m.env)
  BY <1>2 DEF Good
<1>4. Moved(m, r, K, E) /\ r.env \in Int /\ r.env <= 0
  BY <1>1, <1>2, <1>3, PreservedEnv
<1>5. PICK F : Sound(r, K, F)
  BY <1>4 DEF Moved
<1>6. /\ Machine(r) /\ Top(r) = Top(m) /\ SafeHeap(r.heap) /\ SafeConts(HeapConts(r))
      /\ r.used = m.used /\ r.room = m.room /\ r.overrun = m.overrun
      /\ ArgsIn(r.stack, Top(m), nargs) /\ SameTop(m, r, nargs)
  BY <1>2, <1>4 DEF Moved, SameTop
<1>7. Ready(r, nargs)
  BY <1>2, <1>4, <1>5, <1>6, StaysReady
<1>8. /\ \A e \in {r.env} : e \in Int /\ ~within_stack(e)
      /\ \A k \in {} : SafeConts(k)
  BY <1>4 DEF within_stack
<1>9. QED
  BY <1>1, <1>7, <1>8, Becomes

LEMMA CurrentContStep == ASSUME IInv, CurrentCont PROVE IInv'
<1>1. PICK r : r = preserve_continuation(m) /\ Become(r, {}, {HeapConts(r)})
  BY DEF CurrentCont
<1>2. /\ Ready(m, nargs) /\ Good(m, m.env, nargs) /\ Machine(m) /\ SafeHeap(m.heap) /\ m.env \in Int
      /\ SafeConts(HeapConts(m)) /\ ArgsIn(m.stack, Top(m), nargs)
  BY StateFacts, TopOnly DEF IInv
<1>3. PICK K, E : Sound(m, K, E) /\ Refers(m, K, E, Top(m) + 1, m.env)
  BY <1>2 DEF Good
<1>4. /\ Machine(r) /\ Top(r) = Top(m) /\ SafeHeap(r.heap) /\ SafeConts(HeapConts(r))
      /\ Sound(r, {bottom}, {}) /\ r.env \in Int /\ r.env <= 0
      /\ r.used = m.used /\ r.room = m.room /\ r.overrun = m.overrun
      /\ ArgsIn(r.stack, Top(m), nargs)
      /\ \A i \in Top(m) - nargs + 1 .. Top(m) : r.stack[i] = m.stack[i]
  BY <1>1, <1>2, <1>3, PreservedCont
<1>5. SameTop(m, r, nargs)
  BY <1>4 DEF SameTop
<1>6. PICK K2, E2 : Sound(r, K2, E2)
  BY <1>4
<1>7. Ready(r, nargs)
  BY <1>2, <1>4, <1>5, <1>6, StaysReady
<1>8. /\ \A e \in {} : e \in Int /\ ~within_stack(e)
      /\ \A k \in {HeapConts(r)} : SafeConts(k)
  BY <1>4
<1>9. QED
  BY <1>1, <1>7, <1>8, Becomes

LEMMA ReturnStep == ASSUME IInv, NEW p, NEW interrupted, Return(p, interrupted) PROVE IInv'
<1>1. PICK r : r = Returned(m)
  OBVIOUS
<1>2. HasCont(m) /\ Step(IF CurrentTemplate(m) = "consumer" THEN call_with_values(r, Value(p), interrupted) ELSE r)
  BY <1>1 DEF Return
<1>3. Good(m, m.env, nargs) /\ m.overrun = FALSE
  BY StateFacts
<1>4. PICK k : /\ Ready(r, k)
               /\ CurrentTemplate(m) = "consumer" => k = 1 /\ r.stack[Top(r)].proc \in Procs
  BY <1>1, <1>2, <1>3, Returns
<1>5. CASE CurrentTemplate(m) = "consumer"
  <2>1. PICK v, q : v = Value(p) /\ q = call_with_values(r, v, interrupted)
    OBVIOUS
  <2>2. ~IsHeader(v) /\ Ready(r, 1) /\ r.stack[Top(r)].proc \in Procs
    BY <1>4, <1>5, <2>1, PlainFields
  <2>3. \E n : Ready(q, n)
    BY <2>1, <2>2, CalledWithValues
  <2>4. QED
    BY <1>2, <1>5, <2>1, <2>3, SomeSteps
<1>6. CASE CurrentTemplate(m) # "consumer"
  BY <1>2, <1>4, <1>6, SomeSteps
<1>7. QED
  BY <1>5, <1>6

LEMMA ReturnValuesStep ==
  ASSUME IInv, NEW list \in Lists, NEW interrupted, ReturnValues(list, interrupted)
  PROVE  IInv'
<1>1. PICK r : r = return_values(m, nargs, list, interrupted)
  OBVIOUS
<1>2. OnlyData /\ Step(r)
  BY <1>1 DEF ReturnValues
<1>3. Ready(m, nargs) /\ nargs <= MaxArgs /\ Passed(list)
  BY <1>2, FewData, PassedLists DEF IInv
<1>4. \E n : Ready(r, n)
  BY <1>1, <1>3, ReturnedValues
<1>5. QED
  BY <1>2, <1>4, SomeSteps

LEMMA EnvironmentsSafe == ASSUME IInv, NEW e \in Environments PROVE e \in Int /\ e <= 0
BY DEF IInv, Environments, within_stack

LEMMA CallStep ==
  ASSUME IInv, NEW p \in Programs, NEW e \in Environments, NEW interrupted, Call(p, e, interrupted)
  PROVE  IInv'
<1>1. PICK r : r = call(m, p, e, nargs, interrupted)
  OBVIOUS
<1>2. OnlyData /\ Step(r)
  BY <1>1 DEF Call
<1>3. Ready(m, nargs) /\ nargs <= MaxArgs /\ p \in Procs
  BY <1>2, FewData DEF IInv, Programs
<1>4. e \in Int /\ e <= 0
  BY EnvironmentsSafe
<1>5. \E n : Ready(r, n)
  BY <1>1, <1>3, <1>4, Called
<1>6. QED
  BY <1>2, <1>5, SomeSteps

LEMMA ApplyStep ==
  ASSUME IInv, NEW p \in Programs, NEW list \in Lists, NEW interrupted, Apply(p, list, interrupted)
  PROVE  IInv'
<1>1. PICK e : e = 0
  OBVIOUS
<1>2. PICK r : r = perform_application(m, p, e, nargs, list, interrupted)
  OBVIOUS
<1>3. OnlyData /\ Step(r)
  BY <1>1, <1>2 DEF Apply
<1>4. Ready(m, nargs) /\ nargs <= MaxArgs /\ p \in Procs /\ Passed(list) /\ e \in Int /\ e <= 0
  BY <1>1, <1>3, FewData, PassedLists DEF IInv, Programs
<1>5. \E n : Ready(r, n)
  BY <1>2, <1>4, Applied
<1>6. QED
  BY <1>3, <1>5, SomeSteps

LEMMA ExceptionStep == ASSUME IInv, NEW interrupted, Exception(interrupted) PROVE IInv'
<1>1. PICK r : r = raise_exception(m, ExceptionArgs, interrupted)
  OBVIOUS
<1>2. Step(r) /\ Ready(m, nargs)
  BY <1>1 DEF Exception, IInv
<1>3. Plain(ExceptionArgs) /\ Len(ExceptionArgs) <= 16
  <2>1. /\ IsSeq(ExceptionArgs) /\ Len(ExceptionArgs) <= 16
        /\ \A i \in 1 .. Len(ExceptionArgs) : ExceptionArgs[i] \in {Value(p) : p \in Procs}
    BY ProgramFacts
  <2>2. \A x \in {Value(p) : p \in Procs} : ~IsHeader(x)
    BY PlainFields
  <2>3. QED
    BY <2>1, <2>2 DEF Plain
<1>4. \E n : Ready(r, n)
  BY <1>1, <1>2, <1>3, RaisedRuns
<1>5. QED
  BY <1>2, <1>4, SomeSteps

LEMMA WithContinuationStep ==
  ASSUME IInv, NEW p \in Programs, NEW e \in Environments, NEW k \in caught, NEW interrupted,
         WithContinuation(p, e, k, interrupted)
  PROVE  IInv'
<1>1. PICK q, r : q = set_current_continuation(m, k) /\ r = perform_application(q, p, e, 0, <<>>, interrupted)
  OBVIOUS
<1>2. Accepts(p, 0) /\ Step(r)
  BY <1>1 DEF WithContinuation
<1>3. Ready(m, nargs) /\ SafeConts(k) /\ p \in Procs
  BY DEF IInv, Programs
<1>4. e \in Int /\ e <= 0
  BY EnvironmentsSafe
<1>5. \E n : Ready(r, n)
  BY <1>1, <1>2, <1>3, <1>4, Continued
<1>6. QED
  BY <1>2, <1>5, SomeSteps

LEMMA PushDataStep == ASSUME IInv, Push PROVE IInv'
<1>1. PICK v : v = Value(Data[nargs + 1])
  OBVIOUS
<1>2. ~IsHeader(v) /\ PushValue(v)
  BY <1>1, PlainFields DEF Push
<1>3. QED
  BY <1>2, PushStep

LEMMA NextStep == ASSUME IInv, Next PROVE IInv'
<1>1. CASE Push
  BY <1>1, PushDataStep
<1>2. CASE \E back \in {b \in 1 .. MaxChain : Reaches(b)} : \E i \in Slots(Environment(back)) :
             Local(back, i) \/ SetLocal(back, i, NewValue)
  <2>1. PICK back \in {b \in 1 .. MaxChain : Reaches(b)} : \E i \in Slots(Environment(back)) :
               Local(back, i) \/ SetLocal(back, i, NewValue)
    BY <1>2
  <2>2. PICK i \in Slots(Environment(back)) : Local(back, i) \/ SetLocal(back, i, NewValue)
    BY <2>1
  <2>3. back \in 1 .. MaxChain /\ Reaches(back)
    BY <2>1
  <2>4. CASE Local(back, i)
    BY <2>2, <2>3, <2>4, LocalStep
  <2>5. CASE SetLocal(back, i, NewValue)
    BY <2>2, <2>3, <2>5, SetLocalStep
  <2>6. QED
    BY <2>2, <2>4, <2>5
<1>3. CASE MakeEnv
  BY <1>3, MakeEnvStep
<1>4. CASE \E kind \in {"plain", "ignore", "consumer"} : MakeCont(kind)
  BY <1>4, MakeContStep
<1>5. ASSUME NEW interrupted \in BOOLEAN, Return(NewValue, interrupted) PROVE IInv'
  BY <1>5, ReturnStep
<1>6. ASSUME NEW interrupted \in BOOLEAN, Exception(interrupted) PROVE IInv'
  BY <1>6, ExceptionStep
<1>7. ASSUME NEW interrupted \in BOOLEAN, NEW list \in Lists, ReturnValues(list, interrupted) PROVE IInv'
  BY <1>7, ReturnValuesStep
<1>8. ASSUME NEW interrupted \in BOOLEAN, NEW p \in Programs, NEW e \in Environments, Call(p, e, interrupted)
      PROVE  IInv'
  BY <1>8, CallStep
<1>9. ASSUME NEW interrupted \in BOOLEAN, NEW p \in Programs, NEW list \in Lists, Apply(p, list, interrupted)
      PROVE  IInv'
  BY <1>9, ApplyStep
<1>10. ASSUME NEW interrupted \in BOOLEAN, NEW p \in Programs, NEW e \in Environments, NEW k \in caught,
              WithContinuation(p, e, k, interrupted)
       PROVE  IInv'
  BY <1>10, WithContinuationStep
<1>11. CASE Closure
  BY <1>11, ClosureStep
<1>12. CASE CurrentCont
  BY <1>12, CurrentContStep
<1>13. QED
  BY <1>1, <1>2, <1>3, <1>4, <1>5, <1>6, <1>7, <1>8, <1>9, <1>10, <1>11, <1>12 DEF Next

LEMMA Unchanged == ASSUME IInv, UNCHANGED vars PROVE IInv'
BY DEF IInv, vars, nargs, Args, Ready, Good, Running, Machine, Top, TopArgs

-----------------------------------------------------------------------------
(* The first state.                                                        *)

LEMMA LeftCells ==
  ASSUME NEW n \in Nat
  PROVE  /\ IsSeq(Left(n)) /\ Len(Left(n)) = n
         /\ n > 0 => Left(n)[n] = [header |-> "dead", size |-> 0, id |-> 0]
<1>1. CASE n = 0
  <2>1. Left(n) = <<>>
    BY <1>1 DEF Left
  <2>2. IsSeq(Left(n)) /\ Len(Left(n)) = 0
    BY <2>1, Plain0 DEF Plain
  <2>3. QED
    BY <1>1, <2>2
<1>2. CASE n # 0
  <2>1. PICK l : l = n - 1
    OBVIOUS
  <2>2. PICK x, h : x = [i \in 1 .. l |-> Info("dead")] /\ h = [header |-> "dead", size |-> 0, id |-> 0]
    OBVIOUS
  <2>3. PICK y : y = <<h>>
    OBVIOUS
  <2>4. Left(n) = x \o y
    BY <1>2, <2>1, <2>2, <2>3 DEF Left
  <2>5. l \in Nat /\ l + 1 = n /\ n > 0
    BY <1>2, <2>1
  <2>6. IsSeq(x) /\ Len(x) = l
    <3>1. x = [i \in 1 .. l |-> x[i]]
      BY <2>2
    <3>2. QED
      BY <2>5, <3>1, SeqBy
  <2>7. IsSeq(y) /\ Len(y) = 1 /\ y[1] = h
    <3>1. y \in Seq({h}) /\ Len(y) = 1 /\ y[1] = h
      BY <2>3
    <3>2. QED
      BY <3>1, SeqOf
  <2>8. /\ IsSeq(x \o y) /\ Len(x \o y) = Len(x) + Len(y)
        /\ \A i \in 1 .. Len(y) : (x \o y)[Len(x) + i] = y[i]
    <3>1. IsSeq(x) /\ IsSeq(y)
      BY <2>6, <2>7
    <3>2. QED
      BY <3>1, Concatenated
  <2>9. (x \o y)[l + 1] = h /\ Len(x \o y) = n
    BY <2>5, <2>6, <2>7, <2>8
  <2>10. QED
    BY <2>2, <2>4, <2>5, <2>8, <2>9
<1>3. QED
  BY <1>1, <1>2

LEMMA InitFrame ==
  ASSUME NEW n \in Nat, NEW s,
         s = [stack |-> <<[env |-> 0], [template |-> "bottom"], [pc |-> <<0, 0>>],
                      [conts |-> <<>>], [header |-> "continuation", size |-> 0, id |-> 0]>> \o Left(n),
              env |-> 0, cont |-> bottom, heap |-> <<>>,
              used |-> 0, room |-> DefaultSpace, overrun |-> FALSE]
  PROVE  /\ Machine(s) /\ Top(s) = 5 + n /\ HeapConts(s) = <<>> /\ s.cont = 5 /\ s.env = 0
         /\ s.heap = <<>> /\ s.used = 0 /\ s.room = DefaultSpace /\ s.overrun = FALSE
         /\ s.stack[5] = [header |-> "continuation", size |-> 0, id |-> 0]
         /\ s.stack[1] = [env |-> 0]
         /\ IsHeader(s.stack[Top(s)]) /\ s.stack[Top(s)] # argument_limit_marker
<1> DEFINE cells == <<[env |-> 0], [template |-> "bottom"], [pc |-> <<0, 0>>],
                      [conts |-> <<>>], [header |-> "continuation", size |-> 0, id |-> 0]>>
           left == Left(n)
           stack == cells \o left
<1>1. /\ IsSeq(cells) /\ Len(cells) = 5 /\ cells[1] = [env |-> 0] /\ cells[4] = [conts |-> <<>>]
      /\ cells[5] = [header |-> "continuation", size |-> 0, id |-> 0]
  BY DEF IsSeq
<1>2. /\ IsSeq(left) /\ Len(left) = n
      /\ n > 0 => left[n] = [header |-> "dead", size |-> 0, id |-> 0]
  BY LeftCells
<1>3. stack = cells \o left
  OBVIOUS
<1>4. /\ s \in [stack : {s.stack}, env : {s.env}, cont : {s.cont}, heap : {s.heap},
               used : {s.used}, room : {s.room}, overrun : {s.overrun}]
      /\ s.stack = stack /\ s.cont = 5 /\ s.env = 0 /\ s.heap = <<>> /\ s.used = 0
      /\ s.room = DefaultSpace /\ s.overrun = FALSE
  BY DEF bottom, continuation_stack_size
<1> HIDE DEF cells, left, stack
<1>5. /\ IsSeq(stack) /\ Len(stack) = 5 + n
      /\ \A i \in 1 .. 5 : stack[i] = cells[i]
      /\ \A i \in 1 .. n : stack[5 + i] = left[i]
  <2>1. /\ IsSeq(cells \o left) /\ Len(cells \o left) = Len(cells) + Len(left)
        /\ \A i \in 1 .. Len(cells) : (cells \o left)[i] = cells[i]
        /\ \A i \in 1 .. Len(left) : (cells \o left)[Len(cells) + i] = left[i]
    <3>1. IsSeq(cells) /\ IsSeq(left)
      BY <1>1, <1>2
    <3>2. QED
      BY <3>1, Concatenated
  <2>2. QED
    BY <1>1, <1>2, <1>3, <2>1
<1>6. stack[1] = [env |-> 0] /\ stack[4] = [conts |-> <<>>]
      /\ stack[5] = [header |-> "continuation", size |-> 0, id |-> 0]
  BY <1>1, <1>5
<1>7. IsHeader(stack[5 + n]) /\ stack[5 + n] # argument_limit_marker
  <2>1. CASE n = 0
    <3>1. stack[5 + n] = [header |-> "continuation", size |-> 0, id |-> 0]
      BY <1>6, <2>1
    <3>2. QED
      BY <3>1 DEF IsHeader, argument_limit_marker
  <2>2. CASE n > 0
    <3>1. n \in 1 .. n
      BY <2>2
    <3>2. stack[5 + n] = [header |-> "dead", size |-> 0, id |-> 0]
      BY <1>2, <1>5, <2>2, <3>1
    <3>3. QED
      BY <3>2 DEF IsHeader, argument_limit_marker
  <2>3. QED
    BY <2>1, <2>2
<1>8. HeapConts(s) = <<>>
  BY <1>4, <1>6 DEF HeapConts, bottom, continuation_stack_size
<1>9. QED
  BY <1>4, <1>5, <1>6, <1>7, <1>8 DEF Machine, Top

LEMMA InitReady ==
  ASSUME NEW s, NEW n \in Nat, n + DefaultSpace + WarningLimit + 37 <= StackCells,
         Machine(s), Top(s) = 5 + n, HeapConts(s) = <<>>, s.cont = 5, s.env = 0,
         s.heap = <<>>, s.used = 0, s.room = DefaultSpace, s.overrun = FALSE,
         s.stack[5] = [header |-> "continuation", size |-> 0, id |-> 0],
         s.stack[1] = [env |-> 0],
         IsHeader(s.stack[Top(s)]), s.stack[Top(s)] # argument_limit_marker
  PROVE  Ready(s, 0)
<1>1. PICK K, E, T, zero : K = {5} /\ E = {} /\ T = Top(s) /\ zero = 0
  OBVIOUS
<1>2. /\ \A c \in K : c = 5
      /\ 5 \in K /\ T = 5 + n /\ T \in Nat /\ bottom = 5 /\ T >= 5
  BY <1>1 DEF bottom, continuation_stack_size
<1>3. EnvOf(s, 5) = 0 /\ s.stack[5].size = 0 /\ IsHeader(s.stack[5]) /\ s.stack[5].header = "continuation"
  BY DEF EnvOf, IsHeader
<1>4. Conts(s, K)
  BY <1>1, <1>2, <1>3 DEF Conts
<1>5. Envs(s, E) /\ Apart(s, K, E)
  BY <1>1, <1>2 DEF Envs, Apart
<1>6. References(s, K, E)
  BY <1>1, <1>2, <1>3 DEF References, Refers
<1>7. Refers(s, K, E, Top(s) + 1, s.env)
  BY DEF Refers
<1>8. SafeHeap(s.heap)
  <2>1. DOMAIN s.heap = {}
    OBVIOUS
  <2>2. IsFiniteSet({})
    BY FS_EmptySet
  <2>3. QED
    BY <2>1, <2>2 DEF SafeHeap
<1>9. SafeConts(HeapConts(s))
  BY Plain0 DEF SafeConts, Plain
<1>10. ArgsIn(s.stack, Top(s), zero)
  BY <1>1, <1>2 DEF ArgsIn, Begins
<1>11. Good(s, s.env, zero)
  BY <1>4, <1>5, <1>6, <1>7, <1>8, <1>9, <1>10 DEF Good, Sound
<1>12. Affordable(s.used, s.room, Top(s))
  <2>1. DefaultSpace \in Nat /\ StackCells \in Nat /\ WarningLimit \in Nat
    BY Sizes
  <2>2. QED
    BY <2>1 DEF Affordable, Limit, LastCell
<1>13. Few(TopArgs(s, zero), zero)
  BY <1>1, Sizes DEF Few
<1>14. QED
  BY <1>1, <1>11, <1>12, <1>13 DEF Ready, Running

LEMMA InitIInv == ASSUME Init PROVE IInv
<1>1. PICK n \in TailCalls :
     m = [stack |-> <<[env |-> 0], [template |-> "bottom"], [pc |-> <<0, 0>>],
                      [conts |-> <<>>], [header |-> "continuation", size |-> 0, id |-> 0]>> \o Left(n),
          env |-> 0, cont |-> bottom, heap |-> <<>>,
          used |-> 0, room |-> DefaultSpace, overrun |-> FALSE]
  BY DEF Init
<1>2. n \in Nat /\ n + DefaultSpace + WarningLimit + 37 <= StackCells
  BY StackAssumption
<1>3. PICK s : s = m
  OBVIOUS
<1>4. /\ Machine(s) /\ Top(s) = 5 + n /\ HeapConts(s) = <<>> /\ s.cont = 5 /\ s.env = 0
      /\ s.heap = <<>> /\ s.used = 0 /\ s.room = DefaultSpace /\ s.overrun = FALSE
      /\ s.stack[5] = [header |-> "continuation", size |-> 0, id |-> 0]
      /\ s.stack[1] = [env |-> 0]
      /\ IsHeader(s.stack[Top(s)]) /\ s.stack[Top(s)] # argument_limit_marker
  BY <1>1, <1>2, <1>3, InitFrame
<1>5. Ready(s, 0)
  BY <1>2, <1>4, InitReady
<1>6. Machine(s) /\ ArgsIn(s.stack, Top(s), 0) /\ 0 <= Top(s)
  BY <1>5, ReadyTop, TopOnly
<1>7. PICK zero : zero = 0
  OBVIOUS
<1>8. arguments_on_stack(s) = zero
  BY <1>6, <1>7, ArgumentCount
<1>9. Args = TopArgs(s, zero)
  BY <1>3, <1>8 DEF Init, Args, ViewOf
<1>10. nargs = zero
  BY <1>6, <1>7, <1>9, TopArgsAre DEF nargs
<1>11. closed = {} /\ caught = {}
  BY DEF Init
<1>12. QED
  BY <1>3, <1>5, <1>7, <1>9, <1>10, <1>11 DEF IInv

\* The invariant is inductive.
LEMMA SpecIInv == Spec => []IInv
<1>1. Init => IInv
  BY InitIInv
<1>2. IInv /\ [Next]_vars => IInv'
  BY NextStep, Unchanged
<1>3. QED
  BY <1>1, <1>2, PTL DEF Spec

-----------------------------------------------------------------------------
(* What a collection traces.                                               *)

LEMMA TracedEnv ==
  ASSUME NEW s, Machine(s), NEW K, NEW E, Sound(s, K, E), NEW e \in Int, e > 0 => e \in E
  PROVE  EnvCells(s, e) = trace_env(s, e)
<1>1. PICK C : C = StackEnvs(s, e)
  OBVIOUS
<1>2. PICK U : U = UNION {EnvLow(s, x) .. x : x \in C}
  OBVIOUS
<1>3. EnvCells(s, e) = U
  BY <1>1, <1>2, Leads
<1>4. trace_env(s, e) = U
  BY <1>1, <1>2, Leads
<1>5. QED
  BY <1>3, <1>4

\* The cells of the continuation at place i of the chain cs, and those of its environments.
LEMMA TracedConts ==
  ASSUME NEW s, Machine(s), NEW K, NEW E, Sound(s, K, E), NEW cs, cs = StackConts(s, s.cont),
         NEW W, W = trace_conts(s, 0)
  PROVE  \A i \in 1 .. Len(cs) : ContCells(s, cs[i]) \subseteq W /\ EnvCells(s, EnvOf(s, cs[i])) \subseteq W
<1> DEFINE N == Len(cs)
           e(i) == EnvOf(s, cs[i])
           T(x) == trace_env(s, x)
           C(i) == ContCells(s, cs[i])
           Last(i) == IF i = 1 THEN 0 ELSE EnvOf(s, cs[i - 1])
           Its(i) == C(i) \cup (IF e(i) = Last(i) THEN {} ELSE T(e(i)))
           D == {i \in 1 .. N : T(e(i)) \subseteq W}
<1>1. IsSeq(cs) /\ N \in Nat /\ N >= 1 /\ \A i \in 1 .. N : cs[i] \in K
  <2>1. Conts(s, K) /\ s.cont \in K
    BY DEF Sound, Conts
  <2>2. QED
    BY <2>1, ContsChain
<1>2. DOMAIN cs = 1 .. N
  BY <1>1, SeqFacts
<1>3. W = UNION {Its(i) : i \in 1 .. N}
  BY <1>2 DEF trace_conts
<1>4. \A i \in 1 .. N : e(i) \in Int /\ (e(i) > 0 => e(i) \in E)
  BY <1>1 DEF Sound, Conts, References, Refers
<1>5. \A i \in 1 .. N : EnvCells(s, e(i)) = T(e(i))
  BY <1>4, TracedEnv
<1>6. T(0) = {}
  <2>1. StackEnvs(s, 0) = {}
    BY NoEnvs
  <2>2. QED
    BY <2>1 DEF trace_env
<1>7. \A i \in 1 .. N : C(i) \subseteq W /\ (e(i) = Last(i) \/ T(e(i)) \subseteq W)
  <2> HIDE DEF C, e, T, Last
  <2>1. QED
    BY <1>3
<1>8. 1 \in D
  <2>1. Last(1) = 0 /\ 1 \in 1 .. N
    BY <1>1
  <2> HIDE DEF e, T, Last
  <2>2. QED
    BY <1>6, <1>7, <2>1
<1>9. ASSUME NEW i \in 2 .. N, i - 1 \in D PROVE i \in D
  <2>1. Last(i) = e(i - 1) /\ i \in 1 .. N
    BY <1>1
  <2> HIDE DEF e, T, Last
  <2>2. QED
    BY <1>7, <1>9, <2>1
<1>10. 1 .. N \subseteq D
  <2> DEFINE D0 == {0} \cup D
  <2>1. \A i \in 1 .. N : i - 1 \in D0 => i \in D0
    <3>1. SUFFICES ASSUME NEW i \in 1 .. N, i - 1 \in D0 PROVE i \in D
      OBVIOUS
    <3>2. CASE i = 1
      BY <1>8, <3>2
    <3>3. CASE i # 1
      <4>1. i \in 2 .. N /\ i - 1 # 0
        BY <1>1, <3>3
      <4> HIDE DEF D
      <4>2. QED
        BY <1>9, <3>1, <4>1
    <3>4. QED
      BY <3>2, <3>3
  <2>2. 0 \in D0
    OBVIOUS
  <2> HIDE DEF D0
  <2>3. 0 .. N \subseteq D0
    BY <1>1, <2>1, <2>2, InductionTo
  <2>4. \A i \in 1 .. N : i \in 0 .. N /\ i # 0
    BY <1>1
  <2> HIDE DEF D
  <2>5. QED
    BY <2>3, <2>4 DEF D0
<1>11. QED
  <2> HIDE DEF C, e, T
  <2>1. \A i \in 1 .. N : C(i) \subseteq W /\ EnvCells(s, e(i)) \subseteq W
    BY <1>5, <1>7, <1>10
  <2>2. QED
    BY <2>1 DEF C, e

LEMMA TracedAll ==
  ASSUME NEW s, NEW n, Ready(s, n)
  PROVE  LiveCells(s) \subseteq trace_stack(s)
<1>1. Good(s, s.env, n) /\ Machine(s) /\ s.env \in Int
  BY ReadyTop
<1>2. PICK K, E : Sound(s, K, E) /\ Refers(s, K, E, Top(s) + 1, s.env)
  BY <1>1 DEF Good
<1>3. PICK cs, W : cs = StackConts(s, s.cont) /\ W = trace_conts(s, 0)
  OBVIOUS
<1>4. \A i \in 1 .. Len(cs) : ContCells(s, cs[i]) \subseteq W /\ EnvCells(s, EnvOf(s, cs[i])) \subseteq W
  BY <1>1, <1>2, <1>3, TracedConts
<1>5. IsSeq(cs) /\ Len(cs) \in Nat /\ Len(cs) >= 1 /\ cs[Len(cs)] = bottom
  <2>1. Conts(s, K) /\ s.cont \in K
    BY <1>2 DEF Sound, Conts
  <2>2. QED
    BY <1>1, <1>3, <2>1, ContsChain
<1>6. EnvCells(s, s.env) = trace_env(s, s.env)
  <2>1. s.env > 0 => s.env \in E
    BY <1>2 DEF Refers
  <2>2. QED
    BY <1>1, <1>2, <2>1, TracedEnv
<1>7. 1 .. bottom \subseteq W
  <2>1. s.stack[bottom].size = 0 /\ bottom = 5
    BY <1>2 DEF Sound, Conts, bottom, continuation_stack_size
  <2>2. ContCells(s, bottom) = 1 .. bottom
    BY <2>1 DEF ContCells
  <2>3. Len(cs) \in 1 .. Len(cs)
    BY <1>5
  <2>4. QED
    BY <1>4, <1>5, <2>2, <2>3
<1>8. DOMAIN cs = 1 .. Len(cs)
  BY <1>5, SeqFacts
<1> DEFINE B == (Top(s) - arguments_on_stack(s) + 1) .. Top(s)
           A == 1 .. bottom
           C == EnvCells(s, s.env)
           Its(i) == ContCells(s, cs[i]) \cup EnvCells(s, EnvOf(s, cs[i]))
           F == UNION {Its(i) : i \in DOMAIN cs}
<1>9. LiveCells(s) = A \cup B \cup C \cup F
  BY <1>3 DEF LiveCells
<1>10. trace_stack(s) = B \cup trace_env(s, s.env) \cup W
  BY <1>3 DEF trace_stack
<1>11. \A i \in DOMAIN cs : Its(i) \subseteq W
  BY <1>4, <1>8
<1>12. F \subseteq W
  <2> HIDE DEF Its
  <2>1. QED
    BY <1>11
<1>13. C = trace_env(s, s.env) /\ A \subseteq W
  BY <1>6, <1>7
<1> HIDE DEF A, B, C, F
<1>14. QED
  BY <1>9, <1>10, <1>12, <1>13

-----------------------------------------------------------------------------
(* The theorems.                                                           *)

\* Every state of the machine is one that the next instruction can start from: the
\* continuations and environments on the stack lie one above the other and refer to each
\* other in that order, the arguments can be found, and the compiler's account of the stack
\* holds for the running code and for each continuation (vm/stack.scm, vm/env.scm, vm/call.scm).
THEOREM StackIsSound == Spec => []IInv
BY SpecIInv

\* No environment or continuation that save-env-in-heap or preserve-continuation has moved to
\* the heap, nor one a program keeps, points to the stack.
THEOREM HeapIsApart == Spec => []HeapNeverPointsIntoStack
<1>1. IInv => HeapNeverPointsIntoStack
  <2>1. SUFFICES ASSUME IInv PROVE HeapNeverPointsIntoStack
    OBVIOUS
  <2>2. SafeHeap(m.heap) /\ SafeConts(HeapConts(m))
    BY <2>1, StateFacts, TopOnly
  <2>3. ASSUME NEW k, SafeConts(k) PROVE \A i \in DOMAIN k : ~within_stack(k[i].env)
    BY <2>3, SeqFacts DEF SafeConts, HeapFrame
  <2>4. /\ \A e \in closed : ~within_stack(e)
        /\ \A k \in caught : SafeConts(k)
    BY <2>1 DEF IInv
  <2>5. QED
    BY <2>2, <2>3, <2>4 DEF HeapNeverPointsIntoStack, SafeHeap
<1>2. QED
  BY <1>1, SpecIInv, PTL

\* With stack-slack in reserve and one test of the stack when a procedure starts, no instruction
\* comes to the cells that are only there for safety, whatever exception or interrupt comes between
\* (the comment on stack-slack in vm/stack.scm).
THEOREM SlackSuffices == Spec => []StackSuffices
<1>1. IInv => StackSuffices
  BY StateFacts DEF StackSuffices
<1>2. QED
  BY <1>1, SpecIInv, PTL

\* trace-stack goes through all the cells that the machine can still come to, though it passes over an
\* environment that the continuation above has as well.
THEOREM CollectorIsComplete == Spec => []CollectorSeesStack
<1>1. IInv => CollectorSeesStack
  BY TracedAll DEF CollectorSeesStack, IInv
<1>2. QED
  BY <1>1, SpecIInv, PTL
===============================================================================

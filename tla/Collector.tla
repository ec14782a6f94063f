------------------------------ MODULE Collector ------------------------------
(* The copying collector of scheme48heap.c (compiled from vm/gc.scm, heap.scm). *)
(* A heap is a record: mem maps the addresses that have been written to cells,  *)
(* an address counts cells, hp is the next free one and limit the end of what   *)
(* may be allocated; objects are copied from [oldBegin, oldEnd) to              *)
(* [newBegin, newEnd).  An object is a header and its contents; a stob points   *)
(* to the contents.  A broken heart is a stob in the place of a header.         *)
(* The operators are recursive, so nothing is proved about this module.         *)
EXTENDS Integers, Sequences, FiniteSets, TLC

CONSTANTS Semi,        \* cells of a semispace
          WeakBlock    \* cells of a block of weak pointers (weak-pointer-alloc-quantum)

ASSUME HeapSizes == Semi \in Nat /\ WeakBlock \in Nat /\ WeakBlock >= 4

Stob(a)      == <<"stob", a>>          \* a descriptor with tag 3
Header(t, n) == <<"header", t, n>>     \* a header: type and cells of contents
Const(c)     == <<"const", c>>         \* a fixnum or an immediate
Link(a)      == <<"link", a>>          \* an untagged address
Nil   == Const("null")
False == Const("false")

IsStob(d)   == d[1] = "stob"
IsHeader(d) == d[1] = "header"
BTypes      == {"string", "code-vector"}     \* types whose contents are bytes
NoAddress   == -1

HeaderOf(h, d)  == h.mem[d[2] - 1]
Field(h, d, i)  == h.mem[d[2] + i]
Store(h, a, c)  == [h EXCEPT !.mem = (a :> c) @@ @]
SetField(h, d, i, c) == Store(h, d[2] + i, c)
Car(h, d) == Field(h, d, 0)
Cdr(h, d) == Field(h, d, 1)
Cells(t, contents) == <<Header(t, Len(contents))>> \o contents
StoreAll(h, a, cells) ==
  [h EXCEPT !.mem = [x \in a .. a + Len(cells) - 1 |-> cells[x - a + 1]] @@ @]

\* The two halves of the memory the heap was given.
initialize_heap(b, semi) ==
  [mem |-> <<>>, hp |-> b, limit |-> b + semi,
   newBegin |-> b, newEnd |-> b + semi, oldBegin |-> b + semi, oldEnd |-> b + 2 * semi,
   savedHp |-> b, savedLimit |-> b + semi, weakHp |-> NoAddress, weakLimit |-> NoAddress,
   exhausted |-> FALSE]

Available(h, cells) == h.hp + cells < h.limit

\* A new object; the caller has made sure that there is space for it.
Allocate(h, type, contents) ==
  [heap |-> [StoreAll(h, h.hp, Cells(type, contents)) EXCEPT !.hp = @ + 1 + Len(contents)],
   new  |-> Stob(h.hp + 1)]

InOldSpace(h, d) == IsStob(d) /\ h.oldBegin <= d[2] /\ d[2] < h.oldEnd

SwapSpaces(h) ==
  [h EXCEPT !.newBegin = h.oldBegin, !.oldBegin = h.newBegin,
            !.newEnd   = h.oldEnd,   !.oldEnd   = h.newEnd]

begin_collection(h) ==
  LET g == SwapSpaces(h)
  IN  [g EXCEPT !.savedLimit = g.limit, !.savedHp = g.hp, !.limit = g.newEnd,
                !.hp = g.newBegin, !.weakHp = NoAddress]

(* Weak pointers are copied into blocks of their own.  The header of the first *)
(* one is the header of the block, that of the second one a link to the block  *)
(* before, and the contents are not traced.                                    *)
NewWeakBlock(h) ==
  Store(Store([h EXCEPT !.weakHp = h.hp, !.weakLimit = h.hp + WeakBlock, !.hp = h.hp + WeakBlock],
              h.hp, Header("code-vector", WeakBlock - 1)),
        h.hp + 2, Link(h.weakHp))

copy_weak_pointer(h, d) ==
  LET g == IF h.weakHp = NoAddress \/ h.weakHp >= h.weakLimit THEN NewWeakBlock(h) ELSE h
      Copy(k, new) ==
        [heap |-> [SetField(SetField(k, new, 0, Field(k, d, 0)), d, -1, new) EXCEPT !.weakHp = @ + 2],
         new  |-> new]
  IN  Copy(g, Stob(g.weakHp + 1))

\* Mutant: weak pointers are copied like all other objects.
real_copy_object_strongly(h, d) ==
  LET header == HeaderOf(h, d)
      new == Stob(h.hp + 1)
      cells == [i \in 1 .. header[3] + 1 |-> h.mem[d[2] + i - 2]]
  IN  IF IsStob(header) THEN [heap |-> h, new |-> header]
      ELSE [heap |-> [SetField(StoreAll(h, h.hp, cells), d, -1, new) EXCEPT !.hp = @ + Len(cells)],
            new  |-> new]

real_copy_object(h, d) ==
  LET header == HeaderOf(h, d)
      new == Stob(h.hp + 1)
      cells == [i \in 1 .. header[3] + 1 |-> h.mem[d[2] + i - 2]]
  IN  IF IsStob(header) THEN [heap |-> h, new |-> header]
      ELSE IF header[2] = "weak-pointer" /\ InOldSpace(h, Field(h, d, 0))
           THEN copy_weak_pointer(h, d)
      ELSE [heap |-> [SetField(StoreAll(h, h.hp, cells), d, -1, new) EXCEPT !.hp = @ + Len(cells)],
            new  |-> new]

trace_value(h, d) ==
  IF InOldSpace(h, d) THEN real_copy_object(h, d) ELSE [heap |-> h, new |-> d]

\* Writing past the end of the new space leaves nothing to reason about.
Overrun(h) == h.hp > h.newEnd

RECURSIVE trace_locationsB(_, _, _)
trace_locationsB(h, addr, end) ==
  IF addr >= end \/ Overrun(h) THEN h
  ELSE LET thing == h.mem[addr]
           copy == trace_value(h, thing)
       IN  IF IsHeader(thing) /\ thing[2] \in BTypes
           THEN trace_locationsB(h, addr + 1 + thing[3], end)
           ELSE trace_locationsB(Store(copy.heap, addr, copy.new), addr + 1, end)

trace_stob_contentsB(h, d) == trace_locationsB(h, d[2], d[2] + HeaderOf(h, d)[3])

RECURSIVE TraceCopied(_, _)
TraceCopied(h, start) ==
  LET g == trace_locationsB(h, start, h.hp)
  IN  IF g.hp >= g.limit THEN [g EXCEPT !.exhausted = TRUE]
      ELSE IF h.hp < g.hp THEN TraceCopied(g, h.hp)
      ELSE g

\* A weak pointer follows its object, or loses it.
CleanWeak(h, scan) ==
  LET d == h.mem[scan + 1]
      heart == HeaderOf(h, d)
      g == Store(h, scan, Header("weak-pointer", 1))
  IN  IF ~InOldSpace(h, d) THEN g
      ELSE Store(g, scan + 1, IF IsStob(heart) THEN heart ELSE False)

RECURSIVE CleanWeaks(_, _, _)
CleanWeaks(h, scan, end) == IF scan >= end THEN h ELSE CleanWeaks(CleanWeak(h, scan), scan + 2, end)

RECURSIVE CleanBlocks(_, _, _)
CleanBlocks(h, start, end) ==
  LET next == h.mem[start + 2][2]
      g == CleanWeaks(h, start, end)
  IN  IF next = NoAddress THEN g ELSE CleanBlocks(g, next - WeakBlock, next)

\* Mutant: the header of the rest of the newest block counts itself.
clean_weak_pointers_long(h) ==
  LET g == CleanBlocks(h, h.weakLimit - WeakBlock, h.weakHp)
  IN  IF h.weakHp = NoAddress \/ Overrun(h) THEN h
      ELSE IF h.weakHp < h.weakLimit
           THEN Store(g, h.weakHp, Header("code-vector", h.weakLimit - h.weakHp))
           ELSE g

\* What is left of the newest block becomes one object.
clean_weak_pointers(h) ==
  LET g == CleanBlocks(h, h.weakLimit - WeakBlock, h.weakHp)
  IN  IF h.weakHp = NoAddress \/ Overrun(h) THEN h
      ELSE IF h.weakHp < h.weakLimit
           THEN Store(g, h.weakHp, Header("code-vector", h.weakLimit - h.weakHp - 1))
           ELSE g

(* Finalizers: a list of pairs (thing . procedure).  The contents of the things *)
(* are traced, but not the things: those are dead that nothing else copies.     *)
RECURSIVE TraceFinalizers(_, _)
TraceFinalizers(h, alist) ==
  IF alist = Nil \/ Overrun(h) THEN h
  ELSE LET pair == Car(h, alist)
           thing == Car(h, pair)
           g == IF IsHeader(HeaderOf(h, thing)) THEN trace_stob_contentsB(h, thing) ELSE h
           copy == trace_value(g, Cdr(g, pair))
       IN  TraceFinalizers(SetField(copy.heap, pair, 1, copy.new), Cdr(h, alist))

\* A thing that has been copied stays on the list; the others are copied now.
CopyThing(h, thing) ==
  IF ~InOldSpace(h, thing) THEN [traced |-> TRUE, heap |-> h, new |-> thing]
  ELSE [traced |-> IsStob(HeaderOf(h, thing))] @@ real_copy_object(h, thing)

RECURSIVE Partition(_, _, _, _)
Partition(h, alist, okay, goners) ==
  IF alist = Nil \/ Overrun(h) THEN [heap |-> h, okay |-> okay, goners |-> goners]
  ELSE LET link == real_copy_object(h, alist)
           pair == real_copy_object(link.heap, Car(link.heap, link.new))
           Entry(l, p, thing, next) ==
             LET rest == IF thing.traced THEN okay ELSE goners
                 g == SetField(SetField(SetField(thing.heap, p, 0, thing.new), l, 0, p), l, 1, rest)
             IN  IF thing.traced THEN Partition(g, next, l, goners) ELSE Partition(g, next, okay, l)
       IN  Entry(link.new, pair.new, CopyThing(pair.heap, Car(pair.heap, pair.new)),
                 Cdr(pair.heap, link.new))

do_gc(h, alist) ==
  LET Scanned(g) == IF Overrun(g) THEN g ELSE TraceCopied(g, g.newBegin)
  IN  Partition(clean_weak_pointers(Scanned(TraceFinalizers(h, alist))), alist, Nil, Nil)
=============================================================================

------------------------------- MODULE Images -------------------------------
(* Heap images: write_image, check_image_header and read_image of              *)
(* scheme48heap.c.  A file is a sequence of items, the numbers of the header   *)
(* and then the cells; writing may stop after any of them.                     *)
EXTENDS Collector, SequencesExt

ArchitectureVersion == "Kali 19"
BytesPerCell == 4
One  == Const("1")                 \* tells the byte order
Junk == Const("junk")              \* a cell nothing has been stored in
HeaderItems == 5
Closed == Const("closed")

LiveCells(h) ==
  [i \in 1 .. h.hp - h.newBegin |->
     LET a == h.newBegin + i - 1 IN IF a \in DOMAIN h.mem THEN h.mem[a] ELSE Junk]

\* Channels that are copied are closed in the copy only.
RECURSIVE mark_traced_channels_closedB(_, _)
mark_traced_channels_closedB(h, channels) ==
  IF channels = <<>> THEN h
  ELSE LET copy == HeaderOf(h, Head(channels))
           g == IF Head(channels) # False /\ IsStob(copy)
                THEN SetField(SetField(h, copy, 0, Closed), copy, 1, Const("-1")) ELSE h
       IN  mark_traced_channels_closedB(g, Tail(channels))

MendHeart(h, a) == IF IsHeader(h.mem[a]) THEN h ELSE Store(h, a, HeaderOf(h, h.mem[a]))

RECURSIVE MendHearts(_, _)
MendHearts(h, a) ==
  IF a >= h.hp THEN h
  ELSE LET g == MendHeart(h, a) IN MendHearts(g, a + 1 + g.mem[a][3])

\* Mutant: the hearts stay broken in objects that were copied.
AbortCollection_hearts(h) == [SwapSpaces(h) EXCEPT !.limit = h.savedLimit, !.hp = h.savedHp]

\* abort-collection: the collection is undone, except for what it copied.
AbortCollection(h) ==
  LET g == [SwapSpaces(h) EXCEPT !.limit = h.savedLimit, !.hp = h.savedHp]
  IN  MendHearts(g, g.newBegin)

(* write_image: copy what resume_proc reaches, write it, and undo the copying. *)
(* The file keeps the first upTo items.                                        *)
ImageHeap(h, resume_proc, channels) ==
  LET proc == trace_value(begin_collection(h), resume_proc)
      Traced(g) == mark_traced_channels_closedB(clean_weak_pointers(g), channels)
  IN  [heap |-> Traced(TraceCopied(proc.heap, proc.heap.newBegin)), start |-> proc.new]

ImageItems(g, start) ==
  <<ArchitectureVersion, BytesPerCell, g.newBegin, g.hp, start, One>> \o LiveCells(g)

write_image(copy, upTo) ==
  LET items == ImageItems(copy.heap, copy.start)
  IN  [heap |-> AbortCollection(copy.heap), okay |-> upTo >= Len(items),
       file |-> IF upTo < Len(items) THEN SubSeq(items, 1, upTo) ELSE items]

(* An image of a machine of the other byte order: every descriptor and header  *)
(* is reversed, the contents of strings and code vectors are not.              *)
ReverseByteOrder(c) == IF c[1] = "reversed" THEN c[2] ELSE <<"reversed", c>>

RECURSIVE SkippingBytes(_, _, _, _)
SkippingBytes(Op(_), cells, i, skip) ==   \* Op on all cells but the contents of byte vectors
  IF i > Len(cells) THEN cells
  ELSE IF skip > 0 THEN SkippingBytes(Op, cells, i + 1, skip - 1)
  ELSE LET new == [cells EXCEPT ![i] = Op(@)]
           d == IF cells[i][1] = "reversed" THEN new[i] ELSE cells[i]
       IN  SkippingBytes(Op, new, i + 1, IF IsHeader(d) /\ d[2] \in BTypes THEN d[3] ELSE 0)

Foreign(file) == SkippingBytes(ReverseByteOrder, file, HeaderItems + 1, 0)

(* check_image_header: the size of the heap in the image, or -1.  The items    *)
(* after the end of the file are taken for -1, and the end is noticed last.    *)
SameVersion(file) == Len(file) >= 1 /\ file[1] = ArchitectureVersion
Item(file, i) == IF i <= Len(file) THEN file[i] ELSE -1

check_image_header(file) ==
  IF Len(file) < HeaderItems THEN -1                          \* premature EOF
  ELSE IF ~SameVersion(file) \/ Item(file, 2) # BytesPerCell THEN -1
  ELSE Item(file, 4) - Item(file, 3)

Relocate(c, delta) == IF IsStob(c) THEN Stob(c[2] + delta) ELSE c

\* Mutant: what looks like a stob is relocated, the bytes of strings too.
RelocateAll(cells, delta) == [i \in DOMAIN cells |-> Relocate(cells[i], delta)]

RelocateCells(cells, delta) ==
  LET Move(c) == Relocate(c, delta) IN SkippingBytes(Move, cells, 1, 0)

(* read_image: the cells are read to the beginning of the heap, their byte      *)
(* order is corrected, and they are relocated.                                  *)
Lost == [okay |-> FALSE]

BlockRead(file, need) == Len(file) = HeaderItems + 1 + need   \* all of it, and nothing after it

read_image(h, file, startup_space) ==
  LET mark     == Item(file, HeaderItems + 1)
      reversed == mark # One
      need     == file[4] - file[3]
      delta    == h.hp - file[3]
      new_hp   == file[4] + delta
      block    == SubSeq(file, HeaderItems + 2, HeaderItems + 1 + need)
      ordered  == IF reversed THEN SkippingBytes(ReverseByteOrder, block, 1, 0) ELSE block
      cells    == IF delta = 0 THEN ordered ELSE RelocateCells(ordered, delta)
  IN  IF Len(file) <= HeaderItems THEN Lost                     \* premature EOF
      ELSE IF reversed /\ ReverseByteOrder(mark) # One THEN Lost
      ELSE IF new_hp + startup_space >= h.newEnd THEN Lost      \* heap not big enough
      ELSE IF ~BlockRead(file, need) THEN Lost
      ELSE [okay |-> TRUE, heap |-> [StoreAll(h, h.hp, cells) EXCEPT !.hp = new_hp],
            start |-> Relocate(file[5], delta)]
=============================================================================

-------------------------------- MODULE Heap --------------------------------
(* The virtual machine as the user of its heap: instructions that allocate,    *)
(* the collection they start when there is no space, finalizers, channels,     *)
(* find-all, dumping an image and starting from one.  The machine runs on one  *)
(* thread and signal handlers do not touch the heap, so that every instruction *)
(* is one step.  Of the registers that are roots only val and env are here.    *)
EXTENDS Images

CONSTANTS Base,            \* address of the heap of a process that starts from an image
          ChannelIndexes,  \* OS channels
          FinalizeBytes,   \* whether things with byte contents get finalizers
          StartupSpace,    \* cells read_image leaves for the startup procedure
          Uses,            \* which of the uses of the heap occur
          MaxSteps         \* bound: instructions of a process

Instructions == {"weak", "string", "finalizer", "channel", "find", "find-none", "image"}
ASSUME Uses \subseteq Instructions
Use(instruction) == instruction \in Uses

VARIABLES heap,             \* the memory and its limits
          val, env,         \* registers
          finalizer_alist,  \* list of (thing . procedure)
          finalize_these,   \* the part of it that is due
          vm_channels,      \* index -> channel, or False
          open,             \* OS channels that are open
          file,             \* the image file
          dumped,           \* history: the graph the image file stands for
          vm,               \* "running", "restarted", or why it stopped
          steps             \* instructions so far

registers == <<val, env, finalizer_alist, finalize_these>>
vars == <<heap, registers, vm_channels, open, file, dumped, vm, steps>>

Channels == SetToSortSeq(ChannelIndexes, <)
ChannelList(table) == [i \in DOMAIN Channels |-> table[Channels[i]]]

\* What is outside the objects of the heap is never read again.
Forget(h) ==
  [h EXCEPT !.mem = [a \in DOMAIN @ \cap h.newBegin .. h.hp - 1 |-> @[a]],
            !.savedHp = NoAddress, !.savedLimit = NoAddress,
            !.weakHp = NoAddress, !.weakLimit = NoAddress]

Init ==
  /\ heap = Forget(initialize_heap(0, Semi))
  /\ val = Nil /\ env = Nil
  /\ finalizer_alist = Nil /\ finalize_these = Nil
  /\ vm_channels = [i \in ChannelIndexes |-> False]
  /\ open = {}
  /\ file = <<>> /\ dumped = <<>>
  /\ vm = "running" /\ steps = 0

(* The machine that an instruction works on, as a record. *)
Now == [heap |-> heap, val |-> val, env |-> env, alist |-> finalizer_alist,
        these |-> finalize_these, channels |-> vm_channels, open |-> open, vm |-> vm]

Become(m) ==
  /\ heap' = Forget(m.heap) /\ val' = m.val /\ env' = m.env
  /\ finalizer_alist' = m.alist /\ finalize_these' = m.these
  /\ vm_channels' = m.channels /\ open' = m.open /\ vm' = m.vm

(* collect_saving_temp: trace the registers, collect, append the dead things to *)
(* those to be finalized, and close the channels that have not been traced.     *)
TraceRegisters(m) ==
  LET v == trace_value(begin_collection(m.heap), m.val)
      t == trace_value(v.heap, m.these)
      e == trace_value(t.heap, m.env)
  IN  [m EXCEPT !.heap = e.heap, !.val = v.new, !.these = t.new, !.env = e.new]

RECURSIVE AppendB(_, _, _)
AppendB(h, list, more) ==
  IF Cdr(h, list) = Nil THEN SetField(h, list, 1, more) ELSE AppendB(h, Cdr(h, list), more)

IsOpen(h, channel) == Field(h, channel, 0) # Closed

\* Mutant: channels that have not been traced are forgotten, but not closed.
CloseUntraced_forgetting(m, indexes) ==
  [m EXCEPT !.channels = [i \in DOMAIN @ |->
     IF @[i] # False /\ IsStob(HeaderOf(m.heap, @[i])) THEN HeaderOf(m.heap, @[i]) ELSE False]]

RECURSIVE CloseUntraced(_, _)
CloseUntraced(m, indexes) ==
  IF indexes = {} THEN m
  ELSE LET i == CHOOSE x \in indexes : TRUE
           channel == m.channels[i]
           header == HeaderOf(m.heap, channel)
           rest == CloseUntraced(m, indexes \ {i})
       IN  IF channel = False THEN rest
           ELSE IF IsStob(header) THEN [rest EXCEPT !.channels[i] = header]
           ELSE [rest EXCEPT !.channels[i] = False,
                   !.open = IF IsOpen(m.heap, channel) THEN @ \ {i} ELSE @]

AfterGc(m, t, gc) ==
  LET h == IF gc.goners = Nil THEN gc.heap ELSE AppendB(gc.heap, gc.goners, t.these)
      these == IF gc.goners = Nil THEN t.these ELSE gc.goners
  IN  IF gc.heap.exhausted THEN [m EXCEPT !.vm = "GC error: ran out of space in new heap"]
      ELSE IF Overrun(gc.heap) THEN [m EXCEPT !.vm = "overrun"]
      ELSE CloseUntraced([t EXCEPT !.heap = h, !.alist = gc.okay, !.these = these], ChannelIndexes)

Collected(m) == LET t == TraceRegisters(m) IN AfterGc(m, t, do_gc(t.heap, m.alist))

\* A collection that is to make space may not have made enough.
EnsureSpace(m, cells) ==
  LET Enough(c) == IF c.vm # m.vm \/ Available(c.heap, cells) THEN c
                   ELSE [c EXCEPT !.vm = "Scheme48 heap overflow"]
  IN  IF Available(m.heap, cells) THEN m ELSE Enough(Collected(m))

\* An instruction: make sure that there is space, then do it.
Do(Op(_), cells) ==
  LET Perform(m) == IF m.vm = vm THEN Op(m) ELSE m
  IN  /\ vm = "running"
      /\ Become(Perform(EnsureSpace(Now, cells)))
      /\ UNCHANGED <<file, dumped>>

NewVal(m, type, contents) ==
  LET o == Allocate(m.heap, type, contents) IN [m EXCEPT !.heap = o.heap, !.val = o.new]

HasType(d, type) == IsStob(d) /\ HeaderOf(heap, d)[2] = type

MakePair(m) == NewVal(m, "pair", <<m.val, m.env>>)
ConsPair == Do(MakePair, 3)

MakeWeak(m) == NewVal(m, "weak-pointer", <<m.val>>)
MakeWeakPointer == Use("weak") /\ IsStob(val) /\ Do(MakeWeak, 2)

MakeClosure(m) == NewVal(m, "closure", <<m.env>>)
Closure == Use("finalizer") /\ ~HasType(val, "closure") /\ Do(MakeClosure, 2)

\* A string whose bytes look like a pointer to the first object of the heap.
MakeStringLike(m) == NewVal(m, "string", <<Stob(m.heap.newBegin + 1)>>)
MakeString == Use("string") /\ Do(MakeStringLike, 2)

AddFinalizerTo(m) ==
  LET pair == Allocate(m.heap, "pair", <<m.env, m.val>>)
      link == Allocate(pair.heap, "pair", <<pair.new, m.alist>>)
  IN  [m EXCEPT !.heap = link.heap, !.alist = link.new, !.val = Nil]
AddFinalizer ==
  /\ Use("finalizer")
  /\ HasType(val, "closure") /\ IsStob(env)
  /\ HeaderOf(heap, env)[2] = "pair" \/ FinalizeBytes
  /\ Do(AddFinalizerTo, 6)

\* The post-gc interrupt hands over the list; the handler runs all of it.
TakeFinalizers ==
  /\ vm = "running" /\ finalize_these # Nil
  /\ val' = finalize_these /\ finalize_these' = Nil
  /\ UNCHANGED <<heap, env, finalizer_alist, vm_channels, open, file, dumped, vm>>

OpenChannel(i) ==
  LET Op(m) == LET c == NewVal(m, "channel", <<Const("open"), Const(ToString(i))>>)
               IN  [c EXCEPT !.channels[i] = c.val, !.open = @ \cup {i}]
  IN  Use("channel") /\ i \notin open /\ vm_channels[i] = False /\ Do(Op, 3)

CloseChannel ==
  /\ vm = "running" /\ HasType(val, "channel") /\ IsOpen(heap, val)
  /\ \E i \in ChannelIndexes :
       /\ Field(heap, val, 1) = Const(ToString(i))
       /\ open' = open \ {i} /\ vm_channels' = [vm_channels EXCEPT ![i] = False]
  /\ heap' = SetField(heap, val, 0, Closed)
  /\ UNCHANGED <<registers, file, dumped, vm>>

\* Instructions that do not allocate.
Move(newVal, newEnv) ==
  /\ vm = "running"
  /\ val' = newVal /\ env' = newEnv
  /\ UNCHANGED <<heap, finalizer_alist, finalize_these, vm_channels, open, file, dumped, vm>>

Push == env # val /\ Move(Nil, val)
Fetch == \E i \in 0 .. 1 :
  /\ HasType(val, "pair") \/ (i = 0 /\ HasType(val, "weak-pointer"))
  /\ Move(Field(heap, val, i), env)
SetCdr ==
  /\ vm = "running" /\ HasType(val, "pair") /\ Cdr(heap, val) # env
  /\ heap' = SetField(heap, val, 1, env)
  /\ UNCHANGED <<registers, vm_channels, open, file, dumped, vm>>

Collect == LET m == Collected(Now) IN
  /\ vm = "running" /\ Become(m) /\ UNCHANGED <<file, dumped>>

(* find_all: a vector of all objects of a type, whether anything refers to them *)
(* or not; False when the vector does not fit.                                  *)
RECURSIVE Walk(_, _)
Walk(h, a) == IF a >= h.hp THEN <<>> ELSE <<Stob(a + 1)>> \o Walk(h, a + 1 + h.mem[a][3])

\* Mutant: the walk starts behind the first object.
find_all_second(h, type) ==
  LET found == SelectSeq(Walk(h, h.newBegin + 1 + h.mem[h.newBegin][3]),
                         LAMBDA d : HeaderOf(h, d)[2] = type)
  IN  IF h.hp + Len(found) + 4 < h.limit
      THEN [okay |-> TRUE] @@ Allocate(h, "vector", found) ELSE [okay |-> FALSE, heap |-> h]

find_all(h, type) ==
  LET found == SelectSeq(Walk(h, h.newBegin), LAMBDA d : HeaderOf(h, d)[2] = type)
      room  == \A i \in 1 .. Len(found) : h.hp + i + 4 < h.limit
  IN  IF room THEN [okay |-> TRUE] @@ Allocate(h, "vector", found)
      ELSE [okay |-> FALSE, heap |-> h]

\* The header of the vector is written without a test.
Settle(m) == IF m.vm = "running" /\ Overrun(m.heap) THEN [Now EXCEPT !.vm = "overrun"] ELSE m

\* The vector, after a collection if it did not fit at first; else an exception.
FindAll ==
  LET first == find_all(heap, "pair")
      Second(c) == LET second == find_all(c.heap, "pair")
                   IN  IF c.vm # "running" THEN c
                       ELSE [c EXCEPT !.heap = second.heap,
                               !.val = IF second.okay THEN second.new ELSE Const("heap-overflow")]
      m == IF first.okay THEN [Now EXCEPT !.heap = first.heap, !.val = first.new]
                         ELSE Second(Collected(Now))
      exists == \E d \in ToSet(Walk(heap, heap.newBegin)) : HeaderOf(heap, d)[2] = "pair"
  IN  /\ vm = "running" /\ Use(IF exists THEN "find" ELSE "find-none")
      /\ Become(Settle(m)) /\ UNCHANGED <<file, dumped>>

(* Two memories hold the same graph if a walk that numbers the objects in the  *)
(* order in which it meets them finds the same things.                         *)
RECURSIVE Discover(_, _, _)
Discover(mem, seen, k) ==
  IF k > Len(seen) THEN seen
  ELSE LET n == mem[seen[k] - 1][3]
           fields == IF mem[seen[k] - 1][2] \in BTypes THEN <<>>
                     ELSE [i \in 1 .. n |-> mem[seen[k] + i - 1]]
           Add(s, d) == IF IsStob(d) /\ d[2] \notin ToSet(s) THEN Append(s, d[2]) ELSE s
       IN  Discover(mem, FoldLeft(Add, seen, fields), k + 1)

GraphFrom(mem, roots) ==
  LET Add(s, d) == IF IsStob(d) /\ d[2] \notin ToSet(s) THEN Append(s, d[2]) ELSE s
      nodes == Discover(mem, FoldLeft(Add, <<>>, roots), 1)
      Number(d) == IF IsStob(d) THEN <<"object", CHOOSE k \in DOMAIN nodes : nodes[k] = d[2]>> ELSE d
      Object(a) == LET t == mem[a - 1] IN
        <<t>> \o [i \in 1 .. t[3] |-> IF t[2] \in BTypes THEN mem[a + i - 1] ELSE Number(mem[a + i - 1])]
  IN  [roots |-> [i \in DOMAIN roots |-> Number(roots[i])],
       objects |-> [k \in DOMAIN nodes |-> Object(nodes[k])]]

(* What a collection is to do, said without copying: the objects that can be   *)
(* reached without weak pointers stay, with the contents of the things that    *)
(* have finalizers.                                                            *)
Stobs(mem, a) ==
  IF mem[a - 1][2] \in BTypes \cup {"weak-pointer"} THEN {}
  ELSE {mem[a + i][2] : i \in {j \in 0 .. mem[a - 1][3] - 1 : IsStob(mem[a + j])}}

RECURSIVE Reachable(_, _)
Reachable(mem, S) ==
  LET T == S \cup UNION {Stobs(mem, a) : a \in S} IN IF T = S THEN S ELSE Reachable(mem, T)

Addresses(cells) == {d[2] : d \in {c \in cells : IsStob(c)}}

RECURSIVE ListOf(_, _)
ListOf(h, list) ==
  IF list = Nil THEN <<>>
  ELSE <<<<Car(h, Car(h, list)), Cdr(h, Car(h, list))>>>> \o ListOf(h, Cdr(h, list))

Survivors(m) ==
  LET entries == ToSet(ListOf(m.heap, m.alist)) \cup ToSet(ListOf(m.heap, m.these))
      waiting == ToSet(ListOf(m.heap, m.alist))
  IN  Reachable(m.heap.mem,
        Addresses({m.val, m.env} \cup {e[2] : e \in entries}
                  \cup {e[1] : e \in ToSet(ListOf(m.heap, m.these))})
        \cup UNION {Stobs(m.heap.mem, e[1][2]) : e \in waiting})

\* Weak pointers to what does not stay lose their contents.
WithoutDeadWeaks(mem, alive) ==
  [a \in DOMAIN mem |->
     IF a - 1 \in DOMAIN mem /\ mem[a - 1] = Header("weak-pointer", 1)
        /\ IsStob(mem[a]) /\ mem[a][2] \notin alive
     THEN False ELSE mem[a]]

\* What the program can see of its memory.
View(mem, m, these, alist, channels) ==
  LET Flat(list) == FoldLeft(LAMBDA s, e : s \o e, <<>>, list)
  IN  [graph |-> GraphFrom(mem, <<m.val, m.env>> \o Flat(these) \o Flat(alist)
                                  \o ChannelList(channels)),
       due |-> Len(these), waiting |-> Len(alist)]

Visible(m) ==
  View(m.heap.mem, m, ListOf(m.heap, m.these), ListOf(m.heap, m.alist), m.channels)

IdealCollection(m) ==
  LET alive == Survivors(m)
      list == ListOf(m.heap, m.alist)
      Dead(i) == list[i][1][2] \notin alive /\ \A j \in 1 .. i - 1 : list[j][1] # list[i][1]
      Choose(Test(_)) == [k \in DOMAIN SelectSeq([i \in DOMAIN list |-> i], Test) |->
                            list[SelectSeq([i \in DOMAIN list |-> i], Test)[k]]]
      Stays(i) == ~Dead(i)
  IN  View(WithoutDeadWeaks(m.heap.mem, alive), m,
           Reverse(Choose(Dead)) \o ListOf(m.heap, m.these), Reverse(Choose(Stays)),
           [i \in DOMAIN m.channels |->
              IF m.channels[i] # False /\ m.channels[i][2] \in alive THEN m.channels[i] ELSE False])

(* Dumping an image of what val reaches; writing may fail after some items, and *)
(* then the file is left as it is.                                              *)
DumpedGraph ==
  LET alive == Reachable(heap.mem, Addresses({val}))
      mem == WithoutDeadWeaks(heap.mem, alive)
      Close(mm, i) == IF vm_channels[i] = False THEN mm
                      ELSE (vm_channels[i][2] :> Closed) @@ (vm_channels[i][2] + 1 :> Const("-1")) @@ mm
  IN  GraphFrom(FoldLeft(Close, mem, Channels), <<val>>)

WriteImage ==
  /\ Use("image") /\ vm = "running" /\ IsStob(val) /\ file = <<>>
  /\ \E upTo \in {2, 8, 2 * Semi}, copy \in {ImageHeap(heap, val, ChannelList(vm_channels))} :
       LET image == write_image(copy, upTo)
       IN  IF Overrun(copy.heap) \/ copy.heap.exhausted
           THEN /\ vm' = "GC error: ran out of space in new heap"
                /\ UNCHANGED <<heap, file, dumped>>
           ELSE /\ heap' = Forget(image.heap)
                /\ file' = image.file
                /\ dumped' = IF image.okay THEN <<DumpedGraph>> ELSE <<>>
                /\ UNCHANGED vm
  /\ UNCHANGED <<registers, vm_channels, open>>

(* The process ends and another one starts from the file, with its heap         *)
(* somewhere else; the file may come from a machine of another byte order, and  *)
(* a whole image may be followed by something.                                  *)
Copies == {file, Foreign(file)} \cup {Append(f, Junk) : f \in {g \in {file} : dumped # <<>>}}

Restart(f) ==
  LET size == check_image_header(f)
      semi == IF Semi < 2 * (size + StartupSpace) THEN 2 * (size + StartupSpace) ELSE Semi
      image == read_image(initialize_heap(Base, semi), f, 0)
  IN  /\ Use("image") /\ vm = "running" /\ file # <<>>
      /\ IF size # -1 /\ image.okay
         THEN /\ heap' = Forget(image.heap) /\ val' = image.start /\ vm' = "restarted"
         ELSE /\ heap' = Forget(initialize_heap(Base, Semi)) /\ val' = Nil
              /\ vm' = "Image file is unusable."
      /\ env' = Nil /\ finalizer_alist' = Nil /\ finalize_these' = Nil
      /\ vm_channels' = [i \in ChannelIndexes |-> False] /\ open' = {}
      /\ UNCHANGED <<file, dumped>>

Instruction ==
  \/ ConsPair \/ MakeWeakPointer \/ Closure \/ MakeString \/ AddFinalizer \/ TakeFinalizers
  \/ \E i \in ChannelIndexes : OpenChannel(i)
  \/ CloseChannel
  \/ Push \/ Fetch \/ SetCdr \/ Collect \/ FindAll \/ WriteImage
  \/ \E f \in Copies : Restart(f)

Next ==
  \/ steps < MaxSteps /\ Instruction /\ steps' = steps + 1
  \/ (steps = MaxSteps \/ vm # "running") /\ UNCHANGED vars

Spec == Init /\ [][Next]_vars
-----------------------------------------------------------------------------
Running == vm \in {"running", "restarted"}

\* Every object begins where the one before it ends, and the last one ends at the
\* heap pointer; every pointer in a register or an object points to an object, and
\* none of them is a broken heart (find-all, abort-collection and the image reader
\* walk the heap on the strength of this).
HeapSound == Running =>
  LET Objects == ToSet(Walk(heap, heap.newBegin))
      Points(d) == ~IsStob(d) \/ d \in Objects
  IN  /\ heap.hp <= heap.newEnd
      /\ \A d \in Objects :
           /\ d[2] + HeaderOf(heap, d)[3] <= heap.hp
           /\ HeaderOf(heap, d)[2] \notin BTypes =>
                \A i \in 0 .. HeaderOf(heap, d)[3] - 1 : Points(Field(heap, d, i))
      /\ \A d \in {val, env, finalizer_alist, finalize_these} : Points(d)
      /\ \A i \in ChannelIndexes : Points(vm_channels[i])

\* Whenever a collection starts, it keeps what the program can reach and the order
\* and sharing in it, clears the weak pointers to all else, and hands over exactly
\* the finalizers of dead things, once each (do_gc, clean_weak_pointers).
CollectionIsIdeal == Running =>
  LET c == Collected(Now) IN c.vm = vm => Visible(c) = IdealCollection(Now)

\* An OS channel is open exactly as long as the table has an open channel for it:
\* collections close what they do not trace (close-untraced-channels!).
ChannelsAgree == vm = "running" =>
  \A i \in ChannelIndexes :
    i \in open <=> vm_channels[i] # False /\ IsOpen(heap, vm_channels[i])

\* find-all finds every object of the type that the program can reach.
FoundAll ==
  [][vm' = "running" /\ HasType(val, "vector")' /\ heap'.newBegin = heap.newBegin
       /\ val'[2] > heap.hp
     => \A a \in Reachable(heap.mem, Addresses({val, env})) :
          heap.mem[a - 1][2] = "pair" =>
            \E i \in 0 .. HeaderOf(heap', val')[3] - 1 : Field(heap', val', i) = Stob(a)]_vars

\* Dumping an image leaves the heap as it was, whether it succeeds or not
\* (abort-collection undoes the collection that found the objects to write).
DumpLeavesHeap == [][file' # file => UNCHANGED <<heap, registers, vm_channels>>]_vars

\* A process starts from a file if and only if it is a whole image, and then it
\* has the graph that was dumped, with its channels closed, wherever its heap is
\* and whatever byte order the image was written in.
ImageRestored ==
  [][vm' \in {"restarted", "Image file is unusable."} => \A f \in Copies : Restart(f) =>
       /\ vm' = "restarted" <=> dumped # <<>> /\ f # Append(file, Junk)
       /\ vm' = "restarted" => GraphFrom(heap'.mem, <<val'>>) = dumped[1]]_vars

\* The heap pointer never passes the end of the heap: there is a test before every
\* allocation.
NoOverrun == vm # "overrun"
=============================================================================

------------------------------ MODULE ProxyCounts ------------------------------
(***************************************************************************)
(* Distributed reference counting of Kali proxies                          *)
(* (scheme/kali/proxy-count.scm, the counting part of scheme/vm/           *)
(* transmit.scm, and their callers in connect.scm and message.scm).        *)
(*                                                                         *)
(* Every address space that knows a proxy has a proxy-data for it in a     *)
(* slot of its proxy vector, with some of the counts that the owner handed *)
(* out.  Encoding a proxy in a message moves counts into the message; a    *)
(* message whose proxy ran out of counts waits until more counts arrive.   *)
(*                                                                         *)
(* A message is on the wire from the moment it is encoded until it is      *)
(* decoded.  The wire is unordered: threads are preempted between encoding *)
(* and writing, and send-admin-message may hand the write to a new thread. *)
(***************************************************************************)
EXTENDS Integers, Sequences, FiniteSets, Bags, Lists

CONSTANTS
  Aspace,      \* the address spaces
  Owner,       \* the one on which the proxies were made
  Proxy,       \* the proxies
  BaseCount,   \* proxy-base-count
  MaxDebit,    \* max-proxy-debit
  MaxCount,    \* max-proxy-count
  Thread,      \* bound: threads blocked at once in wait-for-proxy-counts
  NCells,      \* bound: proxy-datas in existence at once
  Sends,       \* bound: user messages each address space sends
  Occurs,      \* bound: occurrences of proxies in one message
  Collectors,  \* the address spaces whose heaps are collected
  Retries      \* encodings that run out of heap, collect and start again

ASSUME ProxyCountsAssumption ==
  /\ Owner \in Aspace
  /\ IsFiniteSet(Aspace) /\ IsFiniteSet(Proxy) /\ IsFiniteSet(Thread)
  /\ Cardinality(Proxy) <= NCells
  /\ {BaseCount, MaxDebit, MaxCount, NCells, Occurs} \subseteq Nat \ {0}
  /\ 2 * MaxDebit <= MaxCount
  /\ Sends \in [Aspace -> Nat]
  /\ Collectors \subseteq Aspace
  /\ Retries \subseteq BOOLEAN

VARIABLES
  slot,    \* proxy-vector: the cell of each proxy's proxy-data, 0 if none
  heap,    \* the proxy-datas
  live,    \* the proxies the program of an address space refers to
  wire,    \* bag of encoded messages that have not been decoded
  out,     \* the threads blocked in wait-for-proxy-counts, and their messages
  disp,    \* disp[a][b]: the dispatcher of a for messages from b
  sends    \* how many user messages an address space may still send

vars == <<slot, heap, live, wire, out, disp, sends>>

Cell == 1 .. NCells

\* A count is kept as a descriptor of 2^2 tags: a number, and the tag 0 of a fixnum.
\* decode can leave an integer without a tag where a count belongs (DecodeProxy); its
\* two lowest bits are then the tag, and the rest the number.
NumberOf(n) == n \div 4
TagOf(n) == n % 4

EmptyCell == [proxy |-> "none", count |-> 0, tag |-> 0, waiters |-> <<>>,
              asked |-> FALSE, self |-> FALSE]
NoThread == [stage |-> "free", from |-> Owner, to |-> Owner, body |-> <<>>,
             losers |-> <<>>, count |-> 0]
\* The bad proxies of a message are those that had no count left, with the counts
\* that came, and those that got too many.
Idle == [stage |-> "idle", body |-> <<>>, kind |-> "run", low |-> <<>>, high |-> <<>>]

Msg(kind, from, to, body) ==
  [kind |-> kind, from |-> from, to |-> to, body |-> body]
\* The body of a message: each occurrence of a proxy with its count and the count's tag.
Mentions(body, p) == \E i \in DOMAIN body : body[i][1] = p
Uids(ps) == [i \in DOMAIN ps |-> <<ps[i], 0, 0>>]
Post(w, m) == w (+) SetToBag({m})

\* A proxy-data.  PROXY-DATA-WAITERS is () when waiters = <<>> and ~asked,
\* #T when waiters = <<>> and asked, and a list (newest last) otherwise.
NewData(p, n) == [proxy |-> p, count |-> n, tag |-> 0, waiters |-> <<>>,
                  asked |-> FALSE, self |-> TRUE]

\* Proxy-datas are reachable from the proxy vectors, and from the threads that wait
\* for counts.
InUse(s) == {s[a][p] : a \in Aspace, p \in Proxy}
            \cup UNION {{out[t].losers[i] : i \in DOMAIN out[t].losers} : t \in Thread}
FreeCells(s) == Cell \ InUse(s)
FreshCell(s) == CHOOSE d \in FreeCells(s) : TRUE

-----------------------------------------------------------------------------
(* Encoding.                                                               *)

\* The share of its counts that a proxy puts in a message.
Debit(count) == IF count <= 1 THEN 1
                ELSE IF count < 2 * MaxDebit THEN count \div 2 ELSE MaxDebit

\* Every occurrence in a message is debited, and reported if it got the last one.
\* extract-fixnum drops a tag, whatever it is, and enter-fixnum sets that of a fixnum.
DebitProxyCount(e, d) ==
  LET n == e.heap[d].count IN
  [heap |-> [e.heap EXCEPT ![d].count = n - Debit(n), ![d].tag = 0],
   body |-> Append(e.body, <<e.heap[d].proxy, Debit(n), 0>>),
   losers |-> IF n <= 1 THEN Append(e.losers, d) ELSE e.losers]

EncodeFrom(h, ds) ==
  Fold(DebitProxyCount, [heap |-> h, body |-> <<>>, losers |-> <<>>], ds)

\* really-encode: when the heap is exhausted in the middle of the encoding, the
\* collector runs and encoding starts again; the first debits stay.
ReallyEncode(ds, retried) ==
  EncodeFrom(IF retried THEN EncodeFrom(heap, ds).heap ELSE heap, ds)

DataOf(a, ps) == [i \in DOMAIN ps |-> slot[a][ps[i]]]

\* send-message, as far as really-send-message's wait-for-proxy-counts: the
\* message goes on its way, or its thread has to wait.
SendMessage(a, b, ps, retried) ==
  LET e == ReallyEncode(DataOf(a, ps), retried) IN
  /\ a # b
  /\ sends[a] > 0
  /\ \A i \in DOMAIN ps : ps[i] \in live[a]
  /\ a = Owner => e.losers = <<>>   \* bound: the owner has 2^26 counts, and never runs out
  /\ heap' = e.heap
  /\ sends' = [sends EXCEPT ![a] = @ - 1]
  /\ \/ /\ e.losers = <<>>
        /\ wire' = Post(wire, Msg("run", a, b, e.body))
        /\ UNCHANGED out
     \/ /\ e.losers # <<>>
        /\ \E t \in Thread :
             /\ out[t].stage = "free"
             /\ out' = [out EXCEPT ![t] =
                  [stage |-> "encoded", from |-> a, to |-> b, body |-> e.body,
                   losers |-> e.losers, count |-> Len(e.losers)]]
        /\ UNCHANGED wire
  /\ UNCHANGED <<slot, live, disp>>

-----------------------------------------------------------------------------
(* Waiting for counts, and getting them.                                   *)

\* Mutant: the case of a request that is already pending is missing.
AddWaiterAlwaysAsking(t, r, d) ==
  [heap |-> [r.heap EXCEPT ![d].waiters = Append(@, t), ![d].asked = TRUE],
   uids |-> Append(r.uids, r.heap[d].proxy)]

\* One step of really-make-proxy-requests: d gets thread t as a waiter, and its
\* uid is requested if nobody had asked for counts before.
AddWaiter(t, r, d) ==
  [heap |-> [r.heap EXCEPT ![d].waiters = Append(@, t), ![d].asked = TRUE],
   uids |-> IF r.heap[d].asked THEN r.uids ELSE Append(r.uids, r.heap[d].proxy)]

\* make-proxy-requests, and the requests sent by wait-for-proxy-counts.
MakeProxyRequests(t) ==
  LET Step(r, d) == AddWaiter(t, r, d)
      r == Fold(Step, [heap |-> heap, uids |-> <<>>], out[t].losers)
  IN  /\ out[t].stage = "encoded"
      /\ heap' = r.heap
      /\ out' = [out EXCEPT ![t].stage = "waiting"]
      /\ wire' = IF r.uids = <<>> THEN wire
                 ELSE Post(wire, Msg("request", out[t].from, Owner, Uids(r.uids)))
      /\ UNCHANGED <<slot, live, disp, sends>>

\* lookup-proxy and add-to-proxy-count!: the counts that arrive with one proxy.
\* A proxy-data that has none left keeps its count and goes on the bad list together
\* with the counts, the machine integer as it is, without enter-fixnum; one that gets
\* too many is also on the bad list.
DecodeProxy(a, r, item) ==
  LET p == item[1]
      more == item[2]
      d == r.slot[a][p]
      count == r.heap[d].count
  IN  IF d = 0
      THEN LET new == FreshCell(r.slot) IN
           [r EXCEPT !.slot[a][p] = new, !.heap[new] = NewData(p, more)]
      ELSE IF count < 1
      THEN [r EXCEPT !.low = <<[data |-> d, more |-> more]>> \o @, !.heap[d].self = TRUE]
      ELSE [r EXCEPT !.high = IF MaxCount < count + more /\ a # Owner THEN <<d>> \o @ ELSE @,
                     !.heap[d].count = count + more, !.heap[d].tag = 0,
                     !.heap[d].self = TRUE]

\* What is to be done with bad proxies.
Adjusting(low, high) ==
  IF low # <<>> THEN "adjust" ELSE IF high # <<>> THEN "return" ELSE "process"

\* The reader of the connection from b decodes a message.
Decode(a, b) ==
  \E m \in BagToSet(wire) :
    LET Step(r, item) == DecodeProxy(a, r, item)
        start == [slot |-> slot, heap |-> heap, low |-> <<>>, high |-> <<>>]
        r == IF m.kind \in {"run", "counts"} THEN Fold(Step, start, m.body) ELSE start
    IN  /\ m.to = a /\ m.from = b
        /\ disp[a][b].stage = "idle"
        /\ Cardinality(FreeCells(slot)) >= Cardinality({p \in Proxy : slot[a][p] = 0}) \* bound
        /\ wire' = wire (-) SetToBag({m})
        /\ slot' = r.slot /\ heap' = r.heap
        /\ disp' = [disp EXCEPT ![a][b] =
             [stage |-> Adjusting(r.low, r.high), body |-> m.body, kind |-> m.kind,
              low |-> r.low, high |-> r.high]]
        /\ UNCHANGED <<live, out, sends>>

Smaller(m, n) == IF m <= n THEN m ELSE n

\* How many of the waiters of a proxy-data get a count: Scheme reads a quarter of what
\* arrived.
Used(r, pair) == Smaller(Len(r.heap[pair.data].waiters), NumberOf(pair.more))
Unserved(r, pair) ==
  LET ws == r.heap[pair.data].waiters IN SubSeq(ws, Used(r, pair) + 1, Len(ws))

\* The first waiters get a count each; the fields of the proxy-data are set.
ServeWaiters(r, pair, waiters) ==
  LET d == pair.data
      Served(t) == Cardinality({i \in 1 .. Used(r, pair) : r.heap[d].waiters[i] = t})
  IN  [heap |-> [r.heap EXCEPT ![d].count = NumberOf(pair.more) - Used(r, pair),
                               ![d].tag = TagOf(pair.more),
                               ![d].waiters = waiters, ![d].asked = TRUE],
       out |-> [t \in Thread |-> [r.out[t] EXCEPT !.count = @ - Served(t)]],
       dead |-> FALSE]

\* Mutant: the waiters that got nothing are forgotten.
CheckProxyWaitersForgetting(r, pair) == ServeWaiters(r, pair, <<>>)

\* check-proxy-waiters: one count for each waiter in arrival order while there are
\* counts; what is left over becomes the reference count.  The list operations fail on
\* #T, and = fails on a count that is no fixnum, which it meets only where somebody
\* waits.  Nothing after the failure happens.
CheckProxyWaiters(r, pair) ==
  LET data == r.heap[pair.data]
      fails == IF data.waiters = <<>> THEN data.asked ELSE TagOf(pair.more) # 0
  IN  IF r.dead \/ fails
      THEN [r EXCEPT !.dead = TRUE]
      ELSE ServeWaiters(r, pair, Unserved(r, pair))

\* make-return-messages: keep MaxDebit, return the rest.  A second proxy of the
\* same owner leaves the result of set-cdr! where the list of returns was.  The
\* comparison fails on a count that is no fixnum.
ReturnedCounts(count) == IF MaxCount < count THEN count - MaxDebit ELSE 0

MakeReturn(r, d) ==
  LET returned == ReturnedCounts(r.heap[d].count)
  IN  IF r.dead \/ r.heap[d].tag # 0 THEN [r EXCEPT !.dead = TRUE]
      ELSE IF returned = 0 THEN r
      ELSE [r EXCEPT !.heap[d].count = @ - returned,
                     !.returns = Append(@, <<r.heap[d].proxy, returned, 0>>)]

\* release-proxy-count-waiters!: the threads whose last count arrived are woken.  The
\* dispatcher dies with an error in check-proxy-waiters before it wakes any.
ReleaseWaiters(a, b) ==
  LET w == Fold(CheckProxyWaiters, [heap |-> heap, out |-> out, dead |-> FALSE],
                disp[a][b].low)
      Woken(t) == out[t].stage = "waiting" /\ w.out[t].count = 0 /\ ~w.dead
  IN  /\ disp[a][b].stage = "adjust"
      /\ heap' = w.heap
      /\ out' = [t \in Thread |-> IF Woken(t) THEN [w.out[t] EXCEPT !.stage = "ready"]
                                 ELSE w.out[t]]
      /\ disp' = [disp EXCEPT ![a][b] =
           IF w.dead THEN [Idle EXCEPT !.stage = "dead"]
           ELSE [@ EXCEPT !.stage = Adjusting(<<>>, disp[a][b].high), !.low = <<>>]]
      /\ UNCHANGED <<slot, live, wire, sends>>

\* A thread that was woken writes its message (really-send-message).
SendReady(t) ==
  /\ out[t].stage = "ready"
  /\ wire' = Post(wire, Msg("run", out[t].from, out[t].to, out[t].body))
  /\ out' = [out EXCEPT ![t] = NoThread]
  /\ UNCHANGED <<slot, heap, live, disp, sends>>

\* make-return-messages, and the sending of the returns.  The dispatcher dies when it
\* walks the improper list of returns.
ReturnExcess(a, b) ==
  LET r == Fold(MakeReturn, [heap |-> heap, returns |-> <<>>, dead |-> FALSE],
                disp[a][b].high)
  IN  /\ disp[a][b].stage = "return"
      /\ heap' = r.heap
      /\ wire' = IF Len(r.returns) = 1 /\ ~r.dead
                 THEN Post(wire, Msg("return", a, Owner, r.returns)) ELSE wire
      /\ disp' = [disp EXCEPT ![a][b] =
           IF Len(r.returns) > 1 \/ r.dead THEN [Idle EXCEPT !.stage = "dead"]
           ELSE [@ EXCEPT !.stage = "process", !.high = <<>>]]
      /\ UNCHANGED <<slot, live, out, sends>>

-----------------------------------------------------------------------------
(* process-message, by the type of the message.                            *)

Processing(a, b, kind) ==
  disp[a][b].stage = "process" /\ disp[a][b].kind = kind
Done(a, b) == disp' = [disp EXCEPT ![a][b] = Idle]

\* run: the thread that is spawned refers to the proxies.
ProcessRun(a, b) ==
  /\ Processing(a, b, "run")
  /\ live' = [live EXCEPT ![a] = @ \cup {disp[a][b].body[i][1] : i \in DOMAIN disp[a][b].body}]
  /\ Done(a, b)
  /\ UNCHANGED <<slot, heap, wire, out, sends>>

\* Mutant: the owner does not make a new proxy where the old one is gone.
ProcessRequestIfHeld(a, b) ==
  LET ps == [i \in DOMAIN disp[a][b].body |-> disp[a][b].body[i][1]]
      e == EncodeFrom(heap, DataOf(a, ps))
  IN  /\ Processing(a, b, "request")
      /\ \A i \in DOMAIN ps : slot[a][ps[i]] # 0 /\ heap[slot[a][ps[i]]].self
      /\ e.losers = <<>>   \* bound: the owner never runs out of counts
      /\ heap' = e.heap
      /\ wire' = Post(wire, Msg("counts", a, b, e.body))
      /\ Done(a, b)
      /\ UNCHANGED <<slot, live, out, sends>>

\* proxy-counts-request: the owner sends the proxies, and counts with them.
ProcessRequest(a, b) ==
  LET ps == [i \in DOMAIN disp[a][b].body |-> disp[a][b].body[i][1]]
      h == [d \in Cell |-> IF \E i \in DOMAIN ps : slot[a][ps[i]] = d
                           THEN [heap[d] EXCEPT !.self = TRUE] ELSE heap[d]]
      e == EncodeFrom(h, DataOf(a, ps))
  IN  /\ Processing(a, b, "request")
      /\ \A i \in DOMAIN ps : slot[a][ps[i]] # 0
      /\ e.losers = <<>>   \* bound: the owner never runs out of counts
      /\ heap' = e.heap
      /\ wire' = Post(wire, Msg("counts", a, b, e.body))
      /\ Done(a, b)
      /\ UNCHANGED <<slot, live, out, sends>>

\* Mutant: more counts are never requested.
RerequestNever(a, b) ==
  /\ Processing(a, b, "counts")
  /\ Done(a, b)
  /\ UNCHANGED <<slot, heap, live, wire, out, sends>>

\* proxy-counts: make-proxy-rerequests.
ProcessCounts(a, b) ==
  LET ps == [i \in DOMAIN disp[a][b].body |-> disp[a][b].body[i][1]]
      again == ListOf({ps[i] : i \in {j \in DOMAIN ps : heap[slot[a][ps[j]]].waiters # <<>>}})
  IN  /\ Processing(a, b, "counts")
      /\ heap' = [d \in Cell |->
           IF heap[d].waiters = <<>> /\ \E i \in DOMAIN ps : slot[a][ps[i]] = d
           THEN [heap[d] EXCEPT !.asked = FALSE] ELSE heap[d]]
      /\ wire' = IF again = <<>> THEN wire
                 ELSE Post(wire, Msg("request", a, b, Uids(again)))
      /\ Done(a, b)
      /\ UNCHANGED <<slot, live, out, sends>>

\* return-proxy-counts: add-proxy-counts! for each proxy of the message, up to one
\* whose counts are no fixnum: the dispatcher dies in +.
AddProxyCounts(a, r, item) ==
  LET p == item[1]
      d == r.slot[a][p]
      counts == r.heap[d].count + item[2]
  IN  IF r.dead \/ item[3] # 0 \/ r.heap[d].tag # 0 THEN [r EXCEPT !.dead = TRUE]
      ELSE [slot |-> IF counts = BaseCount /\ ~r.heap[d].self
                     THEN [r.slot EXCEPT ![a][p] = 0] ELSE r.slot,
            heap |-> [r.heap EXCEPT ![d].count = counts],
            dead |-> FALSE]

ProcessReturn(a, b) ==
  LET Step(r, item) == AddProxyCounts(a, r, item)
      r == Fold(Step, [slot |-> slot, heap |-> heap, dead |-> FALSE], disp[a][b].body)
  IN  /\ Processing(a, b, "return")
      /\ \A i \in DOMAIN disp[a][b].body : slot[a][disp[a][b].body[i][1]] # 0
      /\ slot' = r.slot /\ heap' = r.heap
      /\ disp' = [disp EXCEPT ![a][b] =
           IF r.dead THEN [Idle EXCEPT !.stage = "dead"] ELSE Idle]
      /\ UNCHANGED <<live, wire, out, sends>>

-----------------------------------------------------------------------------
(* Garbage collection.                                                     *)

\* The program forgets a proxy.
Drop(a, p) ==
  /\ p \in live[a]
  /\ live' = [live EXCEPT ![a] = @ \ {p}]
  /\ UNCHANGED <<slot, heap, wire, out, disp, sends>>

\* A proxy is reachable from the program and from the decoded message that a
\* dispatcher is working on.  Blocked senders only hold proxy-datas.
Held(a, p) == p \in live[a] \/ \E b \in Aspace :
                disp[a][b].kind \in {"run", "counts"} /\ Mentions(disp[a][b].body, p)

\* A machine integer that, read as a descriptor, is the header of a byte vector: the
\* collector and the encoder skip that many bytes.
LooksLikeBytes(n) == TagOf(n) = 2 /\ NumberOf(n) % 32 >= 19

\* The collector clears the weak pointers to the proxies nobody holds.
Collect(a) ==
  /\ a \in Collectors
  /\ \A b \in Aspace : \A i \in DOMAIN disp[a][b].low :   \* bound: no count derails the scan
       ~LooksLikeBytes(disp[a][b].low[i].more)
  /\ \A d \in Cell : ~LooksLikeBytes(4 * heap[d].count + heap[d].tag)
  /\ heap' = [d \in Cell |->
       IF \E p \in Proxy : slot[a][p] = d /\ ~Held(a, p)
       THEN [heap[d] EXCEPT !.self = FALSE] ELSE heap[d]]
  /\ UNCHANGED <<slot, live, wire, out, disp, sends>>

\* Mutant: the owner does not look at the count.
FindDeadIgnoringCounts(a) ==
  {p \in Proxy : slot[a][p] # 0 /\ ~heap[slot[a][p]].self}

\* find-dead-proxies
FindDeadProxies(a) ==
  {p \in Proxy : /\ slot[a][p] # 0
                 /\ ~heap[slot[a][p]].self
                 /\ a = Owner => /\ heap[slot[a][p]].count = BaseCount
                                 /\ heap[slot[a][p]].tag = 0}

\* Mutants: the counts of dropped proxies are not returned; the proxy-datas stay where
\* they are.
GcProxiesKeepingCounts(a) ==
  /\ FindDeadProxies(a) # {}
  /\ slot' = [slot EXCEPT ![a] = [p \in Proxy |-> IF p \in FindDeadProxies(a) THEN 0 ELSE @[p]]]
  /\ UNCHANGED <<heap, live, wire, out, disp, sends>>
GcProxiesKeepingSlots(a) ==
  LET counts == [p \in FindDeadProxies(a) |-> <<p, heap[slot[a][p]].count, 0>>]
  IN  /\ FindDeadProxies(a) # {}
      /\ wire' = Post(wire, Msg("return", a, Owner,
                                ListOf({counts[p] : p \in FindDeadProxies(a)})))
      /\ UNCHANGED <<slot, heap, live, out, disp, sends>>

\* gc-proxies, run after a collection: the owner frees the uids, the others drop the
\* proxy-datas and return their counts, tags and all.
GcProxies(a) ==
  LET dead == FindDeadProxies(a)
      counts == [p \in dead |-> <<p, heap[slot[a][p]].count, heap[slot[a][p]].tag>>]
  IN  /\ dead # {}
      /\ \A p \in dead :   \* bound: no count that the encoder takes for a pointer or a header
           /\ counts[p][3] # 3
           /\ ~LooksLikeBytes(4 * counts[p][2] + counts[p][3])
      /\ slot' = [slot EXCEPT ![a] = [p \in Proxy |-> IF p \in dead THEN 0 ELSE @[p]]]
      /\ wire' = IF a = Owner THEN wire
                 ELSE Post(wire, Msg("return", a, Owner, ListOf({counts[p] : p \in dead})))
      /\ UNCHANGED <<heap, live, out, disp, sends>>

-----------------------------------------------------------------------------
Bodies == UNION {[1 .. n -> Proxy] : n \in 1 .. Occurs}

Init ==
  LET order == ListOf(Proxy)
      cell == [p \in Proxy |-> CHOOSE i \in DOMAIN order : order[i] = p] IN
  /\ slot = [a \in Aspace |-> [p \in Proxy |-> IF a = Owner THEN cell[p] ELSE 0]]
  /\ heap = [d \in Cell |-> IF d <= Len(order) THEN NewData(order[d], BaseCount)
                            ELSE EmptyCell]
  /\ live = [a \in Aspace |-> IF a = Owner THEN Proxy ELSE {}]
  /\ wire = EmptyBag
  /\ out = [t \in Thread |-> NoThread]
  /\ disp = [a \in Aspace |-> [b \in Aspace |-> Idle]]
  /\ sends = Sends

Dispatch(a, b) ==
  \/ Decode(a, b)
  \/ ReleaseWaiters(a, b)
  \/ ReturnExcess(a, b)
  \/ ProcessRun(a, b)
  \/ ProcessRequest(a, b)
  \/ ProcessCounts(a, b)
  \/ ProcessReturn(a, b)

Next ==
  \/ \E a, b \in Aspace, ps \in Bodies, retried \in Retries : SendMessage(a, b, ps, retried)
  \/ \E t \in Thread : MakeProxyRequests(t) \/ SendReady(t)
  \/ \E a, b \in Aspace : Dispatch(a, b)
  \/ \E a \in Aspace, p \in Proxy : Drop(a, p)
  \/ \E a \in Aspace : Collect(a) \/ GcProxies(a)

\* Threads are scheduled round-robin, so a runnable thread runs, and so does the
\* thread of the post-gc procedures.  Programs allocate, so heaps are collected.
Fairness ==
  /\ \A a, b \in Aspace : WF_vars(Dispatch(a, b))
  /\ \A t \in Thread : WF_vars(MakeProxyRequests(t)) /\ WF_vars(SendReady(t))
  /\ \A a \in Collectors : WF_vars(Collect(a)) /\ WF_vars(GcProxies(a))

Spec == Init /\ [][Next]_vars
FairSpec == Spec /\ Fairness

-----------------------------------------------------------------------------
(* Properties.                                                             *)

ProxyData == [proxy : Proxy \cup {"none"}, count : Int, tag : 0 .. 3, waiters : Seq(Thread),
              asked : BOOLEAN, self : BOOLEAN]
Body == Seq(Proxy \X Int \X (0 .. 3))
Message == [kind : {"run", "request", "counts", "return"}, from : Aspace, to : Aspace, body : Body]
Blocked == [stage : {"free", "encoded", "waiting", "ready"}, from : Aspace, to : Aspace,
            body : Body, losers : Seq(Cell), count : Nat]
Dispatcher == [stage : {"idle", "adjust", "return", "process", "dead"}, body : Body,
               kind : {"run", "request", "counts", "return"},
               low : Seq([data : Cell, more : Nat \ {0}]), high : Seq(Cell)]

\* The shape of every variable.
TypeOK ==
  /\ slot \in [Aspace -> [Proxy -> Cell \cup {0}]]
  /\ heap \in [Cell -> ProxyData]
  /\ live \in [Aspace -> SUBSET Proxy]
  /\ IsABag(wire) /\ IsFiniteSet(DOMAIN wire) /\ DOMAIN wire \subseteq Message
  /\ out \in [Thread -> Blocked]
  /\ disp \in [Aspace -> [Aspace -> Dispatcher]]
  /\ sends \in [Aspace -> Nat]

\* Where a proxy can still be reached from outside its owner: another proxy
\* vector, a message under way, a blocked sender or a busy dispatcher.
Abroad(p) ==
  \/ \E a \in Aspace \ {Owner} : slot[a][p] # 0
  \/ \E m \in BagToSet(wire) : Mentions(m.body, p)
  \/ \E t \in Thread : Mentions(out[t].body, p)
  \/ \E a, b \in Aspace : Mentions(disp[a][b].body, p)

\* The owner gives a uid back to the freelist only when no other address space,
\* message or blocked sender refers to the proxy (find-dead-proxies and
\* add-proxy-counts!, which compare the count with proxy-base-count).
NoPrematureFree == \A p \in Proxy : slot[Owner][p] = 0 => ~Abroad(p)

\* The counts of p in a message, in a proxy vector, and in a dispatcher.
SumOf(body, p) == Total([i \in DOMAIN body |-> IF body[i][1] = p THEN body[i][2] ELSE 0])
Local(a, p) == IF slot[a][p] = 0 THEN 0 ELSE heap[slot[a][p]].count
Busy(d, p) ==
  IF d.kind = "return" THEN SumOf(d.body, p)
  ELSE Total([i \in DOMAIN d.low |-> IF heap[d.low[i].data].proxy = p THEN d.low[i].more ELSE 0])

\* Every count of p that is recorded anywhere.
InVectors(p) == Total([a \in Aspace |-> Local(a, p)])
OnWire(p) == Total([m \in DOMAIN wire |-> wire[m] * SumOf(m.body, p)])
InThreads(p) == Total([t \in Thread |-> SumOf(out[t].body, p)])
InDispatchers(p) == Total([x \in Aspace \X Aspace |-> Busy(disp[x[1]][x[2]], p)])
CountsOf(p) == InVectors(p) + OnWire(p) + InThreads(p) + InDispatchers(p)

\* check-proxy-waiters writes the reference count instead of adding to it, and
\* arrivals can come before the losers of an encoding are registered.  Even so
\* no count is ever made: once nobody waits, the recorded counts of a proxy are
\* at most those it started with, and the owner never has more than these.
NoInventedCounts ==
  \A p \in Proxy :
    slot[Owner][p] # 0 =>
      /\ heap[slot[Owner][p]].count <= BaseCount
      /\ (\A t \in Thread : out[t].stage = "free") => CountsOf(p) <= BaseCount

\* A request for p by a, or the owner's answer, is under way.
RequestPending(a, p) ==
  \/ \E m \in BagToSet(wire) :
       /\ <<m.kind, m.from>> = <<"request", a>> \/ <<m.kind, m.to>> = <<"counts", a>>
       /\ Mentions(m.body, p)
  \/ disp[Owner][a].kind = "request" /\ Mentions(disp[Owner][a].body, p)
  \/ disp[a][Owner].kind = "counts" /\ Mentions(disp[a][Owner].body, p)

\* How often a thread is on the waiter list of a proxy-data.
Places(d, t) == Cardinality({i \in DOMAIN heap[d].waiters : heap[d].waiters[i] = t})

\* A blocked sender is on the waiter list of a proxy-data that arriving counts
\* can find, once for each count it lacks.
WaiterIsFound ==
  \A t \in Thread : out[t].stage = "waiting" =>
    LET mine == {slot[out[t].from][p] : p \in Proxy} \ {0}
    IN  Total([d \in mine |-> Places(d, t)]) = out[t].count

\* kali.tex:255: all proxies (without remote values) "are eventually GC'ed when
\* no longer referenced".  Once no program and no blocked message refers to p
\* any more, its owner gets back every count and frees the uid.
Unreferenced(p) ==
  /\ \A a \in Aspace : p \notin live[a]
  /\ \A t \in Thread : ~Mentions(out[t].body, p)

ProxiesReclaimed == \A p \in Proxy : <>[]Unreferenced(p) => <>(slot[Owner][p] = 0)

\* A sender that blocks in wait-for-proxy-counts sends its message in the end.
BlockedSendersProceed ==
  \A t \in Thread : out[t].stage = "encoded" ~> out[t].stage = "free"

\* Every request for counts reaches the owner and is answered, and the answer
\* reaches the dispatcher of the requester.
RequestsAnswered ==
  \A a \in Aspace, p \in Proxy : RequestPending(a, p) ~> ~RequestPending(a, p)

\* A dispatcher survives whatever counts arrive.
DispatchersLive == \A a, b \in Aspace : disp[a][b].stage # "dead"
================================================================================

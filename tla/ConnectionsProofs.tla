--------------------------- MODULE ConnectionsProofs ---------------------------
(***************************************************************************)
(* Proofs about Connections while all connections are up (Connected): the  *)
(* locks keep messages apart, nobody is forgotten in the queue of a lock,   *)
(* and every step is one of MessageStreams, or none of it.                 *)
(***************************************************************************)
EXTENDS Connections, TLAPS

\* Where a client can be while its connection is up, and where it has the lock.
SteadyPcs == {"send", "admin", "blocked", "check", "write", "writing", "unlock", "done"}
Holding == {"check", "write", "writing", "unlock"}

LockState == [owner : Client \cup {NoThread}, queue : Seq(Client)]
ThreadState == [pc : Pcs, then : {"none", "check"}, conn : Nat, client : Thread, peer : Aspace]

Shapes ==
  /\ lock \in [Aspace -> [Aspace -> LockState]]
  /\ th \in [Thread -> ThreadState]
  /\ out = [a \in Aspace |-> [b \in Aspace |-> 1]]

\* There is nothing for the connection servers to do.
ServersIdle == \A a \in Aspace : At(Server[a], "accept") /\ backlog[a] = <<>>

\* A client keeps to its address spaces; where it needs the lock it has the lock,
\* and if it is blocked it is in the queue and will look at the channel next.
LockFor(t) == lock[Home[t]][Target[t]]
ClientSound(t) ==
  /\ th[t].pc \in SteadyPcs /\ th[t].peer = Target[t]
  /\ th[t].pc \in Holding => LockFor(t).owner = t
  /\ th[t].pc = "blocked" => /\ th[t].then = "check"
                             /\ \E i \in DOMAIN LockFor(t).queue : LockFor(t).queue[i] = t

\* The owner of a lock uses it; those in the queue are blocked, and there once;
\* a lock that somebody waits for has an owner.
Uses(t, a, b) == t \in Client /\ Home[t] = a /\ Target[t] = b
LockSound(a, b) ==
  LET l == lock[a][b]
  IN  /\ l.owner # NoThread => Uses(l.owner, a, b) /\ th[l.owner].pc \in Holding
      /\ \A i \in DOMAIN l.queue : Uses(l.queue[i], a, b) /\ th[l.queue[i]].pc = "blocked"
      /\ \A i, j \in DOMAIN l.queue : l.queue[i] = l.queue[j] => i = j
      /\ l.queue # <<>> => l.owner # NoThread

\* The inductive invariant.
IInv == /\ Shapes /\ ServersIdle
        /\ \A t \in Client : ClientSound(t)
        /\ \A a, b \in Aspace : LockSound(a, b)

-----------------------------------------------------------------------------
\* What the assumption says about one client.
LEMMA Places ==
  ASSUME NEW t \in Client
  PROVE  /\ t \in Thread /\ t # NoThread /\ home(t) = Home[t]
         /\ Home[t] \in Aspace /\ Target[t] \in Aspace
         /\ \A a \in Aspace : Server[a] # t
  BY ConnectionsAssumption DEF Thread, home

\* In a steady state a client works with the lock and the channel for its messages.
LEMMA Steady ==
  ASSUME IInv, NEW t \in Client
  PROVE  /\ Lock(t) = LockFor(t) /\ LockFor(t) \in LockState
         /\ Out(t) = 1
         /\ th[t] \in ThreadState /\ th[t].pc \in SteadyPcs
  BY Places DEF IInv, Shapes, ClientSound, Lock, Out, LockFor

\* What a step does to the record of a thread, and to the table of threads.
LEMMA RecordMoves ==
  ASSUME NEW r \in ThreadState, NEW pc \in Pcs, NEW then \in {"none", "check"}, NEW conn \in Nat,
         NEW s, \/ s = [r EXCEPT !.pc = pc] /\ then = r.then
                \/ s = [r EXCEPT !.pc = pc, !.conn = conn] /\ then = r.then
                \/ s = [r EXCEPT !.pc = pc, !.then = then]
  PROVE  s \in ThreadState /\ s.pc = pc /\ s.then = then /\ s.peer = r.peer
  BY DEF ThreadState

LEMMA TableMoves ==
  ASSUME Shapes, NEW t \in Thread, NEW r \in ThreadState, th' = [th EXCEPT ![t] = r]
  PROVE  /\ th' \in [Thread -> ThreadState] /\ th'[t] = r
         /\ \A u \in Thread : u # t => th'[u] = th[u]
  BY DEF Shapes

\* What joining the queue does to a lock.
LEMMA QueueGrows ==
  ASSUME NEW k \in LockState, NEW t \in Client
  PROVE  /\ k.queue \in Seq(Client)
         /\ [k EXCEPT !.queue = Append(@, t)] \in LockState
         /\ [k EXCEPT !.queue = Append(@, t)].owner = k.owner
         /\ [k EXCEPT !.queue = Append(@, t)].queue = Append(k.queue, t)
<1>1. k.queue \in Seq(Client) /\ k.owner \in Client \cup {NoThread}
  BY DEF LockState
<1>2. Append(k.queue, t) \in Seq(Client)
  BY <1>1
<1>3. [k EXCEPT !.queue = Append(@, t)] = [owner |-> k.owner, queue |-> Append(k.queue, t)]
  BY DEF LockState
<1>4. QED
  BY <1>1, <1>2, <1>3 DEF LockState

\* When a lock is sound after a step, in terms of its new state.
LEMMA LockSoundNext ==
  ASSUME NEW a, NEW b, NEW owner, NEW queue,
         lock'[a][b].owner = owner, lock'[a][b].queue = queue,
         owner # NoThread, Uses(owner, a, b), th'[owner].pc \in Holding,
         \A i \in DOMAIN queue : Uses(queue[i], a, b) /\ th'[queue[i]].pc = "blocked",
         \A i, j \in DOMAIN queue : queue[i] = queue[j] => i = j
  PROVE  LockSound(a, b)'
  BY DEF LockSound, Uses

\* A step that changes one lock and threads that use this lock, and leaves them
\* sound, keeps the invariant.
LEMMA LocalStep ==
  ASSUME IInv, NEW h \in Aspace, NEW p \in Aspace, UNCHANGED <<out, backlog>>,
         lock' \in [Aspace -> [Aspace -> LockState]],
         \A a, b \in Aspace : <<a, b>> # <<h, p>> => lock'[a][b] = lock[a][b],
         th' \in [Thread -> ThreadState],
         \A u \in Thread : ~Uses(u, h, p) => th'[u] = th[u],
         \A u \in Client : Uses(u, h, p) => ClientSound(u)',
         LockSound(h, p)'
  PROVE  IInv'
<1>1. Shapes'
  BY DEF IInv, Shapes
<1>2. ServersIdle'
  <2>1. ASSUME NEW a \in Aspace
        PROVE  th'[Server[a]] = th[Server[a]]
    BY <2>1, ConnectionsAssumption DEF Thread, Uses
  <2>2. QED
    BY <2>1 DEF IInv, ServersIdle, At
<1>3. ASSUME NEW u \in Client
      PROVE  ClientSound(u)'
  <2>1. CASE ~Uses(u, h, p)
    <3>1. th'[u] = th[u] /\ ClientSound(u)
      BY <2>1, Places DEF IInv
    <3>2. lock'[Home[u]][Target[u]] = lock[Home[u]][Target[u]]
      BY <2>1, Places DEF Uses
    <3>3. QED
      BY <3>1, <3>2 DEF ClientSound, LockFor
  <2>2. QED
    BY <2>1
<1>4. ASSUME NEW a \in Aspace, NEW b \in Aspace
      PROVE  LockSound(a, b)'
  <2>1. CASE <<a, b>> = <<h, p>>
    BY <2>1
  <2>2. CASE <<a, b>> # <<h, p>>
    <3>1. LockSound(a, b) /\ lock'[a][b] = lock[a][b]
      BY <2>2 DEF IInv
    <3>2. \A u : Uses(u, a, b) => th'[u] = th[u]
      BY <2>2, Places DEF Uses
    <3>3. QED
      BY <3>1, <3>2 DEF LockSound, Uses
  <2>3. QED
    BY <2>1, <2>2
<1>5. QED
  BY <1>1, <1>2, <1>3, <1>4 DEF IInv

\* Everything is free at the start.
LEMMA InitOk ==
  ASSUME Connected, Init
  PROVE  IInv
<1>1. Shapes
  <2>1. th \in [Thread -> ThreadState]
    <3>1. ASSUME NEW t \in Thread
          PROVE  th[t] \in ThreadState
      <4>1. (IF t \in Client THEN Target[t] ELSE home(t)) \in Aspace
        BY <3>1, ConnectionsAssumption DEF Thread, home
      <4>2. QED
        BY <3>1, <4>1 DEF Init, ThreadState, Pcs
    <3>2. QED
      BY <3>1 DEF Init
  <2>2. QED
    BY <2>1 DEF Init, Shapes, LockState
<1>2. ServersIdle
  <2>1. ASSUME NEW a \in Aspace
        PROVE  At(Server[a], "accept") /\ backlog[a] = <<>>
    <3>1. Server[a] \in Thread /\ Server[a] \notin Sender /\ Server[a] \notin Admin
      BY <2>1, ConnectionsAssumption DEF Thread, Client
    <3>2. QED
      BY <2>1, <3>1 DEF Init, At
  <2>2. QED
    BY <2>1 DEF ServersIdle
<1>3. ASSUME NEW t \in Client
      PROVE  ClientSound(t)
  <2>1. th[t].pc \in {"send", "admin"} /\ th[t].peer = Target[t]
    BY <1>3, Places DEF Init, Client
  <2>2. QED
    BY <2>1 DEF ClientSound, SteadyPcs, Holding
<1>4. ASSUME NEW a \in Aspace, NEW b \in Aspace
      PROVE  LockSound(a, b)
  BY <1>4 DEF Init, LockSound
<1>5. QED
  BY <1>1, <1>2, <1>3, <1>4 DEF IInv

\* A client that moves on between two places of the same kind keeps the invariant.
LEMMA MoveStep ==
  ASSUME IInv, NEW t \in Client, NEW r \in ThreadState, th' = [th EXCEPT ![t] = r],
         r.pc \in SteadyPcs, r.peer = th[t].peer,
         th[t].pc # "blocked", r.pc # "blocked", th[t].pc \in Holding <=> r.pc \in Holding,
         UNCHANGED <<lock, out, backlog>>
  PROVE  IInv'
<1> DEFINE h == Home[t]
           p == Target[t]
<1>1. /\ th' \in [Thread -> ThreadState] /\ th'[t] = r
      /\ \A u \in Thread : u # t => th'[u] = th[u]
  BY Places, TableMoves DEF IInv
<1>2. h \in Aspace /\ p \in Aspace /\ lock' \in [Aspace -> [Aspace -> LockState]]
  BY Places DEF IInv, Shapes
<1>3. ASSUME NEW u \in Client, Uses(u, h, p)
      PROVE  ClientSound(u)'
  <2>1. ClientSound(u) /\ LockFor(u)' = LockFor(u)
    BY <1>3 DEF IInv, LockFor
  <2>2. CASE u = t
    BY <1>1, <2>1, <2>2 DEF ClientSound
  <2>3. CASE u # t
    <3>1. th'[u] = th[u]
      BY <1>1, <2>3, Places
    <3>2. QED
      BY <2>1, <3>1 DEF ClientSound, LockFor
  <2>4. QED
    BY <2>2, <2>3
<1>4. LockSound(h, p)'
  <2>1. LockSound(h, p)
    BY Places DEF IInv
  <2>2. \A u \in Client : /\ th[u].pc = "blocked" => th'[u].pc = "blocked"
                          /\ th[u].pc \in Holding => th'[u].pc \in Holding
    BY <1>1, Places
  <2>3. QED
    BY <2>1, <2>2 DEF LockSound, Uses
<1>5. \A u \in Thread : ~Uses(u, h, p) => th'[u] = th[u]
  BY <1>1 DEF Uses
<1> HIDE DEF h, p
<1>6. QED
  BY <1>1, <1>2, <1>3, <1>4, <1>5, LocalStep

\* A client that gets a free lock keeps the invariant ...
LEMMA TakeStep ==
  ASSUME IInv, NEW t \in Client, NEW r \in ThreadState, th' = [th EXCEPT ![t] = r],
         r.pc \in Holding, r.peer = th[t].peer,
         th[t].pc \in {"send", "admin"}, LockFor(t).owner = NoThread,
         lock' = [lock EXCEPT ![Home[t]][Target[t]] = [LockFor(t) EXCEPT !.owner = t]],
         UNCHANGED <<out, backlog>>
  PROVE  IInv'
<1> DEFINE h == Home[t]
           p == Target[t]
           l == [LockFor(t) EXCEPT !.owner = t]
<1>1. /\ th' \in [Thread -> ThreadState] /\ th'[t] = r
      /\ \A u \in Thread : u # t => th'[u] = th[u]
  BY Places, TableMoves DEF IInv
<1>2. LockSound(h, p) /\ lock[h][p] = LockFor(t)
  BY Places DEF IInv, LockFor
<1>3. LockFor(t).queue = <<>>
  BY <1>2 DEF LockSound
<1>4. l \in LockState /\ l.owner = t /\ l.queue = <<>>
  BY <1>3, Steady DEF LockState
<1>5. /\ h \in Aspace /\ p \in Aspace /\ lock'[h][p] = l
      /\ lock' \in [Aspace -> [Aspace -> LockState]]
      /\ \A a, b \in Aspace : <<a, b>> # <<h, p>> => lock'[a][b] = lock[a][b]
  BY <1>4, Places DEF IInv, Shapes
<1>6. ASSUME NEW u \in Client, Uses(u, h, p)
      PROVE  ClientSound(u)'
  <2>1. ClientSound(u) /\ LockFor(u) = LockFor(t) /\ LockFor(u)' = l
    BY <1>5, <1>6 DEF IInv, LockFor, Uses
  <2>2. CASE u = t
    BY <1>1, <1>4, <2>1, <2>2 DEF ClientSound, Holding, SteadyPcs
  <2>3. CASE u # t
    <3>1. th'[u] = th[u]
      BY <1>1, <2>3, Places
    <3>2. th[u].pc \notin Holding /\ th[u].pc # "blocked"
      BY <1>3, <2>1, Places DEF ClientSound
    <3>3. QED
      BY <2>1, <3>1, <3>2 DEF ClientSound
  <2>4. QED
    BY <2>2, <2>3
<1>7. LockSound(h, p)'
  <2>1. Uses(t, h, p) /\ th'[t].pc \in Holding
    BY <1>1 DEF Uses
  <2>2. DOMAIN l.queue = {}
    BY <1>4
  <2> HIDE DEF h, p, l
  <2>3. QED
    BY <1>4, <1>5, <2>1, <2>2 DEF LockSound, Uses
<1>8. \A u \in Thread : ~Uses(u, h, p) => th'[u] = th[u]
  BY <1>1 DEF Uses
<1> HIDE DEF h, p, l
<1>9. QED
  BY <1>1, <1>5, <1>6, <1>7, <1>8, LocalStep

\* ... and so does one that has to wait for the lock ...
LEMMA WaitStep ==
  ASSUME IInv, NEW t \in Client, NEW r \in ThreadState, th' = [th EXCEPT ![t] = r],
         r.pc = "blocked", r.then = "check", r.peer = th[t].peer,
         th[t].pc \in {"send", "admin"}, LockFor(t).owner # NoThread,
         lock' = [lock EXCEPT ![Home[t]][Target[t]] = [LockFor(t) EXCEPT !.queue = Append(@, t)]],
         UNCHANGED <<out, backlog>>
  PROVE  IInv'
<1> DEFINE h == Home[t]
           p == Target[t]
           q == LockFor(t).queue
           l == [LockFor(t) EXCEPT !.queue = Append(@, t)]
<1>1. /\ th' \in [Thread -> ThreadState] /\ th'[t] = r
      /\ \A u \in Thread : u # t => th'[u] = th[u]
  BY Places, TableMoves DEF IInv
<1>2. LockSound(h, p) /\ lock[h][p] = LockFor(t)
  BY Places DEF IInv, LockFor
<1>3. /\ q \in Seq(Client) /\ l \in LockState
      /\ l.owner = LockFor(t).owner /\ l.queue = Append(q, t)
  BY Steady, QueueGrows
<1>4. /\ DOMAIN l.queue = DOMAIN q \cup {Len(q) + 1}
      /\ \A i \in DOMAIN q : l.queue[i] = q[i]
      /\ l.queue[Len(q) + 1] = t
      /\ Len(q) + 1 \notin DOMAIN q
  BY <1>3
<1>5. /\ h \in Aspace /\ p \in Aspace /\ lock'[h][p] = l
      /\ lock' \in [Aspace -> [Aspace -> LockState]]
      /\ \A a, b \in Aspace : <<a, b>> # <<h, p>> => lock'[a][b] = lock[a][b]
  BY <1>3, Places DEF IInv, Shapes
<1>6. ASSUME NEW u \in Client, Uses(u, h, p)
      PROVE  ClientSound(u)'
  <2>1. ClientSound(u) /\ LockFor(u) = LockFor(t) /\ LockFor(u)' = l
    BY <1>5, <1>6 DEF IInv, LockFor, Uses
  <2>2. CASE u = t
    <3>1. \E i \in DOMAIN l.queue : l.queue[i] = u
      BY <1>4, <2>2
    <3>2. QED
      BY <1>1, <2>1, <2>2, <3>1 DEF ClientSound, Holding, SteadyPcs
  <2>3. CASE u # t
    <3>1. th'[u] = th[u]
      BY <1>1, <2>3, Places
    <3>2. (\E i \in DOMAIN q : q[i] = u) => \E i \in DOMAIN l.queue : l.queue[i] = u
      BY <1>4
    <3>3. QED
      BY <1>3, <2>1, <3>1, <3>2 DEF ClientSound
  <2>4. QED
    BY <2>2, <2>3
<1>7. LockSound(h, p)'
  <2>1. LockFor(t).owner # t /\ th'[LockFor(t).owner].pc \in Holding
        /\ Uses(LockFor(t).owner, h, p)
    BY <1>1, <1>2, Places DEF LockSound, Uses, Holding
  <2>2. \A i \in DOMAIN q : q[i] # t /\ th'[q[i]].pc = "blocked" /\ Uses(q[i], h, p)
    BY <1>1, <1>2, Places DEF LockSound, Uses
  <2>3. \A i, j \in DOMAIN q : q[i] = q[j] => i = j
    BY <1>2 DEF LockSound
  <2>4. Uses(t, h, p) /\ th'[t].pc = "blocked"
    BY <1>1 DEF Uses
  <2> HIDE DEF h, p, l, q
  <2>5. /\ \A i \in DOMAIN l.queue : Uses(l.queue[i], h, p) /\ th'[l.queue[i]].pc = "blocked"
        /\ \A i, j \in DOMAIN l.queue : l.queue[i] = l.queue[j] => i = j
    BY <1>4, <2>2, <2>3, <2>4
  <2>6. l.owner # NoThread /\ th'[l.owner].pc \in Holding /\ Uses(l.owner, h, p)
    BY <1>3, <2>1
  <2>7. lock'[h][p].owner = l.owner /\ lock'[h][p].queue = l.queue
    BY <1>5
  <2>8. QED
    BY <2>5, <2>6, <2>7, LockSoundNext
<1>8. \A u \in Thread : ~Uses(u, h, p) => th'[u] = th[u]
  BY <1>1 DEF Uses
<1> HIDE DEF h, p, l
<1>9. QED
  BY <1>1, <1>5, <1>6, <1>7, <1>8, LocalStep

\* ... one that releases a lock for which nobody waits ...
LEMMA FreeStep ==
  ASSUME IInv, NEW t \in Client, NEW r \in ThreadState, th' = [th EXCEPT ![t] = r],
         r.pc = "done", r.peer = th[t].peer,
         th[t].pc = "unlock", LockFor(t).queue = <<>>,
         lock' = [lock EXCEPT ![Home[t]][Target[t]] = [owner |-> NoThread, queue |-> <<>>]],
         UNCHANGED <<out, backlog>>
  PROVE  IInv'
<1> DEFINE h == Home[t]
           p == Target[t]
           l == [owner |-> NoThread, queue |-> <<>>]
<1>1. /\ th' \in [Thread -> ThreadState] /\ th'[t] = r
      /\ \A u \in Thread : u # t => th'[u] = th[u]
  BY Places, TableMoves DEF IInv
<1>2. l \in LockState
  BY DEF LockState
<1>3. /\ h \in Aspace /\ p \in Aspace /\ lock'[h][p] = l
      /\ lock' \in [Aspace -> [Aspace -> LockState]]
      /\ \A a, b \in Aspace : <<a, b>> # <<h, p>> => lock'[a][b] = lock[a][b]
  BY <1>2, Places DEF IInv, Shapes
<1>4. ASSUME NEW u \in Client, Uses(u, h, p)
      PROVE  ClientSound(u)'
  <2>1. ClientSound(u) /\ ClientSound(t) /\ LockFor(u) = LockFor(t)
    BY <1>4 DEF IInv, LockFor, Uses
  <2>2. CASE u = t
    BY <1>1, <2>1, <2>2 DEF ClientSound, Holding, SteadyPcs
  <2>3. CASE u # t
    <3>1. th'[u] = th[u]
      BY <1>1, <2>3, Places
    <3>2. th[u].pc \notin Holding /\ th[u].pc # "blocked"
      BY <2>1, <2>3 DEF ClientSound, Holding
    <3>3. QED
      BY <2>1, <3>1, <3>2 DEF ClientSound
  <2>4. QED
    BY <2>2, <2>3
<1>5. LockSound(h, p)'
  BY <1>3 DEF LockSound
<1>6. \A u \in Thread : ~Uses(u, h, p) => th'[u] = th[u]
  BY <1>1 DEF Uses
<1> HIDE DEF h, p, l
<1>7. QED
  BY <1>1, <1>3, <1>4, <1>5, <1>6, LocalStep

\* What leaving the queue does to it.
LEMMA QueueShrinks ==
  ASSUME NEW q \in Seq(Client), q # <<>>
  PROVE  /\ 1 \in DOMAIN q /\ Head(q) = q[1] /\ q[1] \in Client /\ Tail(q) \in Seq(Client)
         /\ \A i \in DOMAIN Tail(q) : i + 1 \in DOMAIN q /\ i + 1 # 1 /\ Tail(q)[i] = q[i + 1]
         /\ \A i, j \in DOMAIN Tail(q) : i + 1 = j + 1 => i = j
         /\ \A i \in DOMAIN q : i # 1 => i - 1 \in DOMAIN Tail(q) /\ Tail(q)[i - 1] = q[i]
<1>1. /\ Len(q) \in Nat \ {0} /\ DOMAIN q = 1 .. Len(q) /\ Head(q) = q[1]
      /\ \A i \in 1 .. Len(q) : q[i] \in Client
  OBVIOUS
<1>2. /\ Tail(q) \in Seq(Client) /\ Len(Tail(q)) = Len(q) - 1 /\ DOMAIN Tail(q) = 1 .. Len(q) - 1
      /\ \A i \in 1 .. Len(q) - 1 : Tail(q)[i] = q[i + 1]
  OBVIOUS
<1>3. QED
  BY <1>1, <1>2

\* ... and one that hands a lock to the first in the queue.
LEMMA HandStep ==
  ASSUME IInv, NEW t \in Client, th[t].pc = "unlock", LockFor(t).queue # <<>>,
         th' = [th EXCEPT ![t].pc = "done",
                          ![Head(LockFor(t).queue)].pc = th[Head(LockFor(t).queue)].then],
         lock' = [lock EXCEPT ![Home[t]][Target[t]] =
                    [owner |-> Head(LockFor(t).queue), queue |-> Tail(LockFor(t).queue)]],
         UNCHANGED <<out, backlog>>
  PROVE  IInv'
<1> DEFINE h == Home[t]
           p == Target[t]
           q == LockFor(t).queue
           next == q[1]
           rest == Tail(q)
           l == [owner |-> next, queue |-> rest]
<1>1. q \in Seq(Client) /\ LockSound(h, p) /\ lock[h][p] = LockFor(t) /\ LockFor(t).owner = t
  BY Steady, Places DEF IInv, LockFor, LockState, ClientSound, Holding
<1>2. /\ 1 \in DOMAIN q /\ Head(q) = next /\ next \in Client /\ rest \in Seq(Client)
      /\ \A i \in DOMAIN rest : i + 1 \in DOMAIN q /\ i + 1 # 1 /\ rest[i] = q[i + 1]
      /\ \A i, j \in DOMAIN rest : i + 1 = j + 1 => i = j
      /\ \A i \in DOMAIN q : i # 1 => i - 1 \in DOMAIN rest /\ rest[i - 1] = q[i]
  <2> HIDE DEF q
  <2>1. QED
    BY <1>1, QueueShrinks DEF q
<1>3. /\ Uses(next, h, p) /\ th[next].pc = "blocked" /\ th[next].then = "check" /\ next # t
      /\ \A i \in DOMAIN q : q[i] = next => i = 1
  BY <1>1, <1>2 DEF LockSound, IInv, ClientSound
<1>4. /\ th' \in [Thread -> ThreadState]
      /\ th'[t].pc = "done" /\ th'[t].peer = th[t].peer
      /\ th'[next].pc = "check" /\ th'[next].peer = th[next].peer
      /\ \A u \in Thread : u # t /\ u # next => th'[u] = th[u]
  <2> HIDE DEF q
  <2>1. /\ t \in Thread /\ next \in Thread /\ th \in [Thread -> ThreadState]
        /\ th' = [th EXCEPT ![t].pc = "done", ![next].pc = "check"]
    BY <1>2, <1>3, Places DEF IInv, Shapes, q
  <2> HIDE DEF next
  <2>2. /\ [th[t] EXCEPT !.pc = "done"] \in ThreadState /\ [th[next] EXCEPT !.pc = "check"] \in ThreadState
        /\ [th[t] EXCEPT !.pc = "done"].pc = "done" /\ [th[next] EXCEPT !.pc = "check"].pc = "check"
        /\ [th[t] EXCEPT !.pc = "done"].peer = th[t].peer
        /\ [th[next] EXCEPT !.pc = "check"].peer = th[next].peer
    BY <2>1 DEF ThreadState, Pcs
  <2>3. th' = [u \in Thread |-> IF u = t THEN [th[t] EXCEPT !.pc = "done"]
                               ELSE IF u = next THEN [th[next] EXCEPT !.pc = "check"] ELSE th[u]]
    BY <1>3, <2>1
  <2> HIDE DEF next
  <2>4. QED
    BY <1>3, <2>1, <2>2, <2>3
<1>5. l \in LockState /\ l.owner = next /\ l.queue = rest
  BY <1>2 DEF LockState
<1>6. /\ h \in Aspace /\ p \in Aspace /\ lock'[h][p] = l
      /\ lock' \in [Aspace -> [Aspace -> LockState]]
      /\ \A a, b \in Aspace : <<a, b>> # <<h, p>> => lock'[a][b] = lock[a][b]
  BY <1>2, <1>5, Places DEF IInv, Shapes
<1>7. ASSUME NEW u \in Client, Uses(u, h, p)
      PROVE  ClientSound(u)'
  <2>1. ClientSound(u) /\ LockFor(u) = LockFor(t) /\ LockFor(u)' = l
    BY <1>6, <1>7 DEF IInv, LockFor, Uses
  <2> HIDE DEF h, p, q, next, rest, l
  <2>2. CASE u = t
    BY <1>4, <1>5, <2>1, <2>2 DEF ClientSound, Holding, SteadyPcs
  <2>3. CASE u = next
    BY <1>4, <1>5, <2>1, <2>3 DEF ClientSound, Holding, SteadyPcs
  <2>4. CASE u # t /\ u # next
    <3>1. th'[u] = th[u]
      BY <1>4, <2>4, Places
    <3>2. th[u].pc \notin Holding
      BY <1>1, <2>1, <2>4 DEF ClientSound
    <3>3. ASSUME th[u].pc = "blocked"
          PROVE  \E i \in DOMAIN rest : rest[i] = u
      <4>1. PICK i \in DOMAIN q : q[i] = u
        BY <2>1, <3>3 DEF ClientSound, q
      <4>2. i # 1
        BY <2>4, <4>1 DEF next
      <4>3. QED
        BY <1>2, <4>1, <4>2
    <3>4. QED
      BY <1>5, <2>1, <3>1, <3>2, <3>3 DEF ClientSound
  <2>5. QED
    BY <2>2, <2>3, <2>4
<1>8. LockSound(h, p)'
  <2>1. ASSUME NEW i \in DOMAIN q, i # 1
        PROVE  Uses(q[i], h, p) /\ th'[q[i]].pc = "blocked"
    <3>1. Uses(q[i], h, p) /\ th[q[i]].pc = "blocked" /\ q[i] \in Thread
      BY <1>1, Places DEF LockSound, Uses
    <3>2. q[i] # next /\ q[i] # t
      BY <1>3, <2>1, <3>1
    <3>3. QED
      BY <1>4, <3>1, <3>2
  <2>2. \A i, j \in DOMAIN q : q[i] = q[j] => i = j
    BY <1>1 DEF LockSound
  <2>3. next # NoThread /\ th'[next].pc \in Holding
    BY <1>2, <1>4, Places DEF Holding
  <2>4. lock'[h][p].owner = next /\ lock'[h][p].queue = rest
    BY <1>6
  <2> HIDE DEF h, p, q, next, rest, l
  <2>5. ASSUME NEW i \in DOMAIN rest
        PROVE  Uses(rest[i], h, p) /\ th'[rest[i]].pc = "blocked"
    <3>1. i + 1 \in DOMAIN q /\ i + 1 # 1 /\ rest[i] = q[i + 1]
      BY <1>2
    <3>2. QED
      BY <2>1, <3>1
  <2>6. ASSUME NEW i \in DOMAIN rest, NEW j \in DOMAIN rest, rest[i] = rest[j]
        PROVE  i = j
    <3>1. i + 1 \in DOMAIN q /\ j + 1 \in DOMAIN q /\ q[i + 1] = q[j + 1]
      BY <1>2, <2>6
    <3>2. i + 1 = j + 1
      BY <2>2, <3>1
    <3>3. QED
      BY <1>2, <3>2
  <2>7. Uses(next, h, p)
    BY <1>3
  <2>8. /\ \A i \in DOMAIN l.queue : Uses(l.queue[i], h, p) /\ th'[l.queue[i]].pc = "blocked"
        /\ \A i, j \in DOMAIN l.queue : l.queue[i] = l.queue[j] => i = j
    BY <1>5, <2>5, <2>6
  <2>9. l.owner # NoThread /\ th'[l.owner].pc \in Holding /\ Uses(l.owner, h, p)
    BY <1>5, <2>3, <2>7
  <2>10. lock'[h][p].owner = l.owner /\ lock'[h][p].queue = l.queue
    BY <1>5, <2>4
  <2>11. QED
    BY <2>8, <2>9, <2>10, LockSoundNext
<1>9. \A u \in Thread : ~Uses(u, h, p) => th'[u] = th[u]
  BY <1>3, <1>4 DEF Uses
<1> HIDE DEF h, p, q, next, rest, l
<1>10. QED
  BY <1>4, <1>6, <1>7, <1>8, <1>9, LocalStep

-----------------------------------------------------------------------------
\* What MessageStreams sees of a thread at a place.
Phase(pc) == CASE pc = "writing" -> "writing"
               [] pc \in {"unlock", "done"} -> "sent"
               [] OTHER -> "unsent"

LEMMA Phases ==
  /\ streamState = [t \in Client |-> Phase(th[t].pc)]
  /\ streamState' = [t \in Client |-> Phase(th'[t].pc)]
<1>1. \A pc : Phase(pc) = CASE pc = "writing" -> "writing"
                             [] pc = "unlock" \/ pc = "done" -> "sent"
                             [] OTHER -> "unsent"
  BY DEF Phase
<1>2. QED
  BY <1>1 DEF streamState, At

\* How the records of a client that moves change.
LEMMA PcMoves ==
  ASSUME IInv, NEW t \in Client, NEW pc \in Pcs, Goto(t, pc)
  PROVE  \E r \in ThreadState : /\ th' = [th EXCEPT ![t] = r]
                                /\ r.pc = pc /\ r.then = th[t].then /\ r.peer = th[t].peer
<1> DEFINE r == [th[t] EXCEPT !.pc = pc]
<1>1. th[t] \in ThreadState
  BY Steady
<1>2. r \in ThreadState /\ r.pc = pc /\ r.then = th[t].then /\ r.peer = th[t].peer
  BY <1>1 DEF ThreadState
<1>3. th' = [th EXCEPT ![t] = r]
  BY DEF Goto
<1> HIDE DEF r
<1>4. QED
  BY <1>2, <1>3

\* A client that stays in its phase is no step of MessageStreams; one that enters
\* another phase changes its own state only.
LEMMA PhaseMoves ==
  ASSUME IInv, NEW t \in Client, NEW r \in ThreadState, th' = [th EXCEPT ![t] = r]
  PROVE  /\ streamState' = [streamState EXCEPT ![t] = Phase(r.pc)]
         /\ Phase(r.pc) = Phase(th[t].pc) => streamState' = streamState
<1>1. th'[t] = r /\ \A u \in Client : u # t => th'[u] = th[u]
  BY TableMoves, Places DEF IInv
<1>2. /\ streamState = [u \in Client |-> Phase(th[u].pc)]
      /\ streamState' = [u \in Client |-> Phase(th'[u].pc)]
  BY Phases
<1>3. QED
  BY <1>1, <1>2

-----------------------------------------------------------------------------
\* The actions.
LEMMA SendOk ==
  ASSUME IInv, NEW t \in Client, Send(t)
  PROVE  IInv' /\ streamState' = streamState
<1>1. /\ th[t].pc = "send" /\ UNCHANGED <<out, backlog>>
      /\ t \in Thread /\ home(t) = Home[t] /\ th[t].peer = Target[t] /\ Lock(t) = LockFor(t)
  BY Places, Steady DEF Send, At, IInv, ClientSound
<1>2. CASE LockFor(t).owner = NoThread
  <2>1. /\ lock' = [lock EXCEPT ![Home[t]][Target[t]] = [LockFor(t) EXCEPT !.owner = t]]
        /\ Goto(t, "check")
    BY <1>1, <1>2 DEF Send, ObtainLock, SetLock
  <2>2. PICK r \in ThreadState : th' = [th EXCEPT ![t] = r] /\ r.pc = "check" /\ r.peer = th[t].peer
    BY <2>1, PcMoves DEF Pcs
  <2>3. IInv'
    BY <1>1, <1>2, <2>1, <2>2, TakeStep DEF Holding
  <2>4. Phase(r.pc) = Phase(th[t].pc)
    BY <1>1, <2>2 DEF Phase
  <2>5. QED
    BY <2>2, <2>3, <2>4, PhaseMoves
<1>3. CASE LockFor(t).owner # NoThread
  <2> DEFINE r == [[th[t] EXCEPT !.pc = "blocked"] EXCEPT !.then = "check"]
  <2>1. /\ lock' = [lock EXCEPT ![Home[t]][Target[t]] = [LockFor(t) EXCEPT !.queue = Append(@, t)]]
        /\ th' = [th EXCEPT ![t].pc = "blocked", ![t].then = "check"]
    BY <1>1, <1>3 DEF Send, ObtainLock, SetLock
  <2>2. /\ th[t] \in ThreadState /\ th \in [Thread -> ThreadState]
    BY Steady DEF IInv, Shapes
  <2>3. r \in ThreadState /\ r.pc = "blocked" /\ r.then = "check" /\ r.peer = th[t].peer
    BY <2>2 DEF ThreadState, Pcs
  <2>4. th' = [th EXCEPT ![t] = r]
    BY <1>1, <2>1, <2>2 DEF ThreadState
  <2> HIDE DEF r
  <2>5. IInv'
    BY <1>1, <1>3, <2>1, <2>3, <2>4, WaitStep
  <2>6. Phase(r.pc) = Phase(th[t].pc)
    BY <1>1, <2>3 DEF Phase
  <2>7. QED
    BY <2>3, <2>4, <2>5, <2>6, PhaseMoves
<1>4. QED
  BY <1>2, <1>3

LEMMA SendAdminOk ==
  ASSUME IInv, NEW t \in Client, SendAdmin(t)
  PROVE  IInv' /\ streamState' = streamState
<1>1. /\ th[t].pc = "admin" /\ UNCHANGED <<out, backlog>> /\ Out(t) # 0
      /\ t \in Thread /\ home(t) = Home[t] /\ th[t].peer = Target[t] /\ Lock(t) = LockFor(t)
  BY Places, Steady DEF SendAdmin, At, IInv, ClientSound
<1>2. CASE LockFor(t).owner = NoThread
  <2>1. /\ lock' = [lock EXCEPT ![Home[t]][Target[t]] = [LockFor(t) EXCEPT !.owner = t]]
        /\ Goto(t, "write")
    BY <1>1, <1>2 DEF SendAdmin, SetLock
  <2>2. PICK r \in ThreadState : th' = [th EXCEPT ![t] = r] /\ r.pc = "write" /\ r.peer = th[t].peer
    BY <2>1, PcMoves DEF Pcs
  <2>3. IInv'
    BY <1>1, <1>2, <2>1, <2>2, TakeStep DEF Holding
  <2>4. Phase(r.pc) = Phase(th[t].pc)
    BY <1>1, <2>2 DEF Phase
  <2>5. QED
    BY <2>2, <2>3, <2>4, PhaseMoves
<1>3. CASE LockFor(t).owner # NoThread
  <2>1. UNCHANGED lock /\ Goto(t, "send")
    BY <1>1, <1>3 DEF SendAdmin
  <2>2. PICK r \in ThreadState : th' = [th EXCEPT ![t] = r] /\ r.pc = "send" /\ r.peer = th[t].peer
    BY <2>1, PcMoves DEF Pcs
  <2>3. IInv'
    BY <1>1, <2>1, <2>2, MoveStep DEF Holding, SteadyPcs
  <2>4. Phase(r.pc) = Phase(th[t].pc)
    BY <1>1, <2>2 DEF Phase
  <2>5. QED
    BY <2>2, <2>3, <2>4, PhaseMoves
<1>4. QED
  BY <1>2, <1>3

\* The connection is up, so nobody makes one.
LEMMA CheckChannelOk ==
  ASSUME IInv, NEW t \in Client, CheckChannel(t)
  PROVE  IInv' /\ streamState' = streamState
<1>1. /\ th[t].pc = "check" /\ UNCHANGED <<lock, out, backlog>>
      /\ Goto(t, "write")
  <2>1. Out(t) = 1 /\ At(t, "check") /\ UNCHANGED <<lock, out, backlog>>
    BY Steady DEF CheckChannel
  <2>2. CheckChannel(t) => Goto(t, "write")
    BY <2>1 DEF CheckChannel
  <2>3. QED
    BY <2>1, <2>2 DEF At
<1>2. PICK r \in ThreadState : th' = [th EXCEPT ![t] = r] /\ r.pc = "write" /\ r.peer = th[t].peer
  BY <1>1, PcMoves DEF Pcs
<1>3. IInv'
  BY <1>1, <1>2, MoveStep DEF Holding, SteadyPcs
<1>4. Phase(r.pc) = Phase(th[t].pc)
  BY <1>1, <1>2 DEF Phase
<1>5. QED
  BY <1>2, <1>3, <1>4, PhaseMoves

\* Whoever begins to write is alone on its stream.
LEMMA BeginWriteOk ==
  ASSUME IInv, NEW t \in Client, BeginWrite(t)
  PROVE  IInv' /\ Streams!Begin(t)
<1> DEFINE r == [[th[t] EXCEPT !.pc = "writing"] EXCEPT !.conn = 1]
<1>1. /\ th[t].pc = "write" /\ UNCHANGED <<lock, out, backlog>>
      /\ th' = [th EXCEPT ![t].pc = "writing", ![t].conn = 1]
  BY Steady DEF BeginWrite, At
<1>2. th[t] \in ThreadState /\ th \in [Thread -> ThreadState] /\ t \in Thread
  BY Steady, Places DEF IInv, Shapes
<1>3. r \in ThreadState /\ r.pc = "writing" /\ r.peer = th[t].peer
  BY <1>2 DEF ThreadState, Pcs
<1>4. th' = [th EXCEPT ![t] = r]
  BY <1>1, <1>2 DEF ThreadState
<1> HIDE DEF r
<1>5. IInv'
  BY <1>1, <1>3, <1>4, MoveStep DEF Holding, SteadyPcs
<1>6. streamState' = [streamState EXCEPT ![t] = "writing"]
  BY <1>3, <1>4, PhaseMoves DEF Phase
<1>7. ASSUME NEW u \in Client, streamState[u] = "writing"
      PROVE  ~Streams!SameStream(t, u)
  <2>1. th[u].pc = "writing"
    BY <1>7, Phases DEF Phase
  <2>2. LockFor(t).owner = t /\ LockFor(u).owner = u
    BY <1>1, <2>1 DEF IInv, ClientSound, Holding
  <2>3. QED
    BY <1>1, <2>1, <2>2 DEF Streams!SameStream, LockFor
<1>8. streamState[t] = "unsent"
  BY <1>1, Phases DEF Phase
<1>9. QED
  BY <1>5, <1>6, <1>7, <1>8 DEF Streams!Begin

LEMMA EndWriteOk ==
  ASSUME IInv, NEW t \in Client, EndWrite(t)
  PROVE  IInv' /\ Streams!End(t)
<1>1. /\ th[t].pc = "writing" /\ UNCHANGED <<lock, out, backlog>>
      /\ Goto(t, "unlock")
  BY DEF EndWrite, At
<1>2. PICK r \in ThreadState : th' = [th EXCEPT ![t] = r] /\ r.pc = "unlock" /\ r.peer = th[t].peer
  BY <1>1, PcMoves DEF Pcs
<1>3. IInv'
  BY <1>1, <1>2, MoveStep DEF Holding, SteadyPcs
<1>4. streamState[t] = "writing" /\ streamState' = [streamState EXCEPT ![t] = "sent"]
  BY <1>1, <1>2, Phases, PhaseMoves DEF Phase
<1>5. QED
  BY <1>3, <1>4 DEF Streams!End

LEMMA UnlockOk ==
  ASSUME IInv, NEW t \in Client, Unlock(t)
  PROVE  IInv' /\ streamState' = streamState
<1>1. /\ th[t].pc = "unlock" /\ UNCHANGED <<out, backlog>>
      /\ t \in Thread /\ home(t) = Home[t] /\ th[t].peer = Target[t] /\ Lock(t) = LockFor(t)
  BY Places, Steady DEF Unlock, At, IInv, ClientSound
<1>2. CASE LockFor(t).queue = <<>>
  <2>1. /\ lock' = [lock EXCEPT ![Home[t]][Target[t]] = [owner |-> NoThread, queue |-> <<>>]]
        /\ Goto(t, "done")
    BY <1>1, <1>2 DEF Unlock, ReleaseLock, SetLock
  <2>2. PICK r \in ThreadState : th' = [th EXCEPT ![t] = r] /\ r.pc = "done" /\ r.peer = th[t].peer
    BY <2>1, PcMoves DEF Pcs
  <2>3. IInv'
    BY <1>1, <1>2, <2>1, <2>2, FreeStep
  <2>4. Phase(r.pc) = Phase(th[t].pc)
    BY <1>1, <2>2 DEF Phase
  <2>5. QED
    BY <2>2, <2>3, <2>4, PhaseMoves
<1>3. CASE LockFor(t).queue # <<>>
  <2> DEFINE next == Head(LockFor(t).queue)
  <2>1. /\ lock' = [lock EXCEPT ![Home[t]][Target[t]] = [owner |-> next, queue |-> Tail(LockFor(t).queue)]]
        /\ th' = [th EXCEPT ![t].pc = "done", ![next].pc = th[next].then]
    BY <1>1, <1>3 DEF Unlock, ReleaseLock, SetLock
  <2>2. IInv'
    BY <1>1, <1>3, <2>1, HandStep
  <2>3. next \in Client /\ th[next].pc = "blocked" /\ th[next].then = "check"
    <3>1. LockFor(t).queue \in Seq(Client) /\ LockSound(Home[t], Target[t])
      BY Steady, Places DEF IInv, LockState
    <3>2. next = LockFor(t).queue[1] /\ 1 \in DOMAIN LockFor(t).queue
      BY <1>3, <3>1, QueueShrinks
    <3>3. QED
      BY <3>1, <3>2 DEF LockSound, LockFor, Uses, IInv, ClientSound
  <2> HIDE DEF next
  <2>4. th \in [Thread -> ThreadState] /\ next \in Thread /\ next # t
    BY <1>1, <2>3, Places DEF IInv, Shapes
  <2>5. /\ th'[t].pc = "done" /\ th'[next].pc = "check"
        /\ \A u \in Thread : u # t /\ u # next => th'[u] = th[u]
    BY <1>1, <2>1, <2>3, <2>4 DEF ThreadState
  <2>6. \A u \in Client : Phase(th'[u].pc) = Phase(th[u].pc)
    BY <1>1, <2>3, <2>5, Places DEF Phase
  <2>7. QED
    BY <2>2, <2>6, Phases
<1>4. QED
  BY <1>2, <1>3

\* No other action is possible: servers have nothing to accept, and no client
\* makes a connection.
LEMMA NextOk ==
  ASSUME IInv, Next
  PROVE  IInv' /\ (Streams!Next \/ streamState' = streamState)
<1>1. ASSUME NEW t \in Client, Common(t) \/ ClientStep(t)
      PROVE  IInv' /\ (Streams!Next \/ streamState' = streamState)
  <2>1. th[t].pc \in SteadyPcs
    BY Steady
  <2>2. ~(Connect(t) \/ Accepted(t) \/ Rejected(t) \/ Retry(t) \/ FinishConnection(t) \/ Finished(t))
    BY <2>1 DEF SteadyPcs, At, Connect, Accepted, Rejected, Retry, FinishConnection, Finished
  <2>3. CASE Send(t)
    BY <2>3, SendOk
  <2>4. CASE CheckChannel(t)
    BY <2>4, CheckChannelOk
  <2>5. CASE SendAdmin(t)
    BY <2>5, SendAdminOk
  <2>6. CASE BeginWrite(t)
    BY <2>6, BeginWriteOk DEF Streams!Next
  <2>7. CASE EndWrite(t)
    BY <2>7, EndWriteOk DEF Streams!Next
  <2>8. CASE Unlock(t)
    BY <2>8, UnlockOk
  <2>9. QED
    BY <1>1, <2>2, <2>3, <2>4, <2>5, <2>6, <2>7, <2>8 DEF Common, ClientStep
<1>2. ASSUME NEW a \in Aspace
      PROVE  ~(Common(Server[a]) \/ ServerStep(Server[a]))
  <2>1. At(Server[a], "accept") /\ home(Server[a]) = a /\ backlog[a] = <<>>
    <3>1. Server[a] \notin Client /\ \A b \in Aspace : Server[b] = Server[a] => b = a
      BY ConnectionsAssumption
    <3>2. home(Server[a]) = a
      BY <3>1 DEF home
    <3>3. QED
      BY <3>2 DEF IInv, ServersIdle
  <2>2. ~Common(Server[a])
    BY <2>1 DEF Common, At, Connect, Accepted, Rejected, Retry, FinishConnection, Finished, Unlock
  <2>3. ~ServerStep(Server[a])
    BY <2>1 DEF ServerStep, At, Accept, AcceptSuperior, AcceptInferior, Welcome, Reject, Recheck
  <2>4. QED
    BY <2>2, <2>3
<1>3. QED
  BY <1>1, <1>2 DEF Next, Thread

LEMMA StutterOk ==
  ASSUME IInv, UNCHANGED vars
  PROVE  IInv' /\ streamState' = streamState
<1>1. Shapes' /\ ServersIdle'
  BY DEF IInv, Shapes, ServersIdle, At, vars
<1>2. \A t \in Client : ClientSound(t)'
  BY DEF IInv, ClientSound, LockFor, vars
<1>3. \A a, b \in Aspace : LockSound(a, b)'
  BY DEF IInv, LockSound, vars
<1>4. streamState' = streamState
  BY DEF streamState, At, vars
<1>5. QED
  BY <1>1, <1>2, <1>3, <1>4 DEF IInv

-----------------------------------------------------------------------------
\* On connections that are up the invariant holds at all times: locks and program
\* counters agree, and the queue of a lock has exactly the threads that wait.
THEOREM SteadyInvariance ==
  ASSUME Connected
  PROVE  Spec => []IInv
<1>1. Init => IInv
  BY InitOk
<1>2. IInv /\ [Next]_vars => IInv'
  BY NextOk, StutterOk
<1>3. QED
  BY <1>1, <1>2, PTL DEF Spec

\* Two threads never write to one connection at a time (connect.scm:243-311).
THEOREM MessagesKeptApart ==
  ASSUME Connected
  PROVE  Spec => []MessagesIntact
<1>1. IInv => MessagesIntact
  <2> SUFFICES ASSUME IInv, NEW t \in Client, NEW u \in Client,
                      th[t].pc = "writing", th[u].pc = "writing",
                      home(t) = home(u), th[t].peer = th[u].peer
               PROVE  t = u
    BY DEF MessagesIntact, At
  <2>1. Home[t] = Home[u] /\ Target[t] = Target[u]
    BY Places DEF IInv, ClientSound
  <2>2. LockFor(t).owner = t /\ LockFor(u).owner = u
    BY DEF IInv, ClientSound, Holding
  <2>3. QED
    BY <2>1, <2>2 DEF LockFor
<1>2. QED
  BY <1>1, SteadyInvariance, PTL

\* When everything is sent every lock is free (release-lock in rts/lock.scm).
THEOREM LocksComeBack ==
  ASSUME Connected
  PROVE  Spec => []LocksReturned
<1>1. IInv => LocksReturned
  <2> SUFFICES ASSUME IInv, Quiet, NEW a \in Aspace, NEW b \in Aspace,
                      lock[a][b].owner # NoThread
               PROVE  FALSE
    BY DEF LocksReturned
  <2>1. lock[a][b].owner \in Client /\ th[lock[a][b].owner].pc \in Holding
    BY DEF IInv, LockSound, Uses
  <2>2. th[lock[a][b].owner].pc = "done"
    BY <2>1 DEF Quiet, At
  <2>3. QED
    BY <2>1, <2>2 DEF Holding
<1>2. QED
  BY <1>1, SteadyInvariance, PTL

\* Sending implements the safety part of MessageStreams: one message at a time on
\* each stream, and each of them once.
THEOREM StreamsSafe ==
  ASSUME Connected
  PROVE  Spec => Streams!Init /\ [][Streams!Next]_streamState
<1>1. Init => Streams!Init
  <2>1. ASSUME Init, NEW t \in Client
        PROVE  Phase(th[t].pc) = "unsent"
    BY <2>1, Places DEF Init, Phase, Client
  <2>2. QED
    BY <2>1, Phases DEF Streams!Init
<1>2. IInv /\ [Next]_vars => [Streams!Next]_streamState
  BY NextOk, StutterOk
<1>3. QED
  BY <1>1, <1>2, SteadyInvariance, PTL DEF Spec
================================================================================

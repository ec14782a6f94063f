------------------------------ MODULE RemoteApply ------------------------------
(***************************************************************************)
(* Remote procedure calls (scheme/kali/message.scm: remote-apply and       *)
(* friends): the caller's side with its table of outstanding calls, and    *)
(* what the other address space does with an apply message.                *)
(*                                                                         *)
(* The table, the list of free ids and the next unused id are shared by    *)
(* all threads of the calling address space; interrupts are inhibited in   *)
(* each operation on them, so an operation is one step.  Sending and the   *)
(* dispatcher's handling of the results run between these steps.           *)
(***************************************************************************)
EXTENDS Naturals, Sequences, FiniteSets

CONSTANTS
  Caller,     \* threads that call remote-apply
  NoCaller,
  Growth,     \* by how much *apply-waiters* grows (100 in the code)
  MaxCalls    \* bound: calls of each thread

ASSUME RemoteApplyAssumption ==
  /\ NoCaller \notin Caller
  /\ Growth \in Nat \ {0}
  /\ MaxCalls \in Nat

VARIABLES
  free,       \* *free-apply-ids*, a list
  next,       \* *next-apply-id*
  size,       \* the length of *apply-waiters*
  waiters,    \* *apply-waiters*
  pc,         \* what a thread is doing
  id,         \* the id of its call
  n,          \* how many calls it has made
  got,        \* the call whose values remote-apply returned last
  calls,      \* apply messages sent and not yet executed
  results     \* results messages sent and not yet processed

vars == <<free, next, size, waiters, pc, id, n, got, calls, results>>

\* The entries of *apply-waiters*: #f, the symbol pending, a blocked thread, or
\* a list with the values of a call.  A call is named by its thread and number.
None == [is |-> "none", thread |-> NoCaller, call |-> 0]
Pending == [is |-> "pending", thread |-> NoCaller, call |-> 0]
Blocked(t) == [is |-> "thread", thread |-> t, call |-> 0]
Values(m) == [is |-> "values", thread |-> m.thread, call |-> m.call]

Message == [id : Nat, thread : Caller, call : Nat]

Init ==
  /\ free = <<>>
  /\ next = 0
  /\ size = Growth
  /\ waiters = [i \in 0 .. Growth - 1 |-> None]
  /\ pc = [t \in Caller |-> "idle"]
  /\ id = [t \in Caller |-> 0]
  /\ n = [t \in Caller |-> 0]
  /\ got = [t \in Caller |-> 0]
  /\ calls = {}
  /\ results = {}

-----------------------------------------------------------------------------
(* The caller.                                                             *)

Begin(t, uid) ==
  /\ pc[t] = "idle" /\ n[t] < MaxCalls
  /\ pc' = [pc EXCEPT ![t] = "send"]
  /\ id' = [id EXCEPT ![t] = uid]
  /\ n' = [n EXCEPT ![t] = @ + 1]
  /\ UNCHANGED <<got, calls, results>>

\* Mutant: the new entry is not marked.
ReuseIdUnmarked(t) ==
  /\ free # <<>>
  /\ Begin(t, Head(free))
  /\ free' = Tail(free)
  /\ UNCHANGED <<next, size, waiters>>

\* next-remote-apply-id, with an id from the free list.
ReuseId(t) ==
  /\ free # <<>>
  /\ Begin(t, Head(free))
  /\ free' = Tail(free)
  /\ waiters' = [waiters EXCEPT ![Head(free)] = Pending]
  /\ UNCHANGED <<next, size>>

\* next-remote-apply-id, with a new id; the table may have to grow.
NewId(t) ==
  /\ free = <<>>
  /\ Begin(t, next)
  /\ next' = next + 1
  /\ size' = IF next >= size THEN next + Growth ELSE size
  /\ waiters' = [i \in 0 .. size' - 1 |->
       IF i = next THEN Pending ELSE IF i < size THEN waiters[i] ELSE None]
  /\ UNCHANGED free

\* remote-apply sends the message.
SendApply(t) ==
  /\ pc[t] = "send"
  /\ calls' = calls \cup {[id |-> id[t], thread |-> t, call |-> n[t]]}
  /\ pc' = [pc EXCEPT ![t] = "wait"]
  /\ UNCHANGED <<free, next, size, waiters, id, n, got, results>>

\* wait-for-remote-return: no values yet, so leave the thread in the table.
WaitForRemoteReturn(t) ==
  /\ pc[t] = "wait" /\ waiters[id[t]].is = "pending"
  /\ waiters' = [waiters EXCEPT ![id[t]] = Blocked(t)]
  /\ pc' = [pc EXCEPT ![t] = "blocked"]
  /\ UNCHANGED <<free, next, size, id, n, got, calls, results>>

\* Mutant: the id is given back before the values arrive.
ReturnValuesEarly(t) ==
  /\ pc[t] = "wait"
  /\ free' = <<id[t]>> \o free
  /\ waiters' = [waiters EXCEPT ![id[t]] = None]
  /\ got' = [got EXCEPT ![t] = waiters[id[t]].call]
  /\ pc' = [pc EXCEPT ![t] = "idle"]
  /\ UNCHANGED <<next, size, id, n, calls, results>>

\* wait-for-remote-return: the values are there; give the id back.
ReturnValues(t) ==
  /\ pc[t] = "wait" /\ waiters[id[t]].is # "pending"
  /\ free' = <<id[t]>> \o free
  /\ waiters' = [waiters EXCEPT ![id[t]] = None]
  /\ got' = [got EXCEPT ![t] = waiters[id[t]].call]
  /\ pc' = [pc EXCEPT ![t] = "idle"]
  /\ UNCHANGED <<next, size, id, n, calls, results>>

-----------------------------------------------------------------------------
(* The dispatchers.                                                        *)

\* process-message, apply: a new thread applies the procedure and sends the
\* values back.  The procedures of different calls end in any order.
Apply(m) ==
  /\ m \in calls
  /\ calls' = calls \ {m}
  /\ results' = results \cup {m}
  /\ UNCHANGED <<free, next, size, waiters, pc, id, n, got>>

\* Mutant: a thread that waits is not run.
RemoteReturnSilently(m) ==
  /\ m \in results
  /\ results' = results \ {m}
  /\ waiters' = [waiters EXCEPT ![m.id] = Values(m)]
  /\ UNCHANGED <<free, next, size, pc, id, n, got, calls>>

\* remote-return: leave the values in the table; run the thread that waits.
RemoteReturn(m) ==
  /\ m \in results
  /\ results' = results \ {m}
  /\ waiters' = [waiters EXCEPT ![m.id] = Values(m)]
  /\ pc' = IF waiters[m.id].is = "pending" THEN pc
           ELSE [pc EXCEPT ![waiters[m.id].thread] = "wait"]
  /\ UNCHANGED <<free, next, size, id, n, got, calls>>

CallerStep(t) ==
  \/ ReuseId(t) \/ NewId(t) \/ SendApply(t)
  \/ WaitForRemoteReturn(t) \/ ReturnValues(t)

Next ==
  \/ \E t \in Caller : CallerStep(t)
  \/ \E m \in calls : Apply(m)
  \/ \E m \in results : RemoteReturn(m)

\* Threads are scheduled round-robin, and the dispatchers and the procedures
\* applied at the other side run to their end.
Fairness ==
  /\ \A t \in Caller : WF_vars(SendApply(t) \/ WaitForRemoteReturn(t) \/ ReturnValues(t))
  /\ WF_vars(\E m \in calls : Apply(m))
  /\ WF_vars(\E m \in results : RemoteReturn(m))

Spec == Init /\ [][Next]_vars
FairSpec == Spec /\ Fairness

-----------------------------------------------------------------------------
(* Properties.                                                             *)

Entry == [is : {"none", "pending", "thread", "values"},
          thread : Caller \cup {NoCaller}, call : Nat]

\* The shape of every variable; an id is within the table before it is used.
TypeOK ==
  /\ free \in Seq(Nat)
  /\ next \in Nat /\ size \in Nat /\ next <= size
  /\ waiters \in [0 .. size - 1 -> Entry]
  /\ pc \in [Caller -> {"idle", "send", "wait", "blocked"}]
  /\ id \in [Caller -> Nat]
  /\ n \in [Caller -> Nat]
  /\ got \in [Caller -> Nat]
  /\ calls \subseteq Message
  /\ results \subseteq Message

Busy(t) == pc[t] # "idle"

\* next-remote-apply-id never gives out an id that a call in progress uses.
IdsDistinct ==
  \A t, u \in Caller : Busy(t) /\ Busy(u) /\ id[t] = id[u] => t = u

\* An id in the free list is given out only after the call that had it is over.
FreeIdsUnused ==
  \A i \in DOMAIN free : \A t \in Caller : Busy(t) => id[t] # free[i]

\* remote-apply returns the values of the call that the thread made, however
\* calls and results of different threads overtake one another.
OwnResult == \A t \in Caller : ~Busy(t) => got[t] = n[t]

\* No wakeup is lost between testing the table and blocking: a thread is blocked
\* only while its call or its results message is on its way.
BlockedHasCall ==
  \A t \in Caller : pc[t] = "blocked" =>
    \E m \in calls \cup results : m.thread = t /\ m.id = id[t]

\* remote-return replaces the symbol pending or a blocked thread; it never finds
\* the entry of a call that is over, nor makes anything but a thread ready.
ResultExpected ==
  \A m \in results :
    /\ id[m.thread] = m.id
    /\ \/ pc[m.thread] = "wait" /\ waiters[m.id] = Pending
       \/ pc[m.thread] = "blocked" /\ waiters[m.id] = Blocked(m.thread)

\* Every remote-apply returns.
CallsReturn == \A t \in Caller : Busy(t) ~> ~Busy(t)

\* The program implements RemoteCalls.
Promise == INSTANCE RemoteCalls WITH calling <- [t \in Caller |-> Busy(t)]
ImplementsRemoteCalls == Promise!Spec
================================================================================

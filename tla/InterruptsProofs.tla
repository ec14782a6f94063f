--------------------------- MODULE InterruptsProofs ---------------------------
(***************************************************************************)
(* Proofs about Interrupts.  First the two flags: no event that a signal   *)
(* handler has noted is hidden from a program that runs with interrupts    *)
(* enabled, and handle_interrupt is only entered for an interrupt that is  *)
(* enabled.  Both need that the C compiler keeps the order of the accesses *)
(* to the two flags (InOrder).  Then the queues: the two queues of         *)
(* descriptors of the C runtime, the queue of completed channels of the    *)
(* virtual machine, and what both have to do with the threads that wait    *)
(* for i/o.                                                                *)
(***************************************************************************)
EXTENDS Interrupts, SetInduction, TLAPS

\* The places of the VM at which it is looking for events and has not yet
\* computed Spending_interruptPS anew.
Checking == {"key", "poll", "ready", "clear", "recheck"}

\* The early load of Spending_eventsPS does not happen.
NeverLate == pc # "late"

\* Between the two stores the VM knows where to go on.
ReturnKnown == pc = "reset" => ret \in {"run", "again", "schedule", "wait"}

\* An event that has been noted shows in Spending_interruptPS if interrupts are
\* enabled, but for the moment between the two stores of check_for_enabled_interrupt.
EventsShown ==
  Spending_eventsPS /\ Senabled_interruptsS # {} /\ pc # "reset" => Spending_interruptPS

\* Spending_interruptPS is set for an event or for an enabled interrupt, unless
\* check_events has taken the event and is still at work.
FlagJustified ==
  pc \notin Checking /\ Spending_interruptPS => Spending_eventsPS \/ Enabled # {}

\* The search of handle_interrupt finds an interrupt.
SearchEnds == pc = "handle" => Enabled # {}

\* The inductive invariant.
IInv == NeverLate /\ ReturnKnown /\ EventsShown /\ FlagJustified /\ SearchEnds

-----------------------------------------------------------------------------
\* A step that leaves the flags and the masks alone and neither starts nor ends
\* a part of the VM that the invariant tells apart keeps the invariant.
LEMMA QuietStep ==
  ASSUME IInv, UNCHANGED <<flags, masks>>,
         pc' # "late", pc' # "handle" \/ pc = "handle",
         pc = "reset" <=> pc' = "reset", ret' = ret, pc \in Checking => pc' \in Checking
  PROVE  IInv'
  BY DEF IInv, NeverLate, ReturnKnown, EventsShown, FlagJustified, SearchEnds, Enabled, flags, masks

\* A signal handler that notes an event keeps the invariant.
LEMMA NotingStep ==
  ASSUME IInv, NOTE_EVENT, UNCHANGED masks,
         pc = "reset" <=> pc' = "reset", ret' = ret, pc' # "late", pc' # "handle" \/ pc = "handle"
  PROVE  IInv'
  BY DEF IInv, NeverLate, ReturnKnown, EventsShown, FlagJustified, SearchEnds, Enabled, masks, NOTE_EVENT

\* check_for_enabled_interrupt establishes the invariant, whatever the masks are.
LEMMA CheckStep ==
  ASSUME InOrder, NEW pendingInts, NEW enabled, NEW after \in {"run", "again", "schedule", "wait"},
         check_for_enabled_interrupt(pendingInts, enabled, after)
  PROVE  IInv'
  BY DEF IInv, NeverLate, ReturnKnown, EventsShown, FlagJustified, SearchEnds, Enabled,
         check_for_enabled_interrupt

\* The VM has nothing left to look at when it takes the events.
LEMMA TakeEventsStep ==
  ASSUME NEW from, TakeEvents(from)
  PROVE  IInv'
  BY DEF IInv, NeverLate, ReturnKnown, EventsShown, FlagJustified, SearchEnds, Checking, TakeEvents

\* An interrupt that process-event adds is found by the check that follows.
LEMMA EventStep ==
  ASSUME IInv, NEW int, Event(int), UNCHANGED flags, pc # "reset"
  PROVE  IInv'
  BY DEF IInv, NeverLate, ReturnKnown, EventsShown, FlagJustified, SearchEnds, Checking, Event, GoTo, flags

-----------------------------------------------------------------------------
\* Nothing has been noted at the start.
LEMMA InitOk == Init => IInv
  BY DEF Init, EventInit, IInv, NeverLate, ReturnKnown, EventsShown, FlagJustified, SearchEnds

\* No signal and no descriptor that becomes ready disturbs the invariant.
LEMMA OutsideStep ==
  ASSUME IInv, Outside
  PROVE  IInv'
<1>1. CASE KeyboardSignal
  <2>1. NOTE_EVENT /\ UNCHANGED <<ret, masks>>
    BY <1>1 DEF KeyboardSignal, when_keyboard_interrupt, EventsOnly
  <2>2. pc' # "late" /\ (pc' # "handle" \/ pc = "handle") /\ (pc = "reset" <=> pc' = "reset")
    BY <1>1 DEF KeyboardSignal, Interrupted, IInv, NeverLate
  <2>3. QED
    BY <2>1, <2>2, NotingStep
<1>2. CASE Tick
  <2>1. UNCHANGED <<pc, ret, masks>> /\ pc' # "late"
    BY <1>2 DEF Tick, control, EventsOnly, IInv, NeverLate
  <2>2. NOTE_EVENT \/ UNCHANGED flags
    BY <1>2 DEF Tick, when_alarm_interrupt
  <2>3. QED
    BY <2>1, <2>2, NotingStep, QuietStep
<1>3. CASE BecomesReady
  <2>1. UNCHANGED <<pc, ret, flags, masks>> /\ pc' # "late"
    BY <1>3 DEF BecomesReady, control, EventsOnly, IInv, NeverLate
  <2>2. QED
    BY <2>1, QuietStep
<1>4. QED
  BY <1>1, <1>2, <1>3 DEF Outside

\* The steps that look at the flags and at the events.
LEMMA LookingStep ==
  ASSUME IInv, InOrder,
         Poll \/ SetAgain \/ SetLate \/ KEYBOARD_INTERRUPT_EVENT \/ NoKeyboardInterrupt
         \/ PollFds \/ IO_COMPLETION_EVENT \/ ALARM_EVENT \/ NO_EVENT
         \/ ClearEvents \/ Recheck \/ Again
  PROVE  IInv'
<1>1. CASE Poll
  <2>1. CASE TakeEvents("poll")
    BY <2>1, TakeEventsStep
  <2>2. CASE ~TakeEvents("poll")
    BY <1>1, <2>2 DEF Poll, eventVars, EventsOnly, flags, masks, IInv, NeverLate, ReturnKnown, EventsShown,
       FlagJustified, SearchEnds, Enabled, Checking
  <2>3. QED
    BY <2>1, <2>2
<1>2. CASE SetAgain
  BY <1>2 DEF SetAgain, EventsOnly, masks, IInv, NeverLate, ReturnKnown, EventsShown,
     FlagJustified, SearchEnds, Enabled, Checking
<1>3. CASE SetLate
  BY <1>3 DEF SetLate, IInv, NeverLate
<1>4. CASE KEYBOARD_INTERRUPT_EVENT
  <2>1. UNCHANGED flags /\ pc = "key"
    BY <1>4 DEF KEYBOARD_INTERRUPT_EVENT, TakeKeyboard
  <2>2. QED
    BY <1>4, <2>1, EventStep DEF KEYBOARD_INTERRUPT_EVENT
<1>5. CASE NoKeyboardInterrupt
  <2>1. UNCHANGED <<ret, flags, masks>> /\ pc = "key" /\ pc' = "poll"
    BY <1>5 DEF NoKeyboardInterrupt, eventVars, EventsOnly, GoTo
  <2>2. QED
    BY <2>1, QuietStep DEF Checking
<1>6. CASE PollFds
  <2>1. UNCHANGED <<ret, masks>> /\ pc = "poll" /\ pc' \in {"ready", "key"}
    BY <1>6 DEF PollFds, EventsOnly, GoTo
  <2>2. UNCHANGED flags
    BY <1>6 DEF PollFds, PollPorts, eventVars
  <2>3. QED
    BY <2>1, <2>2, QuietStep DEF Checking
<1>7. CASE IO_COMPLETION_EVENT
  BY <1>7, EventStep DEF IO_COMPLETION_EVENT
<1>8. CASE ALARM_EVENT
  BY <1>8, EventStep DEF ALARM_EVENT
<1>9. CASE NO_EVENT
  <2>1. UNCHANGED <<ret, flags, masks>> /\ pc = "ready" /\ pc' \in {"clear", "recheck"}
    BY <1>9 DEF NO_EVENT, eventVars, EventsOnly, GoTo
  <2>2. QED
    BY <2>1, QuietStep DEF Checking
<1>10. CASE ClearEvents
  BY <1>10 DEF ClearEvents, GoTo, EventsOnly, masks, IInv, NeverLate, ReturnKnown, EventsShown,
     FlagJustified, SearchEnds, Checking
<1>11. CASE Recheck
  BY <1>11, CheckStep DEF Recheck
<1>12. CASE Again
  <2>1. CASE TakeEvents(caller)
    BY <2>1, TakeEventsStep
  <2>2. CASE ~TakeEvents(caller)
    BY <1>12, <2>2 DEF Again, GoTo, eventVars, EventsOnly, flags, masks, IInv, NeverLate,
       ReturnKnown, EventsShown, FlagJustified, SearchEnds, Enabled, Checking
  <2>3. QED
    BY <2>1, <2>2
<1>13. QED
  BY <1>1, <1>2, <1>3, <1>4, <1>5, <1>6, <1>7, <1>8, <1>9, <1>10, <1>11, <1>12

\* The steps that deliver an interrupt, sleep, or end an operation.
LEMMA RunningStep ==
  ASSUME IInv, InOrder,
         DeliverOther \/ DeliverIo \/ FollowFalse \/ Wait \/ WaitForEvent \/ WaitKeyboard \/ EnterSelect
         \/ SelectReady \/ SelectTimeout \/ SelectInterrupted \/ SetAlarm \/ WaitForChannel
  PROVE  IInv'
<1>1. CASE DeliverOther
  BY <1>1, CheckStep DEF DeliverOther
<1>2. CASE DeliverIo
  BY <1>2, CheckStep DEF DeliverIo
<1>3. CASE Wait
  <2>1. CASE TakeEvents("wait")
    BY <2>1, TakeEventsStep
  <2>2. CASE ~TakeEvents("wait")
    <3>1. UNCHANGED <<ret, flags, masks>> /\ pc = "wait" /\ pc' \in {"run", "pending?"}
      BY <1>3, <2>2 DEF Wait, GoTo, eventVars, EventsOnly
    <3>2. QED
      BY <3>1, QuietStep DEF Checking
  <2>3. QED
    BY <2>1, <2>2
<1>4. CASE WaitForEvent
  <2>1. UNCHANGED <<ret, flags, masks>> /\ pc = "pending?" /\ pc' \in {"run", "keyboard?"}
    BY <1>4 DEF WaitForEvent, GoTo, EventsOnly
  <2>2. QED
    BY <2>1, QuietStep DEF Checking
<1>5. CASE WaitKeyboard
  <2>1. UNCHANGED <<ret, flags, masks>> /\ pc = "keyboard?" /\ pc' \in {"run", "fds"}
    BY <1>5 DEF WaitKeyboard, GoTo, EventsOnly
  <2>2. QED
    BY <2>1, QuietStep DEF Checking
<1>6. CASE SelectReady \/ SelectTimeout \/ SelectInterrupted
  <2>1. UNCHANGED <<ret, masks>> /\ pc \in {"select", "eintr"} /\ pc' = "run"
    BY <1>6 DEF SelectReady, SelectTimeout, SelectInterrupted, GoTo, EventsOnly
  <2>2. NOTE_EVENT \/ UNCHANGED flags
    BY <1>6 DEF SelectReady, SelectTimeout, SelectInterrupted, StopWaiting, WaitInterrupted
  <2>3. QED
    BY <2>1, <2>2, NotingStep, QuietStep DEF Checking
<1>7. CASE SetAlarm
  <2>1. UNCHANGED <<ret, masks>> /\ pc = "schedule" /\ pc' = "run"
    BY <1>7 DEF SetAlarm, GoTo, EventsOnly
  <2>2. NOTE_EVENT \/ UNCHANGED flags
    BY <1>7 DEF SetAlarm, schedule_alarm_interrupt
  <2>3. QED
    BY <2>1, <2>2, NotingStep, QuietStep DEF Checking
<1>8. CASE WaitForChannel
  <2>1. UNCHANGED <<pc, ret, flags, masks>> /\ pc' # "late"
    BY <1>8 DEF WaitForChannel, eventVars, control, IInv, NeverLate
  <2>2. QED
    BY <2>1, QuietStep
<1>9. CASE FollowFalse \/ EnterSelect
  <2>1. UNCHANGED <<ret, flags, masks>> /\ pc \in {"handle", "fds"} /\ pc' \in {"crashed", "select"}
    BY <1>9 DEF FollowFalse, IoFirst, EnterSelect, GoTo, eventVars, EventsOnly
  <2>2. QED
    BY <2>1, QuietStep DEF Checking
<1>10. QED
  BY <1>1, <1>2, <1>3, <1>4, <1>5, <1>6, <1>7, <1>8, <1>9

\* The program's own steps.
LEMMA ProgramStep ==
  ASSUME IInv, InOrder, Program
  PROVE  IInv'
<1>1. CASE \E mask \in {{}, AllInterrupts} : SetEnabled(mask)
  BY <1>1, CheckStep DEF SetEnabled
<1>2. CASE ScheduleInterrupt
  BY <1>2, CheckStep DEF ScheduleInterrupt
<1>3. CASE RootWait
  BY <1>3, CheckStep DEF RootWait
<1>4. ASSUME NEW c \in Fds, NEW status \in Modes, OpenChannel(c, status)
      PROVE  IInv'
  <2>1. UNCHANGED <<pc, ret, flags, masks>> /\ pc' # "late"
    BY <1>4 DEF OpenChannel, eventVars, control, IInv, NeverLate
  <2>2. QED
    BY <2>1, QuietStep
<1>5. ASSUME NEW c \in Fds, close_channel(c) \/ OperationDone(c) \/ StealChannel(c)
      PROVE  IInv'
  <2>1. UNCHANGED <<pc, ret, flags, masks>> /\ pc' # "late"
    BY <1>5 DEF close_channel, OperationDone, StealChannel, control, EventsOnly, IInv, NeverLate
  <2>2. QED
    BY <2>1, QuietStep
<1>6. ASSUME NEW c \in Fds, OperationPending(c)
      PROVE  IInv'
  BY <1>6 DEF OperationPending, Resting, control, IInv, NeverLate, ReturnKnown, EventsShown, FlagJustified,
     SearchEnds
<1>7. QED
  BY <1>1, <1>2, <1>3, <1>4, <1>5, <1>6 DEF Program

\* Every step keeps the invariant.
LEMMA NextOk ==
  ASSUME IInv, InOrder, [Next]_vars
  PROVE  IInv'
<1>1. CASE UNCHANGED vars
  <2>1. UNCHANGED <<pc, ret, flags, masks>> /\ pc' # "late"
    BY <1>1 DEF vars, eventVars, control, IInv, NeverLate
  <2>2. QED
    BY <2>1, QuietStep
<1>2. CASE Next
  BY <1>1, <1>2, OutsideStep, LookingStep, RunningStep, ProgramStep DEF Next, VmStep, Gone
<1>3. QED
  BY <1>1, <1>2

\* An event that a signal handler notes while the program runs with interrupts
\* enabled is seen by its next poll, for all queues, channels, times and delays:
\* no event is hidden by check_for_enabled_interrupt (scheme/vm/interrupt.scm)
\* or by the pending operation of scheme/vm/prim-io.scm that clears the flag.
THEOREM EventsVisible == ASSUME InOrder PROVE Spec => []NoHiddenEvents
<1>1. Init => IInv
  BY InitOk
<1>2. IInv /\ [Next]_vars => IInv'
  BY NextOk
<1>3. IInv => NoHiddenEvents
  BY DEF IInv, EventsShown, NoHiddenEvents
<1>4. QED
  BY <1>1, <1>2, <1>3, PTL DEF Spec

\* get-highest-priority-interrupt! finds an interrupt whenever handle_interrupt
\* is entered (scheme/vm/interrupt.scm); it has no other way to end.
THEOREM HandlerFound == ASSUME InOrder PROVE Spec => []SearchEnds
<1>1. Init => IInv
  BY InitOk
<1>2. IInv /\ [Next]_vars => IInv'
  BY NextOk
<1>3. IInv => SearchEnds
  BY DEF IInv
<1>4. QED
  BY <1>1, <1>2, <1>3, PTL DEF Spec

-----------------------------------------------------------------------------
(* Lemmas about EventQueue: what findrm, rmque and the loop of             *)
(* queue_ready_ports leave of a queue, for queues of every length, and what *)
(* each C function does to the two queues together.                        *)

\* The first n steps of the function that Filter computes.
Kept(k, q, S, n) ==
  k = [i \in 0 .. n |->
         IF i = 0 THEN <<>>
         ELSE IF q[i] \in S THEN Append(k[i - 1], q[i]) ELSE k[i - 1]]

\* No element of the queue is there twice.
Once(q) == \A i, j \in DOMAIN q : q[i] = q[j] => i = j

\* The recursion of Filter has a solution, and Filter is its last value.
LEMMA FilterIsDefined ==
  ASSUME NEW q, Len(q) \in Nat, NEW S
  PROVE  \E k : Kept(k, q, S, Len(q)) /\ Filter(q, S) = k[Len(q)]
<1> DEFINE D == {n \in 0 .. Len(q) : \E k : Kept(k, q, S, n)}
<1>1. 0 \in D
  <2>1. Kept([i \in 0 .. 0 |-> <<>>], q, S, 0)
    BY DEF Kept
  <2>2. \E k : Kept(k, q, S, 0)
    BY <2>1, Zenon
  <2>3. QED
    BY <2>2
<1>2. ASSUME NEW n \in 1 .. Len(q), n - 1 \in D
      PROVE  n \in D
  <2>1. PICK k : Kept(k, q, S, n - 1)
    BY <1>2
  <2> DEFINE e == IF q[n] \in S THEN Append(k[n - 1], q[n]) ELSE k[n - 1]
  <2> DEFINE g == [i \in 0 .. n |-> IF i = n THEN e ELSE k[i]]
  <2>2. Kept(g, q, S, n)
    <3>1. ASSUME NEW i \in 0 .. n
          PROVE  g[i] = IF i = 0 THEN <<>>
                        ELSE IF q[i] \in S THEN Append(g[i - 1], q[i]) ELSE g[i - 1]
      <4>1. CASE i = n
        <5>1. g[i] = e /\ g[i - 1] = k[n - 1]
          BY <4>1
        <5>2. QED
          BY <4>1, <5>1
      <4>2. CASE i # n
        <5>1. i \in 0 .. n - 1 /\ g[i] = k[i] /\ (i # 0 => g[i - 1] = k[i - 1])
          BY <4>2
        <5>2. QED
          BY <5>1, <2>1 DEF Kept
      <4>3. QED
        BY <4>1, <4>2
    <3>2. QED
      BY <3>1 DEF Kept
  <2>3. \E h : Kept(h, q, S, n)
    <3> HIDE DEF g
    <3>1. QED
      BY <2>2
  <2>4. QED
    BY <2>3
<1>3. 0 .. Len(q) \subseteq D
  <2> HIDE DEF D
  <2>1. QED
    BY <1>1, <1>2, InductionTo
<1>4. PICK k : Kept(k, q, S, Len(q))
  BY <1>3
<1> DEFINE f == CHOOSE h : Kept(h, q, S, Len(q))
<1>5. Kept(f, q, S, Len(q))
  BY <1>4
<1>6. Filter(q, S) = f[Len(q)]
  BY DEF Filter, Kept
<1>7. QED
  <2> HIDE DEF f
  <2>1. QED
    BY <1>5, <1>6

\* Filter keeps the elements that are in S, and an order without repetitions.
LEMMA FilterFacts ==
  ASSUME NEW X, NEW q \in Seq(X), NEW S
  PROVE  /\ Filter(q, S) \in Seq(X)
         /\ Members(Filter(q, S)) = Members(q) \cap S
         /\ Once(q) => Once(Filter(q, S))
<1>1. PICK k : Kept(k, q, S, Len(q)) /\ Filter(q, S) = k[Len(q)]
  BY FilterIsDefined
<1>2. k[0] = <<>>
  BY <1>1 DEF Kept
<1>3. ASSUME NEW n \in 1 .. Len(q)
      PROVE  k[n] = IF q[n] \in S THEN Append(k[n - 1], q[n]) ELSE k[n - 1]
  <2>1. n \in 0 .. Len(q) /\ n # 0
    OBVIOUS
  <2>2. QED
    BY <1>1, <2>1 DEF Kept
<1> DEFINE Found(n) == {q[i] : i \in 1 .. n}
<1> DEFINE D == {n \in 0 .. Len(q) :
                   /\ k[n] \in Seq(X)
                   /\ Members(k[n]) = Found(n) \cap S
                   /\ Once(q) => Once(k[n])}
<1>4. 0 \in D
  <2>1. Found(0) = {} /\ k[0] \in Seq(X) /\ DOMAIN k[0] = {}
    BY <1>2
  <2>2. Members(k[0]) = {} /\ Once(k[0])
    BY <2>1 DEF Members, Once
  <2>3. QED
    BY <2>1, <2>2
<1>5. ASSUME NEW n \in 1 .. Len(q), n - 1 \in D
      PROVE  n \in D
  <2>1. k[n - 1] \in Seq(X) /\ Members(k[n - 1]) = Found(n - 1) \cap S /\ (Once(q) => Once(k[n - 1]))
    BY <1>5
  <2>2. Found(n) = Found(n - 1) \cup {q[n]} /\ q[n] \in X
    OBVIOUS
  <2>3. CASE q[n] \in S
    <3>1. k[n] = Append(k[n - 1], q[n])
      BY <1>3, <2>3
    <3>2. k[n] \in Seq(X) /\ Len(k[n]) = Len(k[n - 1]) + 1
      BY <2>1, <2>2, <3>1
    <3>3. k[n][Len(k[n])] = q[n] /\ \A i \in 1 .. Len(k[n - 1]) : k[n][i] = k[n - 1][i]
      BY <2>1, <2>2, <3>1
    <3>4. Members(k[n]) = Members(k[n - 1]) \cup {q[n]}
      <4>1. DOMAIN k[n] = 1 .. Len(k[n - 1]) + 1 /\ DOMAIN k[n - 1] = 1 .. Len(k[n - 1]) /\ Len(k[n - 1]) \in Nat
        BY <3>2, <2>1
      <4>2. \A i \in DOMAIN k[n - 1] : i \in DOMAIN k[n] /\ k[n][i] = k[n - 1][i]
        BY <4>1, <3>3
      <4>3. Len(k[n]) \in DOMAIN k[n] /\ \A i \in DOMAIN k[n] : i \in DOMAIN k[n - 1] \/ i = Len(k[n])
        BY <4>1, <3>2
      <4>4. QED
        BY <4>2, <4>3, <3>3 DEF Members
    <3>5. ASSUME Once(q)
          PROVE  Once(k[n])
      <4>1. q[n] \notin Found(n - 1)
        BY <3>5 DEF Once
      <4>2. q[n] \notin Members(k[n - 1])
        BY <4>1, <2>1
      <4>3. DOMAIN k[n] = 1 .. Len(k[n - 1]) + 1 /\ DOMAIN k[n - 1] = 1 .. Len(k[n - 1])
        BY <3>2, <2>1
      <4>4. \A i \in DOMAIN k[n - 1] : k[n][i] # q[n]
        BY <4>2, <4>3, <3>3 DEF Members
      <4>5. \A i, j \in DOMAIN k[n - 1] : k[n - 1][i] = k[n - 1][j] => i = j
        BY <3>5, <2>1 DEF Once
      <4>6. \A i \in DOMAIN k[n] : i \in DOMAIN k[n - 1] \/ i = Len(k[n])
        BY <4>3, <3>2, <2>1
      <4>7. QED
        BY <4>3, <4>4, <4>5, <4>6, <3>2, <3>3 DEF Once
    <3>6. QED
      BY <3>2, <3>4, <3>5, <2>1, <2>2, <2>3
  <2>4. CASE q[n] \notin S
    <3>1. k[n] = k[n - 1]
      BY <1>3, <2>4
    <3>2. QED
      BY <3>1, <2>1, <2>2, <2>4
  <2>5. QED
    BY <2>3, <2>4
<1>6. Len(q) \in D
  <2> HIDE DEF D
  <2>1. Len(q) \in Nat /\ Len(q) \in 0 .. Len(q)
    OBVIOUS
  <2>2. QED
    BY <1>4, <1>5, <2>1, InductionTo
<1>7. Found(Len(q)) = Members(q)
  BY DEF Members
<1>8. QED
  BY <1>1, <1>6, <1>7

\* What is on one of two queues is on the queue that holds both, end to end.
LEMMA ConcatFacts ==
  ASSUME NEW X, NEW p \in Seq(X), NEW q \in Seq(X)
  PROVE  /\ p \o q \in Seq(X)
         /\ Members(p \o q) = Members(p) \cup Members(q)
         /\ Once(p \o q) <=> Once(p) /\ Once(q) /\ Members(p) \cap Members(q) = {}
<1>1. /\ Len(p) \in Nat /\ Len(q) \in Nat /\ p \o q \in Seq(X)
      /\ DOMAIN p = 1 .. Len(p) /\ DOMAIN q = 1 .. Len(q)
      /\ DOMAIN (p \o q) = 1 .. Len(p) + Len(q)
  OBVIOUS
<1>2. \A i \in DOMAIN p : (p \o q)[i] = p[i]
  OBVIOUS
<1>3. \A i \in DOMAIN q : Len(p) + i \in DOMAIN (p \o q) /\ (p \o q)[Len(p) + i] = q[i]
  OBVIOUS
<1>4. \A i \in DOMAIN (p \o q) : i \in DOMAIN p \/ \E j \in DOMAIN q : i = Len(p) + j
  <2>1. \A i \in DOMAIN (p \o q) : i \in DOMAIN p \/ (i - Len(p) \in DOMAIN q /\ i = Len(p) + (i - Len(p)))
    BY <1>1
  <2>2. QED
    BY <2>1
<1> DEFINE pq == p \o q
<1>5. Members(pq) = Members(p) \cup Members(q)
  <2>1. \A i \in DOMAIN p : p[i] \in Members(pq)
    BY <1>1, <1>2 DEF Members
  <2>2. \A i \in DOMAIN q : q[i] \in Members(pq)
    BY <1>3 DEF Members
  <2>3. \A i \in DOMAIN pq : pq[i] \in Members(p) \cup Members(q)
    BY <1>2, <1>3, <1>4 DEF Members
  <2>4. QED
    BY <2>1, <2>2, <2>3 DEF Members
<1>6. ASSUME Once(pq)
      PROVE  Once(p) /\ Once(q) /\ Members(p) \cap Members(q) = {}
  <2> HIDE DEF pq
  <2>1. \A i, j \in DOMAIN p : p[i] = p[j] => i = j
    BY <1>1, <1>2, <1>6 DEF Once, pq
  <2>2. ASSUME NEW i \in DOMAIN q, NEW j \in DOMAIN q, q[i] = q[j]
        PROVE  i = j
    <3>1. Len(p) + i \in DOMAIN pq /\ Len(p) + j \in DOMAIN pq /\ pq[Len(p) + i] = pq[Len(p) + j]
      BY <1>3, <2>2 DEF pq
    <3>2. Len(p) + i = Len(p) + j
      BY <3>1, <1>6 DEF Once
    <3>3. QED
      BY <3>2, <1>1
  <2>3. \A i \in DOMAIN p, j \in DOMAIN q : p[i] # q[j]
    <3>1. ASSUME NEW i \in DOMAIN p, NEW j \in DOMAIN q, p[i] = q[j]
          PROVE  FALSE
      <4>1. i \in DOMAIN pq /\ Len(p) + j \in DOMAIN pq /\ pq[i] = pq[Len(p) + j]
        BY <1>1, <1>2, <1>3, <3>1 DEF pq
      <4>2. i = Len(p) + j
        BY <4>1, <1>6 DEF Once
      <4>3. QED
        BY <4>2, <1>1
    <3>2. QED
      BY <3>1
  <2>4. QED
    BY <2>1, <2>2, <2>3 DEF Once, Members
<1>7. ASSUME Once(p), Once(q), Members(p) \cap Members(q) = {}
      PROVE  Once(pq)
  <2>1. SUFFICES ASSUME NEW i \in DOMAIN pq, NEW j \in DOMAIN pq, pq[i] = pq[j]
                 PROVE  i = j
    BY DEF Once
  <2>2. CASE i \in DOMAIN p /\ j \in DOMAIN p
    BY <1>2, <1>7, <2>1, <2>2 DEF Once
  <2>3. \A a \in DOMAIN p, b \in DOMAIN q : p[a] # q[b]
    BY <1>7 DEF Members
  <2>4. CASE i \in DOMAIN p /\ j \notin DOMAIN p
    BY <1>2, <1>3, <1>4, <2>1, <2>3, <2>4
  <2>5. CASE i \notin DOMAIN p /\ j \in DOMAIN p
    BY <1>2, <1>3, <1>4, <2>1, <2>3, <2>5
  <2>6. CASE i \notin DOMAIN p /\ j \notin DOMAIN p
    BY <1>3, <1>4, <1>7, <2>1, <2>6 DEF Once
  <2>7. QED
    BY <2>2, <2>4, <2>5, <2>6
<1>8. QED
  BY <1>1, <1>5, <1>6, <1>7

\* addque: the new element is on the queue, once if it was not there before.
LEMMA AppendFacts ==
  ASSUME NEW X, NEW q \in Seq(X), NEW x \in X
  PROVE  /\ Append(q, x) \in Seq(X)
         /\ Members(Append(q, x)) = Members(q) \cup {x}
         /\ Once(q) /\ x \notin Members(q) => Once(Append(q, x))
<1>1. /\ Append(q, x) \in Seq(X) /\ Len(q) \in Nat
      /\ DOMAIN q = 1 .. Len(q) /\ DOMAIN Append(q, x) = 1 .. Len(q) + 1
      /\ Append(q, x)[Len(q) + 1] = x
      /\ \A i \in 1 .. Len(q) : Append(q, x)[i] = q[i]
  OBVIOUS
<1> DEFINE a == Append(q, x)
<1> HIDE DEF a
<1>2. Members(a) = Members(q) \cup {x}
  BY <1>1 DEF Members, a
<1>3. ASSUME Once(q), x \notin Members(q)
      PROVE  Once(a)
  <2>1. \A i \in 1 .. Len(q) : a[i] # x
    BY <1>1, <1>3 DEF Members, a
  <2>2. \A i, j \in 1 .. Len(q) : a[i] = a[j] => i = j
    BY <1>1, <1>3 DEF Once, a
  <2>3. DOMAIN a = 1 .. Len(q) + 1 /\ a[Len(q) + 1] = x
    BY <1>1 DEF a
  <2>4. QED
    BY <1>1, <2>1, <2>2, <2>3 DEF Once
<1>4. QED
  BY <1>1, <1>2, <1>3 DEF a

\* next_ready_port: the first element is off the queue, and nothing else is.
LEMMA TailFacts ==
  ASSUME NEW X, NEW q \in Seq(X), q # <<>>
  PROVE  /\ Head(q) \in Members(q) /\ Tail(q) \in Seq(X)
         /\ Members(q) = Members(Tail(q)) \cup {Head(q)}
         /\ Once(q) => Once(Tail(q)) /\ Head(q) \notin Members(Tail(q))
<1>1. /\ Tail(q) \in Seq(X) /\ Len(q) \in Nat /\ Len(q) > 0 /\ Head(q) = q[1]
      /\ DOMAIN q = 1 .. Len(q) /\ DOMAIN Tail(q) = 1 .. Len(q) - 1
      /\ \A i \in 1 .. Len(q) - 1 : Tail(q)[i] = q[i + 1]
  OBVIOUS
<1> DEFINE t == Tail(q)
<1> HIDE DEF t
<1>2. /\ DOMAIN t = 1 .. Len(q) - 1 /\ \A i \in 1 .. Len(q) - 1 : t[i] = q[i + 1]
      /\ \A i \in 2 .. Len(q) : i - 1 \in DOMAIN t /\ q[i] = t[i - 1]
  BY <1>1 DEF t
<1>3. Members(q) = Members(t) \cup {q[1]}
  <2>1. \A i \in DOMAIN q : i = 1 \/ i \in 2 .. Len(q)
    BY <1>1
  <2>2. \A i \in DOMAIN t : i + 1 \in DOMAIN q
    BY <1>1, <1>2
  <2>3. \A i \in DOMAIN q : q[i] \in Members(t) \cup {q[1]}
    BY <1>2, <2>1 DEF Members
  <2>4. \A i \in DOMAIN t : t[i] \in Members(q)
    BY <1>2, <2>2 DEF Members
  <2>5. 1 \in DOMAIN q
    BY <1>1
  <2>6. QED
    BY <2>3, <2>4, <2>5 DEF Members
<1>4. ASSUME Once(q)
      PROVE  Once(t) /\ q[1] \notin Members(t)
  <2>1. \A i \in DOMAIN t : i + 1 \in DOMAIN q /\ i + 1 # 1 /\ t[i] = q[i + 1] /\ i \in Int
    BY <1>1, <1>2
  <2>2. 1 \in DOMAIN q
    BY <1>1
  <2>3. \A i \in DOMAIN t : t[i] # q[1]
    BY <2>1, <2>2, <1>4 DEF Once
  <2>4. \A i, j \in DOMAIN t : t[i] = t[j] => i + 1 = j + 1
    BY <2>1, <1>4 DEF Once
  <2>5. QED
    BY <2>1, <2>3, <2>4 DEF Once, Members
<1>5. Head(q) \in Members(q)
  BY <1>1 DEF Members
<1>6. QED
  BY <1>1, <1>3, <1>4, <1>5 DEF t

-----------------------------------------------------------------------------
\* The status of a descriptor names the queue that it is on, if any, and no
\* descriptor is on a queue twice.
QueuesSound ==
  /\ pending \in Seq(Fds) /\ ready \in Seq(Fds)
  /\ Once(pending) /\ Once(ready)
  /\ DOMAIN fdStatus = Fds /\ DOMAIN fdInput = Fds
  /\ \A fd \in Fds : /\ fdStatus[fd] = "pending" <=> fd \in Members(pending)
                     /\ fdStatus[fd] = "ready" <=> fd \in Members(ready)

\* A descriptor is on one queue at most.
LEMMA QueuesDisjoint == QueuesSound => Members(pending) \cap Members(ready) = {}
<1>1. QueuesSound => Members(pending) \subseteq Fds
  BY DEF QueuesSound, Members
<1>2. QED
  BY <1>1 DEF QueuesSound

\* findrm takes one descriptor off a queue.
LEMMA WithoutFacts ==
  ASSUME NEW q \in Seq(Fds), NEW fd
  PROVE  /\ Without(q, fd) \in Seq(Fds)
         /\ Members(Without(q, fd)) = Members(q) \ {fd}
         /\ Once(q) => Once(Without(q, fd))
<1>1. Members(q) \subseteq Fds
  BY DEF Members
<1>2. QED
  BY <1>1, FilterFacts DEF Without

\* add_pending_fd: the descriptor is on the pending queue and on no other.
LEMMA AddPending ==
  ASSUME QueuesSound, NEW fd \in Fds, NEW is_input, add_pending_fd(fd, is_input)
  PROVE  /\ QueuesSound'
         /\ Members(pending') = Members(pending) \cup {fd}
         /\ Members(ready') = Members(ready) \ {fd}
<1>1. pending' \in Seq(Fds) /\ Members(pending') = Members(pending) \cup {fd} /\ Once(pending')
  <2>1. CASE fdStatus[fd] = "pending"
    BY <2>1 DEF QueuesSound, add_pending_fd
  <2>2. CASE fdStatus[fd] # "pending"
    <3>1. pending' = Append(pending, fd) /\ fd \notin Members(pending)
      BY <2>2 DEF QueuesSound, add_pending_fd
    <3>2. QED
      BY <3>1, AppendFacts DEF QueuesSound
  <2>3. QED
    BY <2>1, <2>2
<1>2. ready' \in Seq(Fds) /\ Members(ready') = Members(ready) \ {fd} /\ Once(ready')
  BY WithoutFacts DEF QueuesSound, add_pending_fd
<1>3. fdStatus' = [fdStatus EXCEPT ![fd] = "pending"] /\ DOMAIN fdInput' = DOMAIN fdInput
  BY DEF add_pending_fd
<1>4. DOMAIN fdStatus = Fds
  BY DEF QueuesSound
<1>5. fdStatus'[fd] = "pending" /\ \A g \in Fds : g # fd => fdStatus'[g] = fdStatus[g]
  BY <1>3, <1>4
<1>6. QED
  BY <1>1, <1>2, <1>3, <1>4, <1>5 DEF QueuesSound

\* remove_fd: the descriptor is on no queue.
LEMMA RemoveFd ==
  ASSUME QueuesSound, NEW fd \in Fds, remove_fd(fd)
  PROVE  /\ QueuesSound'
         /\ Members(pending') = Members(pending) \ {fd}
         /\ Members(ready') = Members(ready) \ {fd}
<1>1. /\ pending' \in Seq(Fds) /\ Members(pending') = Members(pending) \ {fd} /\ Once(pending')
      /\ ready' \in Seq(Fds) /\ Members(ready') = Members(ready) \ {fd} /\ Once(ready')
  BY WithoutFacts DEF QueuesSound, remove_fd
<1>2. DOMAIN fdStatus' = Fds /\ fdStatus'[fd] = "none" /\ \A g \in Fds : g # fd => fdStatus'[g] = fdStatus[g]
  BY DEF remove_fd, QueuesSound
<1>3. fdInput' = fdInput
  BY DEF remove_fd
<1>4. QED
  BY <1>1, <1>2, <1>3 DEF QueuesSound

\* queue_ready_ports: descriptors move from the pending queue to the ready
\* queue, and none is lost on the way.
LEMMA MovingFds ==
  ASSUME QueuesSound, MoveSelected
  PROVE  /\ QueuesSound'
         /\ Members(pending') \cup Members(ready') = Members(pending) \cup Members(ready)
         /\ \A fd \in Fds : fdStatus'[fd] = "none" <=> fdStatus[fd] = "none"
<1> DEFINE moved == Filter(pending, SelectedFds)
<1>1. Members(pending) \subseteq Fds /\ Members(ready) \subseteq Fds
  BY DEF QueuesSound, Members
<1>2. moved \in Seq(Fds) /\ Members(moved) = Members(pending) \cap SelectedFds /\ Once(moved)
  BY FilterFacts DEF QueuesSound
<1>3. pending' \in Seq(Fds) /\ Members(pending') = Members(pending) \cap (Fds \ SelectedFds) /\ Once(pending')
  BY FilterFacts DEF QueuesSound, MoveSelected
<1>4. Members(ready) \cap Members(moved) = {}
  BY <1>2, QueuesDisjoint
<1>5. ready' = ready \o moved
  BY DEF MoveSelected
<1> HIDE DEF moved
<1>6. ready' \in Seq(Fds) /\ Members(ready') = Members(ready) \cup Members(moved) /\ Once(ready')
  BY <1>2, <1>4, <1>5, ConcatFacts DEF QueuesSound
<1>7. \A fd \in Fds : fdStatus'[fd] = IF fd \in Members(pending) /\ fd \in SelectedFds THEN "ready" ELSE fdStatus[fd]
  BY DEF MoveSelected, SelectedFds
<1>8. DOMAIN fdStatus' = Fds /\ fdInput' = fdInput
  BY DEF MoveSelected
<1>9. QueuesSound'
  BY <1>1, <1>2, <1>3, <1>6, <1>7, <1>8 DEF QueuesSound
<1>10. QED
  BY <1>1, <1>2, <1>3, <1>6, <1>7, <1>9 DEF QueuesSound

\* next_ready_port: the descriptor is off its queue.
LEMMA NextReady ==
  ASSUME QueuesSound, ready # <<>>, next_ready_port
  PROVE  /\ QueuesSound'
         /\ Head(ready) \in Fds /\ Head(ready) \in Members(ready)
         /\ pending' = pending /\ Members(ready') = Members(ready) \ {Head(ready)}
         /\ Head(ready) \notin Members(pending)
         /\ \A fd \in Fds : fdStatus[fd] = "none" => fdStatus'[fd] = "none"
<1>1. Head(ready) \in Members(ready) /\ Members(ready) \subseteq Fds
  BY TailFacts DEF QueuesSound, Members
<1>2. ready' \in Seq(Fds) /\ Members(ready') = Members(ready) \ {Head(ready)} /\ Once(ready')
  BY TailFacts DEF QueuesSound, next_ready_port
<1>3. pending' = pending /\ fdInput' = fdInput
  BY DEF next_ready_port
<1> DEFINE h == Head(ready)
<1>4. fdStatus' = [fdStatus EXCEPT ![h] = "quiescent"]
  BY DEF next_ready_port
<1> HIDE DEF h
<1>5. /\ DOMAIN fdStatus' = Fds /\ \A g \in Fds : g # h => fdStatus'[g] = fdStatus[g]
      /\ h \in Fds => fdStatus'[h] = "quiescent"
  BY <1>4 DEF QueuesSound
<1>6. QueuesSound'
  BY <1>1, <1>2, <1>3, <1>5, QueuesDisjoint DEF QueuesSound, h
<1>7. QED
  BY <1>1, <1>2, <1>3, <1>5, <1>6, QueuesDisjoint DEF QueuesSound, h

-----------------------------------------------------------------------------

(* Lemmas about the walk along the links.                                  *)

\* The links of a queue: every link leads to a channel, and no two to the same.
Links(links) ==
  /\ links \in [Fds -> Fds \cup {NoChan}]
  /\ \A c, d \in Fds : links[c] # NoChan /\ links[c] = links[d] => c = d

\* The walk stays in every set that has its start and follows the links.
LEMMA ChainLeast ==
  ASSUME NEW h, NEW links, NEW S \in SUBSET Fds,
         h # NoChan => h \in S, \A d \in S : links[d] # NoChan => links[d] \in S
  PROVE  Chain(h, links) \subseteq S
  BY DEF Chain

\* The walk meets its start and follows every link.
LEMMA ChainClosed ==
  ASSUME NEW h \in Fds \cup {NoChan}, NEW links, Links(links)
  PROVE  /\ Chain(h, links) \subseteq Fds
         /\ h # NoChan => h \in Chain(h, links)
         /\ \A d \in Chain(h, links) : links[d] # NoChan => links[d] \in Chain(h, links)
  BY DEF Chain, Links

\* A walk from nowhere meets nothing.
LEMMA ChainEmpty ==
  ASSUME NEW links
  PROVE  Chain(NoChan, links) = {}
<1> DEFINE S == {}
<1>1. S \in SUBSET Fds /\ \A d \in S : links[d] # NoChan => links[d] \in S
  OBVIOUS
<1> HIDE DEF S
<1>2. Chain(NoChan, links) \subseteq S
  BY <1>1, ChainLeast
<1>3. QED
  BY <1>2 DEF S

\* enqueue-channel!: one more channel, after the last one or alone.
LEMMA ChainEnqueue ==
  ASSUME NEW links, Links(links), NEW h \in Fds, NEW t, NEW c \in Fds,
         t \in Chain(h, links), links[t] = NoChan, links[c] = NoChan,
         c \notin Chain(h, links), \A d \in Fds : links[d] # c
  PROVE  /\ Chain(h, [links EXCEPT ![t] = c]) = Chain(h, links) \cup {c}
         /\ Links([links EXCEPT ![t] = c])
<1> DEFINE new == [links EXCEPT ![t] = c]
<1>1. /\ t \in Fds /\ Chain(h, links) \subseteq Fds /\ h \in Chain(h, links)
      /\ \A d \in Chain(h, links) : links[d] # NoChan => links[d] \in Chain(h, links)
  BY ChainClosed, InterruptsAssumption
<1>2. new[t] = c /\ \A d \in Fds : d # t => new[d] = links[d]
  BY <1>1 DEF Links
<1>3. Links(new)
  BY <1>1, <1>2 DEF Links
<1> HIDE DEF new
<1>4. c # t
  OBVIOUS
<1>5. Chain(h, new) \subseteq Chain(h, links) \cup {c}
  <2> DEFINE S == Chain(h, links) \cup {c}
  <2>1. S \in SUBSET Fds /\ h \in S
    BY <1>1
  <2>2. \A d \in S : new[d] # NoChan => new[d] \in S
    BY <1>1, <1>2, <1>4
  <2> HIDE DEF S
  <2>3. Chain(h, new) \subseteq S
    BY <2>1, <2>2, ChainLeast
  <2>4. QED
    BY <2>3 DEF S
<1>6. Chain(h, links) \cup {c} \subseteq Chain(h, new)
  <2>1. SUFFICES ASSUME NEW S \in SUBSET Fds, h \in S, \A d \in S : new[d] # NoChan => new[d] \in S
                 PROVE  Chain(h, links) \cup {c} \subseteq S
    BY <1>1, InterruptsAssumption DEF Chain
  <2>2. \A d \in S : links[d] # NoChan => links[d] \in S
    BY <1>2, <2>1
  <2>3. Chain(h, links) \subseteq S
    BY <2>1, <2>2, ChainLeast
  <2>4. c \in S
    BY <1>1, <1>2, <2>1, <2>3, InterruptsAssumption
  <2>5. QED
    BY <2>3, <2>4
<1>7. QED
  BY <1>3, <1>5, <1>6 DEF new

\* A channel that no link leads to and that leads nowhere is the whole queue.
LEMMA ChainAlone ==
  ASSUME NEW links, NEW c \in Fds, links[c] = NoChan
  PROVE  Chain(c, links) = {c}
<1>1. Chain(c, links) \subseteq {c}
  <2> DEFINE S == {c}
  <2>1. S \in SUBSET Fds /\ c \in S /\ \A d \in S : links[d] # NoChan => links[d] \in S
    OBVIOUS
  <2> HIDE DEF S
  <2>2. Chain(c, links) \subseteq S
    BY <2>1, ChainLeast
  <2>3. QED
    BY <2>2 DEF S
<1>2. c \in Chain(c, links)
  BY InterruptsAssumption DEF Chain
<1>3. QED
  BY <1>1, <1>2

\* A channel behind the head has another one before it.
LEMMA ChainPredecessor ==
  ASSUME NEW links, Links(links), NEW h \in Fds, NEW c \in Chain(h, links), c # h
  PROVE  \E p \in Chain(h, links) : p # c /\ links[p] = c
<1> DEFINE S == Chain(h, links) \ {c}
<1>1. /\ Chain(h, links) \subseteq Fds /\ h \in Chain(h, links)
      /\ \A d \in Chain(h, links) : links[d] # NoChan => links[d] \in Chain(h, links)
  BY ChainClosed, InterruptsAssumption
<1>2. ~(S \in SUBSET Fds /\ h \in S /\ \A d \in S : links[d] # NoChan => links[d] \in S)
  <2> SUFFICES ASSUME S \in SUBSET Fds, h \in S, \A d \in S : links[d] # NoChan => links[d] \in S
               PROVE  FALSE
    OBVIOUS
  <2> HIDE DEF S
  <2>1. Chain(h, links) \subseteq S
    BY ChainLeast
  <2>2. QED
    BY <2>1 DEF S
<1>3. QED
  BY <1>1, <1>2

\* channel-abort: a channel behind the head is off the queue, and nothing else is.
LEMMA ChainUnlink ==
  ASSUME NEW links, Links(links), NEW h \in Fds, \A d \in Fds : links[d] # h,
         NEW c \in Fds, NEW p \in Chain(h, links), c # h, p # c, links[p] = c,
         NEW new \in [Fds -> Fds \cup {NoChan}],
         new[p] = links[c], new[c] = NoChan, \A d \in Fds \ {p, c} : new[d] = links[d]
  PROVE  Chain(h, new) = Chain(h, links) \ {c} /\ Links(new)
<1>1. /\ Chain(h, links) \subseteq Fds /\ h \in Chain(h, links) /\ p \in Fds
      /\ \A d \in Chain(h, links) : links[d] # NoChan => links[d] \in Chain(h, links)
  BY ChainClosed, InterruptsAssumption
<1>2. /\ new \in [Fds -> Fds \cup {NoChan}]
      /\ new[p] = links[c] /\ new[c] = NoChan /\ \A d \in Fds \ {p, c} : new[d] = links[d]
  OBVIOUS
<1>3. c \in Chain(h, links) /\ c # NoChan /\ links[c] # c /\ \A d \in Fds \ {p} : links[d] # c
  BY <1>1, InterruptsAssumption DEF Links
<1>4. Links(new)
  <2>1. ASSUME NEW d \in Fds, NEW e \in Fds, new[d] # NoChan, new[d] = new[e]
        PROVE  d = e
    BY <1>1, <1>2, <2>1 DEF Links
  <2>2. QED
    BY <1>2, <2>1 DEF Links
<1>5. Chain(h, new) \subseteq Chain(h, links) \ {c}
  <2> DEFINE S == Chain(h, links) \ {c}
  <2>1. S \in SUBSET Fds /\ h \in S
    BY <1>1
  <2>2. \A d \in S : new[d] # NoChan => new[d] \in S
    BY <1>1, <1>2, <1>3
  <2> HIDE DEF S
  <2>3. Chain(h, new) \subseteq S
    BY <2>1, <2>2, ChainLeast
  <2>4. QED
    BY <2>3 DEF S
<1>6. Chain(h, links) \ {c} \subseteq Chain(h, new)
  <2>1. SUFFICES ASSUME NEW S \in SUBSET Fds, h \in S, \A d \in S : new[d] # NoChan => new[d] \in S
                 PROVE  Chain(h, links) \ {c} \subseteq S
    BY <1>1, InterruptsAssumption DEF Chain
  <2> DEFINE T == IF p \in S THEN S \cup {c} ELSE S \ {c}
  <2>2. T \in SUBSET Fds /\ h \in T
    BY <2>1
  <2>3. \A d \in T : links[d] # NoChan => links[d] \in T
    BY <1>1, <1>2, <1>3, <2>1
  <2> HIDE DEF T
  <2>4. Chain(h, links) \subseteq T
    BY <2>2, <2>3, ChainLeast
  <2>5. QED
    BY <2>4 DEF T
<1>7. QED
  BY <1>4, <1>5, <1>6

\* dequeue-channel!: the first channel is off the queue, and nothing else is.
LEMMA ChainDequeue ==
  ASSUME NEW links, Links(links), NEW h \in Fds, \A d \in Fds : links[d] # h
  PROVE  /\ Chain(links[h], [links EXCEPT ![h] = NoChan]) = Chain(h, links) \ {h}
         /\ Links([links EXCEPT ![h] = NoChan])
<1> DEFINE new == [links EXCEPT ![h] = NoChan]
<1>1. /\ Chain(h, links) \subseteq Fds /\ h \in Chain(h, links)
      /\ \A d \in Chain(h, links) : links[d] # NoChan => links[d] \in Chain(h, links)
  BY ChainClosed, InterruptsAssumption
<1>2. new[h] = NoChan /\ \A d \in Fds : d # h => new[d] = links[d]
  BY DEF Links
<1>3. Links(new)
  BY <1>2 DEF Links
<1>4. links[h] \in Fds \cup {NoChan} /\ links[h] # h
  BY DEF Links
<1> HIDE DEF new
<1>5. Chain(links[h], new) \subseteq Chain(h, links) \ {h}
  <2> DEFINE S == Chain(h, links) \ {h}
  <2>1. S \in SUBSET Fds /\ (links[h] # NoChan => links[h] \in S)
    BY <1>1, <1>4
  <2>2. \A d \in S : new[d] # NoChan => new[d] \in S
    BY <1>1, <1>2
  <2> HIDE DEF S
  <2>3. Chain(links[h], new) \subseteq S
    BY <2>1, <2>2, ChainLeast
  <2>4. QED
    BY <2>3 DEF S
<1>6. Chain(h, links) \ {h} \subseteq Chain(links[h], new)
  <2>1. SUFFICES ASSUME NEW S \in SUBSET Fds, links[h] # NoChan => links[h] \in S,
                        \A d \in S : new[d] # NoChan => new[d] \in S
                 PROVE  Chain(h, links) \ {h} \subseteq S
    BY <1>1 DEF Chain
  <2> DEFINE T == S \cup {h}
  <2>2. T \in SUBSET Fds /\ h \in T /\ \A d \in T : links[d] # NoChan => links[d] \in T
    BY <1>2, <2>1
  <2> HIDE DEF T
  <2>3. Chain(h, links) \subseteq T
    BY <2>2, ChainLeast
  <2>4. QED
    BY <2>3 DEF T
<1>7. QED
  BY <1>3, <1>5, <1>6 DEF new

-----------------------------------------------------------------------------
(* The inductive invariant of the queues.                                  *)

\* The values of the channels' part of the state.
ChannelTypes ==
  /\ Spending_interruptsS \subseteq AllInterrupts
  /\ Spending_channels_headS \in Fds \cup {NoChan}
  /\ Spending_channels_tailS \in Fds \cup {NoChan}
  /\ channelStatus \in [Fds -> {"closed", "input", "output"}]
  /\ waiting \subseteq Fds /\ blocking \in Fds \cup {NoChan}

\* The queue of completed channels has no cycle and ends at its tail; only
\* channels in the queue have a link.
LinksSound ==
  /\ Links(next)
  /\ Spending_channels_headS # NoChan => \A c \in Fds : next[c] # Spending_channels_headS
  /\ Spending_channels_headS = NoChan <=> Spending_channels_tailS = NoChan
  /\ Spending_channels_headS # NoChan =>
       Spending_channels_tailS \in Completed /\ next[Spending_channels_tailS] = NoChan
  /\ \A c \in Fds : next[c] # NoChan => c \in Completed

\* The i/o interrupt is noted as long as a channel is in the queue.
IoNoted == Spending_channels_headS # NoChan => "io" \in Spending_interruptsS

\* What is watched or completed belongs to a thread, and is not both at once.
Awaited ==
  /\ \A c \in Fds :
       (c \in waiting \/ blocking = c) <=> (c \in Completed \/ c \in Members(pending) \cup Members(ready))
  /\ Completed \cap (Members(pending) \cup Members(ready)) = {}

\* Between a pending operation and wait-for-channel no interrupt is handled.
BlockedMasked == blocking # NoChan => Senabled_interruptsS = {}

\* A descriptor that the C runtime knows is that of an open channel, and is
\* watched for the direction of this channel.
FdsKnown ==
  \A fd \in Fds : fdStatus[fd] # "none" =>
    channelStatus[fd] # "closed" /\ (fdInput[fd] <=> channelStatus[fd] = "input")

QInv ==
  QueuesSound /\ ChannelTypes /\ LinksSound /\ IoNoted /\ Awaited /\ BlockedMasked /\ FdsKnown

\* A step that leaves the queues and the channels alone keeps the invariant.
LEMMA QuietQueues ==
  ASSUME QInv, UNCHANGED <<queues, completed, channelStatus, threads>>,
         Spending_interruptsS' \subseteq AllInterrupts,
         "io" \in Spending_interruptsS => "io" \in Spending_interruptsS',
         blocking # NoChan => Senabled_interruptsS' = {}
  PROVE  QInv'
<1>1. UNCHANGED <<pending, ready, fdStatus, fdInput, Spending_channels_headS, Spending_channels_tailS,
                  next, channelStatus, blocking, waiting>>
  BY DEF queues, completed, threads
<1>2. Completed' = Completed
  BY <1>1 DEF Completed
<1>3. QueuesSound'
  BY <1>1 DEF QInv, QueuesSound
<1>4. ChannelTypes' /\ LinksSound' /\ IoNoted' /\ Awaited' /\ BlockedMasked' /\ FdsKnown'
  BY <1>1, <1>2 DEF QInv, ChannelTypes, LinksSound, IoNoted, Awaited, BlockedMasked, FdsKnown
<1>5. QED
  BY <1>3, <1>4 DEF QInv

\* Descriptors that move from the pending queue to the ready queue keep it.
LEMMA MovingQueues ==
  ASSUME QInv, MoveSelected, UNCHANGED <<masks, completed, channelStatus, threads>>
  PROVE  QInv'
<1>1. UNCHANGED <<fdInput, Spending_channels_headS, Spending_channels_tailS, next, channelStatus,
                  blocking, waiting, Spending_interruptsS, Senabled_interruptsS>>
  BY DEF MoveSelected, completed, threads, masks
<1>2. Completed' = Completed
  BY <1>1 DEF Completed
<1>3. /\ QueuesSound'
      /\ Members(pending') \cup Members(ready') = Members(pending) \cup Members(ready)
      /\ \A fd \in Fds : fdStatus'[fd] = "none" <=> fdStatus[fd] = "none"
  BY MovingFds DEF QInv
<1>4. ChannelTypes' /\ LinksSound' /\ IoNoted' /\ Awaited' /\ BlockedMasked' /\ FdsKnown'
  BY <1>1, <1>2, <1>3 DEF QInv, ChannelTypes, LinksSound, IoNoted, Awaited, BlockedMasked, FdsKnown
<1>5. QED
  BY <1>3, <1>4 DEF QInv

\* A descriptor that was ready becomes a completed channel: process-event.
LEMMA CompletionQueues ==
  ASSUME QInv, IO_COMPLETION_EVENT
  PROVE  QInv' /\ Spending_channels_headS' # NoChan
<1> DEFINE c == Head(ready)
<1>1. /\ QueuesSound' /\ c \in Fds /\ c \in Members(ready) /\ c \notin Members(pending)
      /\ pending' = pending /\ Members(ready') = Members(ready) \ {c}
      /\ \A fd \in Fds : fdStatus[fd] = "none" => fdStatus'[fd] = "none"
  BY NextReady DEF QInv, IO_COMPLETION_EVENT
<1>2. /\ UNCHANGED <<fdInput, channelStatus, blocking, waiting, Senabled_interruptsS>>
      /\ Spending_interruptsS' = Spending_interruptsS \cup {"io"}
      /\ enqueue_channel(c)
  BY DEF IO_COMPLETION_EVENT, next_ready_port, Event, threads
<1> HIDE DEF c
<1>3. c \notin Completed /\ next[c] = NoChan
  BY <1>1 DEF QInv, Awaited, LinksSound
<1>4. /\ Completed' = Completed \cup {c} /\ LinksSound'
      /\ Spending_channels_headS' \in Fds /\ Spending_channels_tailS' \in Fds
  <2>1. CASE Spending_channels_headS = NoChan
    <3>1. Spending_channels_headS' = c /\ Spending_channels_tailS' = c /\ next' = next
      BY <1>2, <1>3, <2>1 DEF enqueue_channel
    <3>2. Completed = {} /\ Completed' = {c}
      BY <1>1, <1>3, <2>1, <3>1, ChainEmpty, ChainAlone DEF Completed
    <3>3. \A d \in Fds : next[d] = NoChan
      BY <3>2 DEF QInv, LinksSound
    <3>4. LinksSound'
      BY <1>1, <3>1, <3>2, <3>3, InterruptsAssumption DEF QInv, LinksSound
    <3>5. QED
      BY <1>1, <3>1, <3>2, <3>4
  <2>2. CASE Spending_channels_headS # NoChan
    <3> DEFINE t == Spending_channels_tailS
               h == Spending_channels_headS
    <3>1. h' = h /\ t' = c /\ next' = [next EXCEPT ![t] = c]
      BY <1>2, <1>3, <2>2 DEF enqueue_channel
    <3>2. /\ Links(next) /\ h \in Fds /\ t \in Completed /\ next[t] = NoChan
          /\ \A d \in Fds : next[d] # h
      BY <2>2 DEF QInv, LinksSound, ChannelTypes
    <3>3. h \in Completed /\ Completed \subseteq Fds
          /\ \A d \in Completed : next[d] # NoChan => next[d] \in Completed
      BY <3>2, ChainClosed, InterruptsAssumption DEF Completed
    <3>4. \A d \in Fds : next[d] # c
      BY <1>1, <1>3, <3>3, InterruptsAssumption DEF QInv, LinksSound
    <3> HIDE DEF t, h
    <3>5. Completed = Chain(h, next)
      BY DEF Completed, h
    <3>6. Chain(h, next') = Chain(h, next) \cup {c} /\ Links(next')
      <4>1. t \in Chain(h, next) /\ c \notin Chain(h, next)
        BY <1>3, <3>2, <3>5
      <4>2. /\ Chain(h, [next EXCEPT ![t] = c]) = Chain(h, next) \cup {c}
            /\ Links([next EXCEPT ![t] = c])
        BY <1>1, <1>3, <3>2, <3>4, <4>1, ChainEnqueue
      <4>3. QED
        BY <3>1, <4>2
    <3>7. Completed' = Completed \cup {c}
      BY <3>1, <3>5, <3>6 DEF Completed, h
    <3>8. next'[t] = c /\ \A d \in Fds : d # t => next'[d] = next[d]
      BY <3>1, <3>2, <3>3 DEF Links
    <3>9. c # t /\ c # h
      BY <1>3, <3>2, <3>3
    <3>10. LinksSound'
      BY <1>1, <1>3, <2>2, <3>1, <3>2, <3>3, <3>6, <3>7, <3>8, <3>9, InterruptsAssumption
         DEF QInv, LinksSound, t, h
    <3>11. QED
      BY <1>1, <3>1, <3>2, <3>7, <3>10 DEF t, h
  <2>3. QED
    BY <2>1, <2>2
<1>5. IoNoted'
  BY <1>2, <1>4, InterruptsAssumption DEF IoNoted
<1>6. ChannelTypes'
  BY <1>2, <1>4 DEF QInv, ChannelTypes, AllInterrupts, InPriority, Members
<1>7. Awaited'
  BY <1>1, <1>2, <1>3, <1>4 DEF QInv, Awaited
<1>8. BlockedMasked'
  BY <1>2 DEF QInv, BlockedMasked
<1>9. FdsKnown'
  BY <1>1, <1>2 DEF QInv, FdsKnown
<1>10. QED
  BY <1>1, <1>4, <1>5, <1>6, <1>7, <1>8, <1>9, InterruptsAssumption DEF QInv

\* dequeue-channel! and channel-abort at the head: the queue loses its first channel.
LEMMA DequeueLinks ==
  ASSUME QInv, Spending_channels_headS # NoChan,
         Spending_channels_headS' = next[Spending_channels_headS],
         Spending_channels_tailS' =
           IF next[Spending_channels_headS] = NoChan THEN NoChan ELSE Spending_channels_tailS,
         next' = [next EXCEPT ![Spending_channels_headS] = NoChan]
  PROVE  /\ LinksSound'
         /\ Completed' = Completed \ {Spending_channels_headS}
         /\ Spending_channels_headS \in Completed
         /\ Spending_channels_headS' \in Fds \cup {NoChan}
         /\ Spending_channels_tailS' \in Fds \cup {NoChan}
<1> DEFINE h == Spending_channels_headS
           t == Spending_channels_tailS
<1>1. h \in Fds /\ h # NoChan
  BY DEF QInv, ChannelTypes
<1>2. /\ h' = next[h] /\ t' = IF next[h] = NoChan THEN NoChan ELSE t
      /\ next' = [next EXCEPT ![h] = NoChan]
  OBVIOUS
<1>3. /\ Links(next) /\ t \in Completed /\ next[t] = NoChan
      /\ \A d \in Fds : next[d] # h
      /\ \A d \in Fds : next[d] # NoChan => d \in Completed
      /\ Completed = Chain(h, next)
  BY <1>1 DEF QInv, LinksSound, Completed
<1>4. h \in Completed /\ Completed \subseteq Fds
      /\ \A d \in Completed : next[d] # NoChan => next[d] \in Completed
  BY <1>1, <1>3, ChainClosed
<1>5. Completed' = Completed \ {h} /\ Links(next')
  <2>1. /\ Chain(next[h], [next EXCEPT ![h] = NoChan]) = Chain(h, next) \ {h}
        /\ Links([next EXCEPT ![h] = NoChan])
    BY <1>1, <1>3, ChainDequeue
  <2>2. QED
    BY <1>2, <1>3, <2>1 DEF Completed
<1>6. next'[h] = NoChan /\ \A d \in Fds : d # h => next'[d] = next[d]
  BY <1>1, <1>2, <1>3 DEF Links
<1>7. h' \in Fds \cup {NoChan} /\ t' \in Fds \cup {NoChan}
  BY <1>1, <1>2, <1>3, <1>4 DEF Links
<1>8. LinksSound'
  <2>1. h' # NoChan => \A d \in Fds : next'[d] # h'
    BY <1>1, <1>2, <1>3, <1>6 DEF Links
  <2>2. h' = NoChan <=> t' = NoChan
    BY <1>2, <1>3, <1>4, InterruptsAssumption
  <2>3. h' # NoChan => t' \in Completed' /\ next'[t'] = NoChan
    BY <1>2, <1>3, <1>4, <1>5, <1>6
  <2>4. \A d \in Fds : next'[d] # NoChan => d \in Completed'
    BY <1>3, <1>5, <1>6
  <2>5. QED
    BY <1>5, <2>1, <2>2, <2>3, <2>4 DEF LinksSound
<1>9. QED
  BY <1>4, <1>5, <1>7, <1>8

\* The channel before c in the queue, as channel-abort finds it.
Before(c) == CHOOSE p \in Completed : next[p] = c

\* channel-abort behind the head: the queue loses this channel, which may be its last.
LEMMA UnlinkLinks ==
  ASSUME QInv, NEW c \in Completed, c # Spending_channels_headS,
         Spending_channels_headS' = Spending_channels_headS,
         Spending_channels_tailS' = IF Spending_channels_tailS = c THEN Before(c) ELSE Spending_channels_tailS,
         next' = [next EXCEPT ![Before(c)] = next[c], ![c] = NoChan]
  PROVE  /\ LinksSound'
         /\ Completed' = Completed \ {c}
         /\ Spending_channels_headS \in Fds
         /\ Spending_channels_tailS' \in Fds
<1> DEFINE h == Spending_channels_headS
           t == Spending_channels_tailS
           p == Before(c)
<1>1. h \in Fds /\ h # NoChan
  <2>1. h = NoChan => Completed = {}
    BY ChainEmpty DEF Completed
  <2>2. h # NoChan
    BY <2>1
  <2>3. QED
    BY <2>2 DEF QInv, ChannelTypes
<1>2. /\ Links(next) /\ t \in Completed /\ next[t] = NoChan
      /\ \A d \in Fds : next[d] # h
      /\ \A d \in Fds : next[d] # NoChan => d \in Completed
      /\ Completed = Chain(h, next)
  BY <1>1 DEF QInv, LinksSound, Completed
<1>3. h \in Completed /\ Completed \subseteq Fds /\ c \in Fds
  BY <1>1, <1>2, ChainClosed
<1>4. p \in Completed /\ p # c /\ next[p] = c
  <2>1. PICK q \in Completed : q # c /\ next[q] = c
    BY <1>1, <1>2, ChainPredecessor
  <2>2. p \in Completed /\ next[p] = c
    BY <2>1 DEF Before
  <2>3. p = q
    BY <1>2, <1>3, <2>1, <2>2, InterruptsAssumption DEF Links
  <2>4. QED
    BY <2>1, <2>2, <2>3
<1>5. /\ next' \in [Fds -> Fds \cup {NoChan}]
      /\ next'[p] = next[c] /\ next'[c] = NoChan /\ \A d \in Fds \ {p, c} : next'[d] = next[d]
  BY <1>2, <1>3, <1>4 DEF Links
<1>6. Completed' = Completed \ {c} /\ Links(next')
  <2>1. p \in Chain(h, next)
    BY <1>2, <1>4
  <2>2. Chain(h, next') = Chain(h, next) \ {c} /\ Links(next')
    <3> HIDE DEF p, h
    <3>1. c # h
      BY DEF h
    <3>2. Links(next) /\ h \in Fds /\ (\A d \in Fds : next[d] # h) /\ c \in Fds /\ p # c /\ next[p] = c
      BY <1>1, <1>2, <1>3, <1>4
    <3>3. ASSUME NEW new, new = next'
          PROVE  Chain(h, new) = Chain(h, next) \ {c} /\ Links(new)
      <4>1. /\ new \in [Fds -> Fds \cup {NoChan}]
            /\ new[p] = next[c] /\ new[c] = NoChan /\ \A d \in Fds \ {p, c} : new[d] = next[d]
        BY <1>5, <3>3
      <4>2. QED
        BY <4>1, <2>1, <3>1, <3>2, ChainUnlink
    <3>4. QED
      BY <3>3
  <2>3. QED
    BY <1>2, <2>2 DEF Completed
<1>7. c # NoChan
  BY <1>3, InterruptsAssumption
<1>8. t' \in Completed' /\ next'[t'] = NoChan
  <2>1. CASE t = c
    BY <1>2, <1>4, <1>5, <1>6, <2>1
  <2>2. CASE t # c
    BY <1>2, <1>3, <1>4, <1>5, <1>6, <1>7, <2>2
  <2>3. QED
    BY <2>1, <2>2
<1>9. \A d \in Fds : next'[d] # h /\ (next'[d] # NoChan => d \in Completed')
  BY <1>1, <1>2, <1>3, <1>4, <1>5, <1>6
<1>10. t' \in Fds /\ t' # NoChan
  BY <1>3, <1>6, <1>8, InterruptsAssumption
<1>11. LinksSound'
  BY <1>1, <1>6, <1>8, <1>9, <1>10 DEF LinksSound
<1>12. QED
  BY <1>1, <1>6, <1>10, <1>11

\* The first completed channel is taken off the queue and its thread is woken.
LEMMA DeliverIoQueues ==
  ASSUME QInv, DeliverIo
  PROVE  QInv'
<1> DEFINE h == Spending_channels_headS
<1>1. h # NoChan /\ blocking = NoChan
  BY DEF DeliverIo, IoFirst, Enabled, QInv, BlockedMasked
<1>2. /\ UNCHANGED <<pending, ready, fdStatus, fdInput, channelStatus, blocking>>
      /\ waiting' = waiting \ {h}
      /\ h' = next[h]
      /\ Spending_interruptsS' = IF next[h] = NoChan THEN Spending_interruptsS \ {"io"} ELSE Spending_interruptsS
  BY DEF DeliverIo, check_for_enabled_interrupt, NotFlags, queues
<1>3. /\ LinksSound' /\ Completed' = Completed \ {h} /\ h \in Completed
      /\ h' \in Fds \cup {NoChan} /\ Spending_channels_tailS' \in Fds \cup {NoChan}
  BY <1>1, DequeueLinks DEF DeliverIo
<1>4. IoNoted'
  BY <1>1, <1>2 DEF QInv, IoNoted
<1>5. ChannelTypes'
  BY <1>2, <1>3 DEF QInv, ChannelTypes
<1>6. Awaited'
  BY <1>1, <1>2, <1>3, InterruptsAssumption DEF QInv, Awaited
<1>7. BlockedMasked' /\ FdsKnown' /\ QueuesSound'
  BY <1>1, <1>2 DEF QInv, BlockedMasked, FdsKnown, QueuesSound
<1>8. QED
  BY <1>3, <1>4, <1>5, <1>6, <1>7 DEF QInv

-----------------------------------------------------------------------------
(* The program's operations on channels.                                   *)

\* close-channel: nothing is watched for the channel, and nothing was.
LEMMA CloseQueues ==
  ASSUME QInv, NEW c \in Fds, close_channel(c)
  PROVE  QInv'
<1>1. /\ UNCHANGED <<fdInput, Spending_channels_headS, Spending_channels_tailS, next, blocking, waiting,
                     Spending_interruptsS, Senabled_interruptsS>>
      /\ blocking = NoChan /\ c \notin waiting
      /\ channelStatus' = [channelStatus EXCEPT ![c] = "closed"]
      /\ remove_fd(c)
  BY DEF close_channel, Resting, completed, threads, masks, remove_fd
<1>2. Completed' = Completed
  BY <1>1 DEF Completed
<1>3. /\ QueuesSound' /\ Members(pending') = Members(pending) \ {c} /\ Members(ready') = Members(ready) \ {c}
  BY <1>1, RemoveFd DEF QInv
<1>4. c \notin Members(pending) \cup Members(ready)
  BY <1>1, InterruptsAssumption DEF QInv, Awaited
<1>5. fdStatus' = [fdStatus EXCEPT ![c] = "none"]
  BY <1>1 DEF remove_fd
<1>6. /\ \A fd \in Fds : fd # c => fdStatus'[fd] = fdStatus[fd] /\ channelStatus'[fd] = channelStatus[fd]
      /\ fdStatus'[c] = "none"
  BY <1>1, <1>5 DEF QInv, QueuesSound, ChannelTypes
<1>7. ChannelTypes' /\ LinksSound' /\ IoNoted' /\ BlockedMasked'
  BY <1>1, <1>2 DEF QInv, ChannelTypes, LinksSound, IoNoted, BlockedMasked
<1>8. Awaited'
  BY <1>1, <1>2, <1>3, <1>4 DEF QInv, Awaited
<1>9. FdsKnown'
  BY <1>1, <1>6 DEF QInv, FdsKnown
<1>10. QED
  BY <1>3, <1>7, <1>8, <1>9 DEF QInv

\* open-channel: the descriptor of a new channel is not known to the C runtime.
LEMMA OpenQueues ==
  ASSUME QInv, NEW c \in Fds, NEW status \in Modes, OpenChannel(c, status)
  PROVE  QInv'
<1>1. /\ UNCHANGED <<queues, pending, ready, fdStatus, fdInput, Spending_channels_headS, Spending_channels_tailS,
                     next, blocking, waiting, Spending_interruptsS, Senabled_interruptsS>>
      /\ channelStatus[c] = "closed"
      /\ channelStatus' = [channelStatus EXCEPT ![c] = status]
      /\ status \in {"input", "output"}
  BY InterruptsAssumption DEF OpenChannel, eventVars, queues, completed, threads, masks
<1>2. Completed' = Completed
  BY <1>1 DEF Completed
<1>3. \A fd \in Fds : fd # c => channelStatus'[fd] = channelStatus[fd]
  BY <1>1 DEF QInv, ChannelTypes
<1>4. fdStatus[c] = "none"
  BY <1>1 DEF QInv, FdsKnown
<1>5. ChannelTypes' /\ LinksSound' /\ IoNoted' /\ BlockedMasked' /\ Awaited' /\ QueuesSound'
  BY <1>1, <1>2 DEF QInv, ChannelTypes, LinksSound, IoNoted, BlockedMasked, Awaited, QueuesSound
<1>6. FdsKnown'
  BY <1>1, <1>3, <1>4 DEF QInv, FdsKnown
<1>7. QED
  BY <1>5, <1>6 DEF QInv

\* A pending operation: its descriptor is watched, for the channel's direction.
LEMMA PendingQueues ==
  ASSUME QInv, NEW c \in Fds, OperationPending(c)
  PROVE  QInv'
<1>1. /\ UNCHANGED <<Spending_channels_headS, Spending_channels_tailS, next, channelStatus, waiting,
                     Spending_interruptsS>>
      /\ blocking = NoChan /\ c \notin waiting /\ channelStatus[c] # "closed"
      /\ blocking' = c /\ Senabled_interruptsS' = {}
      /\ add_pending_fd(c, channelStatus[c] = "input")
  BY DEF OperationPending, Resting, completed
<1>2. Completed' = Completed
  BY <1>1 DEF Completed
<1>3. /\ QueuesSound' /\ Members(pending') = Members(pending) \cup {c} /\ Members(ready') = Members(ready) \ {c}
  BY <1>1, AddPending DEF QInv
<1>4. c \notin Completed /\ c \notin Members(pending) \cup Members(ready)
  BY <1>1, InterruptsAssumption DEF QInv, Awaited
<1>5. /\ \A fd \in Fds : fd # c => fdStatus'[fd] = fdStatus[fd] /\ fdInput'[fd] = fdInput[fd]
      /\ fdStatus'[c] = "pending"
      /\ fdInput'[c] = IF fdStatus[c] = "none" THEN channelStatus[c] = "input" ELSE fdInput[c]
  BY <1>1 DEF QInv, QueuesSound, add_pending_fd
<1>6. ChannelTypes' /\ LinksSound' /\ IoNoted' /\ BlockedMasked'
  BY <1>1, <1>2 DEF QInv, ChannelTypes, LinksSound, IoNoted, BlockedMasked
<1>7. Awaited'
  BY <1>1, <1>2, <1>3, <1>4, InterruptsAssumption DEF QInv, Awaited
<1>8. FdsKnown'
  <2>1. ASSUME NEW fd \in Fds, fdStatus'[fd] # "none"
        PROVE  channelStatus[fd] # "closed" /\ (fdInput'[fd] <=> channelStatus[fd] = "input")
    <3>1. CASE fd = c
      BY <1>1, <1>5, <3>1 DEF QInv, FdsKnown
    <3>2. CASE fd # c
      BY <1>5, <2>1, <3>2 DEF QInv, FdsKnown
    <3>3. QED
      BY <3>1, <3>2
  <2>2. QED
    BY <1>1, <2>1 DEF FdsKnown
<1>9. QED
  BY <1>3, <1>6, <1>7, <1>8 DEF QInv

\* wait-for-channel: the thread that was about to wait waits.
LEMMA WaitQueues ==
  ASSUME QInv, WaitForChannel
  PROVE  QInv'
<1>1. /\ UNCHANGED <<pending, ready, fdStatus, fdInput, Spending_channels_headS, Spending_channels_tailS,
                     next, channelStatus, Spending_interruptsS, Senabled_interruptsS>>
      /\ blocking # NoChan /\ waiting' = waiting \cup {blocking} /\ blocking' = NoChan
  BY DEF WaitForChannel, eventVars, queues, completed, masks
<1>2. Completed' = Completed
  BY <1>1 DEF Completed
<1>3. ChannelTypes' /\ LinksSound' /\ IoNoted' /\ BlockedMasked' /\ FdsKnown' /\ QueuesSound'
  BY <1>1, <1>2 DEF QInv, ChannelTypes, LinksSound, IoNoted, BlockedMasked, FdsKnown, QueuesSound
<1>4. Awaited'
  BY <1>1, <1>2, InterruptsAssumption DEF QInv, Awaited, ChannelTypes
<1>5. QED
  BY <1>3, <1>4 DEF QInv

\* steal-channel!: nothing is watched for the channel any longer, or its completion is
\* off the queue, and its thread does not wait.
LEMMA StealQueues ==
  ASSUME QInv, NEW c \in Fds, StealChannel(c)
  PROVE  QInv'
<1>1. /\ UNCHANGED <<fdInput, channelStatus, blocking, Spending_interruptsS, Senabled_interruptsS>>
      /\ blocking = NoChan /\ c \in waiting
      /\ waiting' = waiting \ {c}
      /\ vm_channel_abort(c)
  BY DEF StealChannel, vm_channel_abort, Resting, masks, remove_fd, queues
<1>2. BlockedMasked'
  BY <1>1 DEF QInv, BlockedMasked
<1>3. CASE c \notin Completed
  <2>1. remove_fd(c) /\ UNCHANGED <<Spending_channels_headS, Spending_channels_tailS, next>>
    BY <1>1, <1>3 DEF vm_channel_abort, completed
  <2>2. Completed' = Completed
    BY <2>1 DEF Completed
  <2>3. /\ QueuesSound' /\ Members(pending') = Members(pending) \ {c} /\ Members(ready') = Members(ready) \ {c}
    BY <2>1, RemoveFd DEF QInv
  <2>4. /\ \A fd \in Fds : fd # c => fdStatus'[fd] = fdStatus[fd]
        /\ fdStatus'[c] = "none"
    BY <2>1 DEF QInv, QueuesSound, remove_fd
  <2>5. ChannelTypes' /\ LinksSound' /\ IoNoted'
    BY <1>1, <2>1, <2>2 DEF QInv, ChannelTypes, LinksSound, IoNoted
  <2>6. Awaited'
    BY <1>1, <1>3, <2>2, <2>3, InterruptsAssumption DEF QInv, Awaited
  <2>7. FdsKnown'
    BY <1>1, <2>4 DEF QInv, FdsKnown
  <2>8. QED
    BY <1>2, <2>3, <2>5, <2>6, <2>7 DEF QInv
<1>4. CASE c \in Completed
  <2>1. UNCHANGED <<pending, ready, fdStatus>>
    BY <1>1, <1>4 DEF vm_channel_abort, queues
  <2>2. /\ LinksSound' /\ Completed' = Completed \ {c}
        /\ Spending_channels_headS' \in Fds \cup {NoChan} /\ Spending_channels_tailS' \in Fds \cup {NoChan}
        /\ Spending_channels_headS # NoChan
    <3>1. Spending_channels_headS # NoChan
      BY <1>4, ChainEmpty DEF Completed
    <3>2. CASE c = Spending_channels_headS
      BY <1>1, <1>4, <3>1, <3>2, DequeueLinks DEF vm_channel_abort
    <3>3. CASE c # Spending_channels_headS
      <4>1. /\ Spending_channels_headS' = Spending_channels_headS
            /\ Spending_channels_tailS' =
                 IF Spending_channels_tailS = c THEN Before(c) ELSE Spending_channels_tailS
            /\ next' = [next EXCEPT ![Before(c)] = next[c], ![c] = NoChan]
        BY <1>1, <1>4, <3>3 DEF vm_channel_abort, Before
      <4>2. LinksSound' /\ Completed' = Completed \ {c} /\ Spending_channels_tailS' \in Fds
            /\ Spending_channels_headS \in Fds
        BY <1>4, <3>3, <4>1, UnlinkLinks
      <4>3. QED
        BY <3>1, <4>1, <4>2
    <3>4. QED
      BY <3>2, <3>3
  <2>3. QueuesSound' /\ FdsKnown'
    BY <1>1, <2>1 DEF QInv, QueuesSound, FdsKnown
  <2>4. ChannelTypes' /\ IoNoted'
    BY <1>1, <2>2 DEF QInv, ChannelTypes, IoNoted
  <2>5. Awaited'
    BY <1>1, <1>4, <2>1, <2>2, InterruptsAssumption DEF QInv, Awaited
  <2>6. QED
    BY <1>2, <2>2, <2>3, <2>4, <2>5 DEF QInv
<1>5. QED
  BY <1>3, <1>4

-----------------------------------------------------------------------------
(* The invariant of the queues holds in every state.                       *)

\* At the start all queues are empty and all channels are closed.
LEMMA QueuesInit == Init => QInv
<1> SUFFICES ASSUME Init PROVE QInv
  OBVIOUS
<1>1. pending = <<>> /\ ready = <<>> /\ Spending_channels_headS = NoChan /\ waiting = {} /\ blocking = NoChan
  BY DEF Init, EventInit
<1>2. Completed = {}
  BY <1>1, ChainEmpty DEF Completed
<1>3. Members(pending) = {} /\ Members(ready) = {} /\ Once(pending) /\ Once(ready)
  BY <1>1 DEF Members, Once
<1>4. QueuesSound
  BY <1>1, <1>3 DEF QueuesSound, Init, EventInit
<1>5. LinksSound /\ IoNoted /\ Awaited
  BY <1>1, <1>2, <1>3, InterruptsAssumption DEF Init, LinksSound, Links, IoNoted, Awaited
<1>6. ChannelTypes /\ BlockedMasked /\ FdsKnown
  BY DEF Init, EventInit, ChannelTypes, BlockedMasked, FdsKnown
<1>7. QED
  BY <1>4, <1>5, <1>6 DEF QInv

\* Signals and descriptors that become ready.
LEMMA OutsideQueues ==
  ASSUME QInv, Outside
  PROVE  QInv'
<1>1. UNCHANGED <<queues, completed, channelStatus, threads, Spending_interruptsS, Senabled_interruptsS>>
  BY DEF Outside, KeyboardSignal, when_keyboard_interrupt, Tick, when_alarm_interrupt, BecomesReady,
         EventsOnly, masks
<1>2. QED
  BY <1>1, QuietQueues DEF QInv, ChannelTypes, BlockedMasked

\* The steps that look for events.
LEMMA LookingQueues ==
  ASSUME QInv,
         Poll \/ SetAgain \/ SetLate \/ KEYBOARD_INTERRUPT_EVENT \/ NoKeyboardInterrupt
         \/ PollFds \/ IO_COMPLETION_EVENT \/ ALARM_EVENT \/ NO_EVENT
         \/ ClearEvents \/ Recheck \/ Again
  PROVE  QInv'
<1>1. CASE Poll \/ SetAgain \/ SetLate \/ NoKeyboardInterrupt \/ NO_EVENT \/ ClearEvents \/ Again
  <2>1. UNCHANGED <<queues, completed, channelStatus, threads, Spending_interruptsS, Senabled_interruptsS>>
    BY <1>1 DEF Poll, SetAgain, SetLate, NoKeyboardInterrupt, NO_EVENT, ClearEvents, Again, TakeEvents,
       NotFlags, EventsOnly, masks, eventVars
  <2>2. QED
    BY <2>1, QuietQueues DEF QInv, ChannelTypes, BlockedMasked
<1>2. CASE Recheck
  <2>1. UNCHANGED <<queues, completed, channelStatus, threads, Spending_interruptsS, Senabled_interruptsS>>
    BY <1>2 DEF Recheck, check_for_enabled_interrupt, NotFlags
  <2>2. QED
    BY <2>1, QuietQueues DEF QInv, ChannelTypes, BlockedMasked
<1>3. CASE KEYBOARD_INTERRUPT_EVENT \/ ALARM_EVENT
  <2>1. UNCHANGED <<queues, completed, channelStatus, threads, Senabled_interruptsS>>
    BY <1>3 DEF KEYBOARD_INTERRUPT_EVENT, ALARM_EVENT, TakeKeyboard, Event
  <2>2. /\ Spending_interruptsS' \subseteq AllInterrupts
        /\ "io" \in Spending_interruptsS => "io" \in Spending_interruptsS'
    BY <1>3 DEF KEYBOARD_INTERRUPT_EVENT, ALARM_EVENT, Event, QInv, ChannelTypes, AllInterrupts, InPriority, Members
  <2>3. QED
    BY <2>1, <2>2, QuietQueues DEF QInv, BlockedMasked
<1>4. CASE PollFds
  <2>1. UNCHANGED <<completed, channelStatus, threads, Spending_interruptsS, Senabled_interruptsS>>
    BY <1>4 DEF PollFds, EventsOnly, masks
  <2>2. MoveSelected \/ UNCHANGED queues
    BY <1>4 DEF PollFds, PollPorts, eventVars
  <2>3. CASE MoveSelected
    BY <2>1, <2>3, MovingQueues DEF masks
  <2>4. CASE UNCHANGED queues
    BY <2>1, <2>4, QuietQueues DEF QInv, ChannelTypes, BlockedMasked
  <2>5. QED
    BY <2>2, <2>3, <2>4
<1>5. CASE IO_COMPLETION_EVENT
  BY <1>5, CompletionQueues
<1>6. QED
  BY <1>1, <1>2, <1>3, <1>4, <1>5

\* The steps that deliver an interrupt, sleep, or end an operation.
LEMMA RunningQueues ==
  ASSUME QInv,
         DeliverOther \/ DeliverIo \/ FollowFalse \/ Wait \/ WaitForEvent \/ WaitKeyboard \/ EnterSelect
         \/ SelectReady \/ SelectTimeout \/ SelectInterrupted \/ SetAlarm \/ WaitForChannel
  PROVE  QInv'
<1>1. CASE DeliverOther
  <2>1. /\ UNCHANGED <<queues, completed, channelStatus, threads>>
        /\ Spending_interruptsS' = Spending_interruptsS \ {Highest(Enabled)} /\ Highest(Enabled) # "io"
        /\ Senabled_interruptsS' = {}
    BY <1>1 DEF DeliverOther, check_for_enabled_interrupt, NotFlags
  <2>2. QED
    BY <2>1, QuietQueues DEF QInv, ChannelTypes
<1>2. CASE DeliverIo
  BY <1>2, DeliverIoQueues
<1>3. CASE FollowFalse \/ Wait \/ WaitForEvent \/ WaitKeyboard \/ EnterSelect \/ SelectTimeout
           \/ SelectInterrupted \/ SetAlarm
  <2>1. UNCHANGED <<queues, completed, channelStatus, threads, Spending_interruptsS, Senabled_interruptsS>>
    BY <1>3 DEF FollowFalse, Wait, WaitForEvent, WaitKeyboard, EnterSelect, SelectTimeout, SelectInterrupted,
       SetAlarm, TakeEvents,
       NotFlags, EventsOnly, masks, eventVars, WaitInterrupted, schedule_alarm_interrupt
  <2>2. QED
    BY <2>1, QuietQueues DEF QInv, ChannelTypes, BlockedMasked
<1>4. CASE SelectReady
  <2>1. UNCHANGED <<masks, completed, channelStatus, threads>> /\ MoveSelected
    BY <1>4 DEF SelectReady, StopWaiting, EventsOnly
  <2>2. QED
    BY <2>1, MovingQueues
<1>5. CASE WaitForChannel
  BY <1>5, WaitQueues
<1>6. QED
  BY <1>1, <1>2, <1>3, <1>4, <1>5

\* The program's own steps.
LEMMA ProgramQueues ==
  ASSUME QInv, Program
  PROVE  QInv'
<1>1. ASSUME NEW mask \in {{}, AllInterrupts}, SetEnabled(mask)
      PROVE  QInv'
  <2>1. UNCHANGED <<queues, completed, channelStatus, threads, Spending_interruptsS>> /\ blocking = NoChan
    BY <1>1 DEF SetEnabled, Resting, check_for_enabled_interrupt, NotFlags
  <2>2. QED
    BY <2>1, QuietQueues DEF QInv, ChannelTypes
<1>2. CASE ScheduleInterrupt \/ RootWait
  <2>1. /\ UNCHANGED <<queues, completed, channelStatus, threads>> /\ blocking = NoChan
        /\ Spending_interruptsS' \in {Spending_interruptsS, Spending_interruptsS \ {"alarm"}}
    BY <1>2 DEF ScheduleInterrupt, RootWait, Resting, check_for_enabled_interrupt, NotFlags
  <2>2. QED
    BY <2>1, QuietQueues DEF QInv, ChannelTypes
<1>3. ASSUME NEW c \in Fds, OperationDone(c)
      PROVE  QInv'
  <2>1. UNCHANGED <<queues, completed, channelStatus, threads, Spending_interruptsS, Senabled_interruptsS>>
    BY <1>3 DEF OperationDone, EventsOnly, masks
  <2>2. QED
    BY <2>1, QuietQueues DEF QInv, ChannelTypes, BlockedMasked
<1>4. QED
  BY <1>1, <1>2, <1>3, OpenQueues, CloseQueues, PendingQueues, StealQueues DEF Program

\* Every step keeps the invariant.
LEMMA QueuesNext ==
  ASSUME QInv, [Next]_vars
  PROVE  QInv'
<1>1. CASE UNCHANGED vars
  <2>1. UNCHANGED <<queues, completed, channelStatus, threads, Spending_interruptsS, Senabled_interruptsS>>
    BY <1>1 DEF vars, eventVars, masks
  <2>2. QED
    BY <2>1, QuietQueues DEF QInv, ChannelTypes, BlockedMasked
<1>2. CASE Next
  BY <1>1, <1>2, OutsideQueues, LookingQueues, RunningQueues, ProgramQueues DEF Next, VmStep, Gone
<1>3. QED
  BY <1>1, <1>2

\* The invariant of the queues holds, whatever the order of the accesses to the flags.
LEMMA QueuesAlways == Spec => []QInv
<1>1. Init => QInv
  BY QueuesInit
<1>2. QInv /\ [Next]_vars => QInv'
  BY QueuesNext
<1>3. QED
  BY <1>1, <1>2, PTL DEF Spec

\* A step notes i/o, or empties the queue of completed channels, only together with
\* the other, but for the abort of a channel in the queue.
LEMMA LinkStep ==
  ASSUME QInv, [Next]_vars
  PROVE  NoLink' => NoLink \/ \E c \in Completed : StealChannel(c)
<1> SUFFICES ASSUME NoLink' PROVE NoLink \/ \E c \in Completed : StealChannel(c)
  OBVIOUS
<1>1. "io" \in Spending_interruptsS' /\ Spending_channels_headS' = NoChan
  BY DEF NoLink
<1> DEFINE Same == /\ Spending_channels_headS' = Spending_channels_headS
                   /\ Spending_interruptsS' \ Spending_interruptsS \subseteq {"alarm", "keyboard"}
<1>2. Same => NoLink
  BY <1>1 DEF NoLink
<1>3. CASE UNCHANGED vars
  BY <1>2, <1>3 DEF vars, masks, completed
<1>4. CASE Outside \/ Gone
  BY <1>2, <1>4 DEF Outside, KeyboardSignal, Tick, BecomesReady, Gone, EventsOnly, vars, masks, completed
<1>5. CASE IO_COMPLETION_EVENT
  BY <1>1, <1>5, CompletionQueues
<1>6. CASE Poll \/ SetAgain \/ SetLate \/ KEYBOARD_INTERRUPT_EVENT \/ NoKeyboardInterrupt \/ PollFds
           \/ ALARM_EVENT \/ NO_EVENT \/ ClearEvents \/ Recheck \/ Again
  <2>1. Same
    BY <1>6 DEF Poll, SetAgain, SetLate, KEYBOARD_INTERRUPT_EVENT, NoKeyboardInterrupt, PollFds, ALARM_EVENT,
       NO_EVENT, ClearEvents, Recheck, Again, TakeEvents, Event, check_for_enabled_interrupt,
       EventsOnly, masks, completed
  <2>2. QED
    BY <1>2, <2>1
<1>7. CASE DeliverIo
  BY <1>1, <1>7 DEF DeliverIo, check_for_enabled_interrupt
<1>8. CASE DeliverOther \/ FollowFalse \/ Wait \/ WaitForEvent \/ WaitKeyboard \/ EnterSelect \/ SelectReady
           \/ SelectTimeout \/ SelectInterrupted \/ SetAlarm \/ WaitForChannel
  <2>1. Same
    BY <1>8 DEF DeliverOther, FollowFalse, Wait, WaitForEvent, WaitKeyboard, EnterSelect, SelectReady,
       SelectTimeout, SelectInterrupted, SetAlarm, WaitForChannel, TakeEvents, check_for_enabled_interrupt,
       EventsOnly, masks, completed
  <2>2. QED
    BY <1>2, <2>1
<1>9. CASE Program
  <2>1. ASSUME NEW c \in Fds, StealChannel(c)
        PROVE  NoLink \/ \E d \in Completed : StealChannel(d)
    <3>1. CASE c \in Completed
      BY <2>1, <3>1
    <3>2. CASE c \notin Completed
      BY <1>2, <2>1, <3>2 DEF StealChannel, vm_channel_abort, masks, completed
    <3>3. QED
      BY <3>1, <3>2
  <2>2. ASSUME NEW mask, SetEnabled(mask)
        PROVE  Same
    BY <2>2 DEF SetEnabled, check_for_enabled_interrupt, completed
  <2>3. CASE ScheduleInterrupt \/ RootWait
    BY <1>2, <2>3 DEF ScheduleInterrupt, RootWait, check_for_enabled_interrupt, completed
  <2>4. ASSUME NEW c \in Fds,
               \/ \E status \in Modes : OpenChannel(c, status)
               \/ close_channel(c) \/ OperationDone(c) \/ OperationPending(c)
        PROVE  Same
    BY <2>4 DEF OpenChannel, close_channel, OperationDone, OperationPending, EventsOnly, masks, completed
  <2>5. QED
    BY <1>2, <1>9, <2>1, <2>2, <2>3, <2>4 DEF Program
<1>10. QED
  BY <1>3, <1>4, <1>5, <1>6, <1>7, <1>8, <1>9 DEF Next, VmStep

\* handle_interrupt finds an enabled interrupt, and nothing but channel-abort of a
\* channel in the queue leaves it without a channel for i/o (scheme/vm/interrupt.scm,
\* scheme/vm/vmio.scm), if the compiler keeps the order of the accesses to the flags.
THEOREM HandlingJustified == ASSUME InOrder PROVE Spec => InterruptsJustified
<1>1. QInv /\ [Next]_vars => [NoLink' => NoLink \/ \E c \in Completed : StealChannel(c)]_vars
  BY LinkStep
<1>2. Spec => [][NoLink' => NoLink \/ \E c \in Completed : StealChannel(c)]_vars
  BY <1>1, QueuesAlways, PTL DEF Spec
<1>3. Spec => [](pc = "handle" => Enabled # {})
  BY HandlerFound DEF SearchEnds
<1>4. QED
  BY <1>2, <1>3 DEF InterruptsJustified

\* The links of the queue of completed channels lead from its head to its tail, to
\* no other channel, and the i/o interrupt is noted as long as there is a channel
\* in it: enqueue-channel!, dequeue-channel! and channel-abort of scheme/vm/vmio.scm.
THEOREM ChannelQueueKept == Spec => []ChannelQueueSound
<1>1. QInv => ChannelQueueSound
  BY DEF QInv, LinksSound, IoNoted, ChannelQueueSound
<1>2. QED
  BY <1>1, QueuesAlways, PTL

\* i/o-completion-handler of scheme/rts/channel.scm finds a thread for every
\* completed channel, and each waiting thread has its descriptor on one of the
\* queues or its channel in the queue of completed channels, also when a channel
\* is stolen whose i/o has completed.
THEOREM CompletionsMatched == Spec => []CompletionsAwaited
<1>1. QInv => CompletionsAwaited
  <2>1. QInv => Members(pending \o ready) = Members(pending) \cup Members(ready)
    BY ConcatFacts DEF QInv, QueuesSound
  <2>2. QED
    BY <2>1 DEF QInv, Awaited, CompletionsAwaited
<1>2. QED
  BY <1>1, QueuesAlways, PTL

-----------------------------------------------------------------------------
(* Why the VM never sleeps on a descriptor that is known to be ready.      *)

\* A descriptor that waits to be reported is an event that has been noted, or
\* check_events is on its way to it.
ReadyNoted == ready # <<>> => Spending_eventsPS \/ pc \in {"key", "poll", "ready"}

\* wait and the caller of check_events find the flags computed anew.
FlagsLooked == pc \in {"wait", "again"} /\ Spending_eventsPS => Spending_interruptPS

\* Nothing waits to be reported when the flag is cleared and when the VM sleeps.
NoneReady == pc \in {"clear", "pending?", "keyboard?", "fds", "select"} => ready = <<>>

\* The VM sleeps when no interrupt has been noted.
NoneNoted == pc \in {"keyboard?", "fds", "select"} => Spending_interruptsS = {}

SInv == ReadyNoted /\ FlagsLooked /\ NoneReady /\ NoneNoted

\* A queue is empty when nothing is on it.
LEMMA EmptyQueue ==
  ASSUME NEW X, NEW q \in Seq(X)
  PROVE  q = <<>> <=> Members(q) = {}
<1>1. ASSUME q # <<>>
      PROVE  Members(q) # {}
  <2>1. 1 \in DOMAIN q
    BY <1>1
  <2>2. QED
    BY <2>1 DEF Members
<1>2. QED
  BY <1>1 DEF Members

\* A signal changes none of what a sleeping VM relies on.
LEMMA OutsideSleep ==
  ASSUME SInv, Outside
  PROVE  SInv'
<1>1. UNCHANGED <<ready, Spending_interruptsS>>
  BY DEF Outside, KeyboardSignal, when_keyboard_interrupt, Tick, when_alarm_interrupt, BecomesReady,
         EventsOnly, masks, queues
<1>2. UNCHANGED <<pc, Spending_eventsPS, Spending_interruptPS>> \/ (NOTE_EVENT /\ pc' \in {pc, "eintr"})
  BY DEF Outside, KeyboardSignal, when_keyboard_interrupt, Interrupted, Tick, when_alarm_interrupt, BecomesReady,
         control, flags
<1>3. QED
  BY <1>1, <1>2 DEF SInv, ReadyNoted, FlagsLooked, NoneReady, NoneNoted, NOTE_EVENT

\* check_for_enabled_interrupt leads to places where the flags have been computed.
LEMMA CheckSleep ==
  ASSUME SInv, InOrder, ready' = ready, pc \notin {"key", "poll", "ready"},
         NEW pendingInts, NEW enabled, NEW after \in {"run", "again", "schedule", "wait"},
         check_for_enabled_interrupt(pendingInts, enabled, after)
  PROVE  SInv'
  BY DEF check_for_enabled_interrupt, SInv, ReadyNoted, FlagsLooked, NoneReady, NoneNoted

\* The steps that look for events.
LEMMA LookingSleep ==
  ASSUME SInv, IInv, InOrder,
         Poll \/ SetAgain \/ SetLate \/ KEYBOARD_INTERRUPT_EVENT \/ NoKeyboardInterrupt
         \/ PollFds \/ IO_COMPLETION_EVENT \/ ALARM_EVENT \/ NO_EVENT
         \/ ClearEvents \/ Recheck \/ Again
  PROVE  SInv'
<1>1. CASE Poll
  BY <1>1 DEF Poll, TakeEvents, NotFlags, EventsOnly, masks, eventVars, queues, flags,
     SInv, ReadyNoted, FlagsLooked, NoneReady, NoneNoted
<1>2. CASE SetAgain
  BY <1>2 DEF SetAgain, EventsOnly, masks, queues, IInv, ReturnKnown,
     SInv, ReadyNoted, FlagsLooked, NoneReady, NoneNoted
<1>3. CASE SetLate
  BY <1>3 DEF SetLate, IInv, NeverLate
<1>4. CASE KEYBOARD_INTERRUPT_EVENT \/ PollFds \/ IO_COMPLETION_EVENT
  <2>1. pc' \in {"key", "ready"}
    BY <1>4 DEF KEYBOARD_INTERRUPT_EVENT, PollFds, IO_COMPLETION_EVENT, Event, GoTo
  <2>2. QED
    BY <2>1 DEF SInv, ReadyNoted, FlagsLooked, NoneReady, NoneNoted
<1>5. CASE NoKeyboardInterrupt \/ ALARM_EVENT
  <2>1. pc' \in {"key", "poll"}
    BY <1>5 DEF NoKeyboardInterrupt, ALARM_EVENT, Event, GoTo
  <2>2. QED
    BY <2>1 DEF SInv, ReadyNoted, FlagsLooked, NoneReady, NoneNoted
<1>6. CASE NO_EVENT \/ ClearEvents
  <2>1. ready' = <<>> /\ pc' \in {"clear", "recheck"}
    BY <1>6 DEF NO_EVENT, ClearEvents, GoTo, NotFlags, eventVars, queues, SInv, NoneReady
  <2>2. QED
    BY <2>1 DEF SInv, ReadyNoted, FlagsLooked, NoneReady, NoneNoted
<1>7. CASE Recheck
  <2>1. ready' = ready /\ pc = "recheck"
    BY <1>7 DEF Recheck, NotFlags, queues
  <2>2. QED
    BY <1>7, <2>1, CheckSleep DEF Recheck
<1>8. CASE Again
  <2>1. CASE TakeEvents(caller)
    <3>1. pc' = "key"
      BY <2>1 DEF TakeEvents
    <3>2. QED
      BY <3>1 DEF SInv, ReadyNoted, FlagsLooked, NoneReady, NoneNoted
  <2>2. CASE ~TakeEvents(caller)
    <3>1. /\ UNCHANGED <<ready, Spending_eventsPS>> /\ pc = "again" /\ pc' \in {"handle", "run", "pending?"}
          /\ pc' = "pending?" => ~Spending_interruptPS
      BY <1>8, <2>2 DEF Again, GoTo, eventVars, queues, flags
    <3>2. QED
      BY <3>1 DEF SInv, ReadyNoted, FlagsLooked, NoneReady, NoneNoted
  <2>3. QED
    BY <2>1, <2>2
<1>9. QED
  BY <1>1, <1>2, <1>3, <1>4, <1>5, <1>6, <1>7, <1>8

\* The steps that deliver an interrupt, sleep, or end an operation.
LEMMA RunningSleep ==
  ASSUME SInv, InOrder,
         DeliverOther \/ DeliverIo \/ FollowFalse \/ Wait \/ WaitForEvent \/ WaitKeyboard \/ EnterSelect
         \/ SelectReady \/ SelectTimeout \/ SelectInterrupted \/ SetAlarm \/ WaitForChannel
  PROVE  SInv'
<1>1. CASE DeliverOther \/ DeliverIo
  <2>1. ready' = ready /\ pc = "handle"
    BY <1>1 DEF DeliverOther, DeliverIo, IoFirst, NotFlags, queues
  <2>2. QED
    BY <1>1, <2>1, CheckSleep DEF DeliverOther, DeliverIo
<1>2. CASE Wait
  <2>1. CASE TakeEvents("wait")
    <3>1. pc' = "key"
      BY <2>1 DEF TakeEvents
    <3>2. QED
      BY <3>1 DEF SInv, ReadyNoted, FlagsLooked, NoneReady, NoneNoted
  <2>2. CASE ~TakeEvents("wait")
    <3>1. /\ UNCHANGED <<ready, Spending_eventsPS>> /\ pc = "wait" /\ pc' \in {"run", "pending?"}
          /\ pc' = "pending?" => ~Spending_interruptPS
      BY <1>2, <2>2 DEF Wait, GoTo, eventVars, queues, flags
    <3>2. QED
      BY <3>1 DEF SInv, ReadyNoted, FlagsLooked, NoneReady, NoneNoted
  <2>3. QED
    BY <2>1, <2>2
<1>3. CASE WaitForEvent \/ WaitKeyboard \/ EnterSelect
  <2>1. /\ UNCHANGED <<ready, Spending_interruptsS>> /\ pc \in {"pending?", "keyboard?", "fds"}
        /\ pc' \in {"run", "keyboard?", "fds", "select"}
        /\ pc' # "run" => Spending_interruptsS = {}
    BY <1>3 DEF WaitForEvent, WaitKeyboard, EnterSelect, GoTo, EventsOnly, masks, queues, eventVars, SInv, NoneNoted
  <2>2. QED
    BY <2>1 DEF SInv, ReadyNoted, FlagsLooked, NoneReady, NoneNoted
<1>4. CASE SelectReady \/ SelectTimeout \/ SelectInterrupted
  <2>1. pc' = "run" /\ (ready' # <<>> => Spending_eventsPS')
    BY <1>4 DEF SelectReady, SelectTimeout, SelectInterrupted, GoTo, StopWaiting, WaitInterrupted, NOTE_EVENT, queues
  <2>2. QED
    BY <2>1 DEF SInv, ReadyNoted, FlagsLooked, NoneReady, NoneNoted
<1>5. CASE SetAlarm \/ WaitForChannel
  <2>1. /\ ready' = ready /\ pc \in {"schedule", "run"} /\ pc' = "run"
        /\ Spending_eventsPS => Spending_eventsPS'
    BY <1>5 DEF SetAlarm, WaitForChannel, GoTo, schedule_alarm_interrupt, NOTE_EVENT, eventVars, control, queues, flags
  <2>2. QED
    BY <2>1 DEF SInv, ReadyNoted, FlagsLooked, NoneReady, NoneNoted
<1>6. CASE FollowFalse
  <2>1. /\ UNCHANGED <<ready, Spending_interruptsS, Spending_eventsPS>> /\ pc = "handle" /\ pc' = "crashed"
    BY <1>6 DEF FollowFalse, IoFirst, GoTo, EventsOnly, masks, queues, eventVars, flags
  <2>2. QED
    BY <2>1 DEF SInv, ReadyNoted, FlagsLooked, NoneReady, NoneNoted
<1>7. QED
  BY <1>1, <1>2, <1>3, <1>4, <1>5, <1>6

\* The program's own steps take descriptors off the ready queue, never onto it.
LEMMA ProgramSleep ==
  ASSUME SInv, QInv, InOrder, Program
  PROVE  SInv'
<1>1. CASE (\E mask \in {{}, AllInterrupts} : SetEnabled(mask)) \/ ScheduleInterrupt \/ RootWait
  <2>1. ready' = ready /\ pc = "run"
    BY <1>1 DEF SetEnabled, ScheduleInterrupt, RootWait, Resting, NotFlags, queues
  <2>2. QED
    BY <1>1, <2>1, CheckSleep DEF SetEnabled, ScheduleInterrupt, RootWait
<1>2. ASSUME NEW c \in Fds,
             \/ \E status \in Modes : OpenChannel(c, status)
             \/ close_channel(c) \/ OperationDone(c) \/ OperationPending(c) \/ StealChannel(c)
      PROVE  SInv'
  <2>1. pc = "run" /\ pc' = "run" /\ Spending_eventsPS' = Spending_eventsPS
    BY <1>2 DEF OpenChannel, close_channel, OperationDone, OperationPending, StealChannel, Resting,
       control, eventVars, flags
  <2>2. ready' = ready \/ ready' = Without(ready, c)
    BY <1>2 DEF OpenChannel, close_channel, OperationDone, OperationPending, StealChannel, vm_channel_abort,
       add_pending_fd, remove_fd, eventVars, queues
  <2>3. ready = <<>> => ready' = <<>>
    <3>1. ready \in Seq(Fds) /\ Without(ready, c) \in Seq(Fds) /\ Members(Without(ready, c)) \subseteq Members(ready)
      BY WithoutFacts DEF QInv, QueuesSound
    <3>2. QED
      BY <2>2, <3>1, EmptyQueue
  <2>4. QED
    BY <2>1, <2>3 DEF SInv, ReadyNoted, FlagsLooked, NoneReady, NoneNoted
<1>3. QED
  BY <1>1, <1>2 DEF Program

\* Every step keeps the invariant.
LEMMA SleepNext ==
  ASSUME IInv, QInv, SInv, InOrder, [Next]_vars
  PROVE  SInv'
<1>1. CASE UNCHANGED vars
  BY <1>1 DEF vars, eventVars, queues, flags, masks, control, SInv, ReadyNoted, FlagsLooked, NoneReady, NoneNoted
<1>2. CASE Next
  BY <1>1, <1>2, OutsideSleep, LookingSleep, RunningSleep, ProgramSleep DEF Next, VmStep, Gone
<1>3. QED
  BY <1>1, <1>2

\* The VM does not sleep in select() while a descriptor is known to be ready or a
\* channel has completed: wait_for_event is not entered with such an event
\* (the instruction wait, check_events and root-wait together), whatever the
\* moments at which signals fall.
THEOREM SleepIsIdle == ASSUME InOrder PROVE Spec => []SleepsIdle
<1>1. Init => IInv /\ SInv
  BY InitOk DEF Init, EventInit, SInv, ReadyNoted, FlagsLooked, NoneReady, NoneNoted
<1>2. IInv /\ SInv /\ QInv /\ [Next]_vars => (IInv /\ SInv)'
  BY NextOk, SleepNext
<1>3. SInv /\ QInv => SleepsIdle
  BY ChainEmpty DEF SInv, NoneReady, NoneNoted, QInv, IoNoted, SleepsIdle, Completed
<1>4. QED
  BY <1>1, <1>2, <1>3, QueuesAlways, PTL DEF Spec

-----------------------------------------------------------------------------
(* Why the C runtime goes on polling while descriptors are watched.        *)

\* The times are ticks; -1 stands for none, -2 for one before the clock was reset.
TimesTyped == current_time \in Nat /\ poll_time \in Nat \cup {-1, -2}

\* An alarm is scheduled when the poll is one tick overdue (event.c:134).
OneTickLate == SetAlarm /\ current_time - poll_time = 1

\* What every step does for the polls: they are lost in one way only.
PollKept == TimesTyped' /\ (PollLost' => PollLost \/ OneTickLate)

\* A step that leaves the watched descriptors and the time of the poll alone.
LEMMA QuietPoll ==
  ASSUME TimesTyped, UNCHANGED <<pending, poll_time>>, current_time' \in Nat
  PROVE  PollKept
  BY DEF PollKept, TimesTyped, PollLost

\* Moving descriptors to the ready queue, and the end of the polls with the last.
LEMMA MovingPoll ==
  ASSUME TimesTyped, QInv, MoveSelected, poll_time' = PollTimeAfterSelect, current_time' = current_time
  PROVE  PollKept
<1>1. pending' = <<>> \/ pending # <<>>
  <2>1. Members(pending') \subseteq Members(pending) /\ pending \in Seq(Fds) /\ pending' \in Seq(Fds)
    BY FilterFacts DEF MoveSelected, QInv, QueuesSound
  <2>2. QED
    BY <2>1, EmptyQueue
<1>2. QED
  BY <1>1 DEF PollTimeAfterSelect, PollKept, TimesTyped, PollLost

\* Taking a descriptor off its queue ends the polls only with the last one.
LEMMA RemovingPoll ==
  ASSUME TimesTyped, QInv, NEW c \in Fds, remove_fd(c), current_time' = current_time
  PROVE  PollKept
<1>1. Members(pending') \subseteq Members(pending) /\ pending \in Seq(Fds) /\ pending' \in Seq(Fds)
  BY WithoutFacts DEF remove_fd, QInv, QueuesSound
<1>2. pending = <<>> => pending' = <<>>
  <2>1. Members(pending') = {} => pending' = <<>>
    BY <1>1, EmptyQueue
  <2>2. QED
    BY <1>1, <2>1, EmptyQueue
<1>3. QED
  BY <1>2 DEF remove_fd, PollKept, TimesTyped, PollLost

\* The clock ticks and the polls stay set up.
LEMMA OutsidePoll ==
  ASSUME TimesTyped, Outside
  PROVE  PollKept
<1>1. UNCHANGED <<pending, poll_time>> /\ current_time' \in {current_time, current_time + 1}
  BY DEF Outside, KeyboardSignal, when_keyboard_interrupt, Tick, when_alarm_interrupt, BecomesReady, queues,
     handlerVars, times
<1>2. QED
  BY <1>1, QuietPoll DEF TimesTyped

\* The steps that look for events; queue_ready_ports sets up the next poll.
LEMMA LookingPoll ==
  ASSUME TimesTyped, QInv,
         Poll \/ SetAgain \/ SetLate \/ KEYBOARD_INTERRUPT_EVENT \/ NoKeyboardInterrupt
         \/ PollFds \/ IO_COMPLETION_EVENT \/ ALARM_EVENT \/ NO_EVENT
         \/ ClearEvents \/ Recheck \/ Again
  PROVE  PollKept
<1>1. CASE PollFds /\ PollPorts
  <2>1. current_time' = current_time /\ poll_time' = current_time + PollInterval
    BY <1>1 DEF PollPorts
  <2>2. poll_time' \in Nat
    BY <2>1, EventQueueAssumption DEF TimesTyped
  <2>3. QED
    BY <2>1, <2>2 DEF PollKept, TimesTyped, PollLost
<1>2. CASE PollFds /\ ~PollPorts
  BY <1>2, QuietPoll DEF PollFds, eventVars, queues, times, TimesTyped
<1>3. CASE IO_COMPLETION_EVENT \/ ALARM_EVENT
  BY <1>3, QuietPoll DEF IO_COMPLETION_EVENT, ALARM_EVENT, next_ready_port, queues, times, handlerVars, TimesTyped
<1>4. CASE Poll \/ SetAgain \/ SetLate \/ KEYBOARD_INTERRUPT_EVENT \/ NoKeyboardInterrupt \/ NO_EVENT
           \/ ClearEvents \/ Recheck \/ Again
  <2>1. UNCHANGED <<pending, poll_time, current_time>>
    BY <1>4 DEF Poll, SetAgain, SetLate, KEYBOARD_INTERRUPT_EVENT, NoKeyboardInterrupt, NO_EVENT, ClearEvents,
       Recheck, Again, TakeEvents, TakeKeyboard, NotFlags, eventVars, queues, times
  <2>2. QED
    BY <2>1, QuietPoll DEF TimesTyped
<1>5. QED
  BY <1>1, <1>2, <1>3, <1>4

\* The steps that deliver an interrupt, sleep, or end an operation;
\* schedule_alarm_interrupt keeps the rest of the poll interval, or loses the poll.
LEMMA RunningPoll ==
  ASSUME TimesTyped, QInv,
         DeliverOther \/ DeliverIo \/ FollowFalse \/ Wait \/ WaitForEvent \/ WaitKeyboard \/ EnterSelect
         \/ SelectReady \/ SelectTimeout \/ SelectInterrupted \/ SetAlarm \/ WaitForChannel
  PROVE  PollKept
<1>1. CASE DeliverOther \/ DeliverIo \/ FollowFalse \/ Wait \/ WaitForEvent \/ WaitKeyboard \/ EnterSelect
           \/ SelectTimeout \/ SelectInterrupted \/ WaitForChannel
  <2>1. UNCHANGED <<pending, poll_time, current_time>>
    BY <1>1 DEF DeliverOther, DeliverIo, FollowFalse, Wait, WaitForEvent, WaitKeyboard, EnterSelect,
       SelectTimeout, SelectInterrupted, WaitForChannel, TakeEvents, WaitInterrupted, NotFlags, eventVars,
       queues, times
  <2>2. QED
    BY <2>1, QuietPoll DEF TimesTyped
<1>2. CASE SelectReady
  BY <1>2, MovingPoll DEF SelectReady, StopWaiting
<1>3. CASE SetAlarm
  <2>1. /\ pending' = pending /\ current_time' = 0
        /\ poll_time' = IF poll_time = -1 THEN -1
                        ELSE IF poll_time - current_time >= -1 THEN poll_time - current_time ELSE -2
    BY <1>3 DEF SetAlarm, schedule_alarm_interrupt, queues
  <2>2. poll_time \in Int /\ current_time \in Int
    BY DEF TimesTyped
  <2>3. /\ poll_time' \in Nat \cup {-1, -2}
        /\ poll_time' = -1 => poll_time = -1 \/ current_time - poll_time = 1
    BY <2>1, <2>2
  <2>4. QED
    BY <1>3, <2>1, <2>3 DEF PollKept, TimesTyped, PollLost, OneTickLate
<1>4. QED
  BY <1>1, <1>2, <1>3

\* The program's own steps; add_pending_fd starts the polls, and remove_fd ends
\* them only with the last descriptor.
LEMMA ProgramPoll ==
  ASSUME TimesTyped, QInv, Program
  PROVE  PollKept
<1>1. CASE (\E mask \in {{}, AllInterrupts} : SetEnabled(mask)) \/ ScheduleInterrupt \/ RootWait
  <2>1. UNCHANGED <<pending, poll_time, current_time>>
    BY <1>1 DEF SetEnabled, ScheduleInterrupt, RootWait, NotFlags, queues, times
  <2>2. QED
    BY <2>1, QuietPoll DEF TimesTyped
<1>2. ASSUME NEW c \in Fds, (\E status \in Modes : OpenChannel(c, status)) \/ OperationDone(c)
      PROVE  PollKept
  <2>1. UNCHANGED <<pending, poll_time, current_time>>
    BY <1>2 DEF OpenChannel, OperationDone, eventVars, queues, times, handlerVars
  <2>2. QED
    BY <2>1, QuietPoll DEF TimesTyped
<1>3. ASSUME NEW c \in Fds, close_channel(c) \/ (StealChannel(c) /\ c \notin Completed)
      PROVE  PollKept
  <2>1. remove_fd(c) /\ current_time' = current_time
    BY <1>3 DEF close_channel, StealChannel, vm_channel_abort
  <2>2. QED
    BY <2>1, RemovingPoll
<1>4. ASSUME NEW c \in Fds, StealChannel(c) /\ c \in Completed
      PROVE  PollKept
  <2>1. UNCHANGED <<pending, poll_time, current_time>>
    BY <1>4 DEF StealChannel, vm_channel_abort, queues
  <2>2. QED
    BY <2>1, QuietPoll DEF TimesTyped
<1>5. ASSUME NEW c \in Fds, OperationPending(c)
      PROVE  PollKept
  <2>1. current_time' = current_time /\ add_pending_fd(c, channelStatus[c] = "input")
    BY <1>5 DEF OperationPending
  <2>2. fdStatus[c] = "pending" => pending # <<>>
    BY EmptyQueue DEF QInv, QueuesSound
  <2>3. current_time + PollInterval \in Nat
    BY EventQueueAssumption DEF TimesTyped
  <2>4. QED
    BY <2>1, <2>2, <2>3 DEF add_pending_fd, PollKept, TimesTyped, PollLost
<1>6. QED
  BY <1>1, <1>2, <1>3, <1>4, <1>5 DEF Program

\* Every step keeps the polls, but for the alarm one tick after a missed poll.
LEMMA PollNext ==
  ASSUME QInv, TimesTyped, [Next]_vars
  PROVE  PollKept
<1>1. CASE UNCHANGED vars \/ Gone
  <2>1. UNCHANGED <<pending, poll_time, current_time>>
    BY <1>1 DEF vars, Gone, eventVars, queues, times
  <2>2. QED
    BY <2>1, QuietPoll DEF TimesTyped
<1>2. CASE Next
  BY <1>1, <1>2, OutsidePoll, LookingPoll, RunningPoll, ProgramPoll DEF Next, VmStep
<1>3. QED
  BY <1>1, <1>2

\* add_pending_fd, remove_fd, queue_ready_ports and next_ready_port of
\* c/unix/event.c keep every descriptor on the queue that its status names, once,
\* for the direction of its channel; and polling goes on while a descriptor is
\* watched, unless an alarm is scheduled when the poll is exactly one tick overdue.
THEOREM DescriptorQueues == Spec => QueuesAgree
<1>1. Init => TimesTyped
  BY DEF Init, EventInit, TimesTyped
<1>2. TimesTyped /\ QInv /\ [Next]_vars => TimesTyped'
  BY PollNext DEF PollKept
<1>3. TimesTyped /\ QInv /\ [Next]_vars
        => [PollLost' => PollLost \/ (SetAlarm /\ current_time - poll_time = 1)]_vars
  BY PollNext DEF PollKept, OneTickLate
<1>4. QInv => DescriptorsQueued
  <2> SUFFICES ASSUME QInv PROVE DescriptorsQueued
    OBVIOUS
  <2>1. Members(pending \o ready) = Members(pending) \cup Members(ready) /\ Once(pending \o ready)
    BY QueuesDisjoint, ConcatFacts DEF QInv, QueuesSound
  <2>2. \A i, j \in DOMAIN (pending \o ready) : (pending \o ready)[i] = (pending \o ready)[j] => i = j
    BY <2>1 DEF Once
  <2>3. \A fd \in Fds :
          /\ fdStatus[fd] = "pending" <=> fd \in Members(pending)
          /\ fdStatus[fd] = "ready" <=> fd \in Members(ready)
    BY DEF QInv, QueuesSound
  <2>4. \A fd \in Fds : fd \in Members(pending \o ready) => fdStatus[fd] # "none"
    BY <2>1, <2>3
  <2>5. QED
    BY <2>2, <2>3, <2>4 DEF QInv, FdsKnown, DescriptorsQueued
<1>5. Spec => []DescriptorsQueued
  BY <1>4, QueuesAlways, PTL
<1>6. Spec => [][PollLost' => PollLost \/ (SetAlarm /\ current_time - poll_time = 1)]_vars
  BY <1>1, <1>2, <1>3, QueuesAlways, PTL DEF Spec
<1>7. QED
  BY <1>5, <1>6 DEF QueuesAgree
================================================================================

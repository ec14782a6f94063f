------------------------------ MODULE Interrupts ------------------------------
(***************************************************************************)
(* Interrupts and channel i/o of the virtual machine (scheme/vm/interrupt,  *)
(* scheme/vm/vmio and scheme/vm/prim-io, generated as c/scheme48vm.c),      *)
(* composed with the event queue of the C runtime and with what the run-time *)
(* library does with a channel (scheme/rts/channel.scm).                    *)
(*                                                                         *)
(* One process, the virtual machine, with a program counter; the signal    *)
(* handlers and the operating system act between any two of its steps.     *)
(* Scheme code that runs with interrupts disabled and touches nothing of   *)
(* this state is not a step.                                               *)
(***************************************************************************)
EXTENDS EventQueue

CONSTANTS
  NoChan,         \* the false of a queue link or of an empty slot
  Modes,          \* statuses of open channels, among "input" and "output"
  Deltas,         \* arguments of schedule-interrupt
  LatePolls,      \* bound: an alarm may be scheduled when the poll is one tick overdue
  InOrder         \* the C compiler keeps the order of the accesses to the flags

ASSUME InterruptsAssumption ==
  /\ NoChan \notin Fds
  /\ Modes \subseteq {"input", "output"}
  /\ Deltas \subseteq Nat
  /\ {LatePolls, InOrder} \subseteq BOOLEAN

VARIABLES
  pc,                        \* where the VM is, see TypeOK
  caller,                    \* check_events was called by a "poll" or by "wait"
  ret,                       \* where to go on after check_for_enabled_interrupt
  seen,                      \* Spending_eventsPS as an early load returned it
  Spending_interruptsS, Senabled_interruptsS,
  Spending_channels_headS, Spending_channels_tailS,
  channelStatus, next,       \* of the channel in Svm_channelsS[fd]
  blocking,                  \* the channel whose operation raised pending-channel-i/o
  waiting                    \* os indices with a thread in their i/o-wait-queue

control == <<pc, caller, ret, seen>>
masks == <<Spending_interruptsS, Senabled_interruptsS>>
completed == <<Spending_channels_headS, Spending_channels_tailS, next>>
threads == <<blocking, waiting>>
vars == <<eventVars, control, masks, completed, channelStatus, threads>>

InPriority == <<"alarm", "keyboard", "io">>
AllInterrupts == Members(InPriority)

EventsOnly == <<masks, completed, channelStatus, threads>>

Init ==
  /\ EventInit
  /\ pc = "run" /\ caller = "poll" /\ ret = "run" /\ seen = FALSE
  /\ Spending_interruptsS = {} /\ Senabled_interruptsS = {}
  /\ Spending_channels_headS = NoChan /\ Spending_channels_tailS = NoChan
  /\ channelStatus = [c \in Fds |-> "closed"]
  /\ next = [c \in Fds |-> NoChan]
  /\ blocking = NoChan
  /\ waiting = {}

-----------------------------------------------------------------------------
(* Outside the VM: signals, and descriptors that become ready.             *)

\* A signal ends a select() that waits; before the call it changes nothing there.
Interrupted == pc' = IF pc = "select" THEN "eintr" ELSE pc

KeyboardSignal ==
  /\ when_keyboard_interrupt
  /\ Interrupted
  /\ UNCHANGED <<caller, ret, seen, EventsOnly>>

\* Bound: without LatePolls no call of schedule_alarm_interrupt finds the poll
\* one tick overdue.
Tick ==
  /\ LatePolls \/ ~("schedule" \in {pc, ret} /\ current_time = poll_time)
  /\ when_alarm_interrupt
  /\ UNCHANGED <<control, EventsOnly>>

Directions == {TRUE, FALSE}

BecomesReady ==
  /\ \E fd \in Fds, is_input \in Directions :
       /\ <<fd, is_input>> \notin osReady
       /\ channelStatus[fd] = IF is_input THEN "input" ELSE "output"
       /\ osReady' = osReady \cup {<<fd, is_input>>}
  /\ UNCHANGED <<handlerVars, flags, alarm_time, poll_time, ticking, queues,
                 control, EventsOnly>>

-----------------------------------------------------------------------------
(* check_for_enabled_interrupt                                             *)

\* The flag is cleared before the events are looked at.
check_for_enabled_interrupt(pendingInts, enabled, after) ==
  /\ Spending_interruptsS' = pendingInts
  /\ Senabled_interruptsS' = enabled
  /\ IF pendingInts \cap enabled # {}
       THEN /\ Spending_interruptPS' = TRUE
            /\ pc' = after
            /\ UNCHANGED <<ret, seen>>
       ELSE \/ /\ Spending_interruptPS' = FALSE
               /\ pc' = "reset" /\ ret' = after
               /\ UNCHANGED seen
            \/ /\ ~InOrder
               /\ seen' = Spending_eventsPS
               /\ pc' = "late" /\ ret' = after
               /\ UNCHANGED Spending_interruptPS
  /\ UNCHANGED <<caller, Spending_eventsPS>>

\* Mutant: the events are not looked at again.
SetAgain_forgets ==
  /\ pc = "reset" /\ pc' = ret /\ ret' = "run"
  /\ UNCHANGED <<eventVars, caller, seen, EventsOnly>>

SetAgain ==
  /\ pc = "reset" /\ pc' = ret /\ ret' = "run"
  /\ Spending_interruptPS' = (Spending_interruptPS \/ Spending_eventsPS)
  /\ UNCHANGED <<keyboard_interrupt_count, Spending_eventsPS, times, ticking,
                 queues, osReady, caller, seen, EventsOnly>>

\* gcc -O2 loads Spending_eventsPS first and clears the flag after that.
SetLate ==
  /\ pc = "late" /\ pc' = ret /\ ret' = "run"
  /\ Spending_interruptPS' = seen
  /\ seen' = FALSE
  /\ UNCHANGED <<keyboard_interrupt_count, Spending_eventsPS, times, ticking,
                 queues, osReady, caller, EventsOnly>>

-----------------------------------------------------------------------------
(* Polling, and check_events with get_next_event.                          *)

NotFlags == <<keyboard_interrupt_count, times, ticking, queues, osReady>>

\* The inlined pending-interrupt?, at "run" and at the end of check_events.
TakeEvents(from) ==
  /\ Spending_interruptPS /\ Spending_eventsPS
  /\ Spending_eventsPS' = FALSE
  /\ pc' = "key" /\ caller' = from
  /\ UNCHANGED <<NotFlags, Spending_interruptPS, ret, seen, EventsOnly>>

Poll ==
  /\ pc = "run"
  /\ \/ TakeEvents("poll")
     \/ /\ Spending_interruptPS /\ ~Spending_eventsPS
        /\ pc' = "handle"
        /\ UNCHANGED <<eventVars, caller, ret, seen, EventsOnly>>

GoTo(there) == pc' = there /\ UNCHANGED <<caller, ret, seen>>

\* process-event adds the interrupt and check_events asks for the next event.
Event(int) ==
  /\ Spending_interruptsS' = Spending_interruptsS \cup {int}
  /\ GoTo("key")
  /\ UNCHANGED Senabled_interruptsS

KEYBOARD_INTERRUPT_EVENT ==
  /\ pc = "key" /\ KeysWaiting
  /\ TakeKeyboard
  /\ Event("keyboard")
  /\ UNCHANGED <<completed, channelStatus, threads>>

NoKeyboardInterrupt ==
  /\ pc = "key" /\ ~KeysWaiting
  /\ GoTo("poll")
  /\ UNCHANGED <<eventVars, EventsOnly>>

\* queue_ready_ports may fail with EINTR, or otherwise: then the event is an error.
PollFds ==
  /\ pc = "poll"
  /\ \/ PollPorts /\ GoTo("ready")
     \/ PollIsDue /\ pending # <<>> /\ GoTo("ready") /\ UNCHANGED eventVars
     \/ PollIsDue /\ pending # <<>> /\ GoTo("key") /\ UNCHANGED eventVars
     \/ ~PollIsDue /\ GoTo("ready") /\ UNCHANGED eventVars
  /\ UNCHANGED EventsOnly

enqueue_channel(c) ==
  IF next[c] # NoChan THEN UNCHANGED completed
  ELSE IF Spending_channels_headS = NoChan
    THEN /\ Spending_channels_headS' = c /\ Spending_channels_tailS' = c
         /\ UNCHANGED next
    ELSE /\ next' = [next EXCEPT ![Spending_channels_tailS] = c]
         /\ Spending_channels_tailS' = c
         /\ UNCHANGED Spending_channels_headS

IO_COMPLETION_EVENT ==
  /\ pc = "ready" /\ ready # <<>>
  /\ next_ready_port
  /\ enqueue_channel(Head(ready))
  /\ Event("io")
  /\ UNCHANGED <<keyboard_interrupt_count, flags, times, ticking, osReady,
                 channelStatus, threads>>

ALARM_EVENT ==
  /\ pc = "ready" /\ ready = <<>> /\ AlarmIsDue
  /\ alarm_time' = -1
  /\ Event("alarm")
  /\ UNCHANGED <<handlerVars, flags, poll_time, ticking, queues, osReady,
                 completed, channelStatus, threads>>

\* The test of the counts and the store to Spending_eventsPS: a signal may fall between.
NO_EVENT ==
  /\ pc = "ready" /\ ready = <<>> /\ ~AlarmIsDue
  /\ GoTo(IF NothingDue THEN "clear" ELSE "recheck")
  /\ UNCHANGED <<eventVars, EventsOnly>>

ClearEvents ==
  /\ pc = "clear"
  /\ Spending_eventsPS' = FALSE
  /\ GoTo("recheck")
  /\ UNCHANGED <<NotFlags, Spending_interruptPS, EventsOnly>>

Recheck ==
  /\ pc = "recheck"
  /\ check_for_enabled_interrupt(Spending_interruptsS, Senabled_interruptsS, "again")
  /\ UNCHANGED <<NotFlags, completed, channelStatus, threads>>

\* What the caller of check_events does with its value.
Again ==
  /\ pc = "again"
  /\ \/ TakeEvents(caller)
     \/ /\ ~(Spending_interruptPS /\ Spending_eventsPS)
        /\ GoTo(IF caller = "poll"
                  THEN IF Spending_interruptPS THEN "handle" ELSE "run"
                  ELSE IF Spending_interruptPS THEN "run" ELSE "pending?")
        /\ UNCHANGED <<eventVars, EventsOnly>>

-----------------------------------------------------------------------------
(* handle_interrupt, and the Scheme handler as far as it touches channels.  *)

\* get-highest-priority-interrupt! does not return when there is none.
Highest(ints) ==
  InPriority[CHOOSE i \in DOMAIN InPriority :
               InPriority[i] \in ints /\ \A j \in 1 .. i - 1 : InPriority[j] \notin ints]

Enabled == Spending_interruptsS \cap Senabled_interruptsS

\* The handler is called with all interrupts disabled.
DeliverOther ==
  /\ pc = "handle" /\ Enabled # {} /\ Highest(Enabled) # "io"
  /\ check_for_enabled_interrupt(Spending_interruptsS \ {Highest(Enabled)}, {}, "run")
  /\ UNCHANGED <<NotFlags, completed, channelStatus, threads>>

IoFirst == pc = "handle" /\ Enabled # {} /\ Highest(Enabled) = "io"

\* Mutant: the interrupt is not noted again for the channels that follow.
DeliverIo_once ==
  /\ IoFirst /\ Spending_channels_headS # NoChan
  /\ LET channel == Spending_channels_headS
     IN  /\ Spending_channels_headS' = next[channel]
         /\ Spending_channels_tailS' = IF next[channel] = NoChan THEN NoChan ELSE Spending_channels_tailS
         /\ next' = [next EXCEPT ![channel] = NoChan]
         /\ waiting' = waiting \ {channel}
         /\ check_for_enabled_interrupt(Spending_interruptsS \ {"io"}, {}, "run")
  /\ UNCHANGED <<NotFlags, blocking, channelStatus>>

\* Mutant: the interrupt stays noted.
DeliverIo_noted ==
  /\ IoFirst /\ Spending_channels_headS # NoChan
  /\ LET channel == Spending_channels_headS
     IN  /\ Spending_channels_headS' = next[channel]
         /\ Spending_channels_tailS' = IF next[channel] = NoChan THEN NoChan ELSE Spending_channels_tailS
         /\ next' = [next EXCEPT ![channel] = NoChan]
         /\ waiting' = waiting \ {channel}
         /\ check_for_enabled_interrupt(Spending_interruptsS, {}, "run")
  /\ UNCHANGED <<NotFlags, blocking, channelStatus>>

\* dequeue-channel!, and i/o-completion-handler wakes the thread if there is one.
DeliverIo ==
  /\ IoFirst /\ Spending_channels_headS # NoChan
  /\ LET channel == Spending_channels_headS
     IN  /\ Spending_channels_headS' = next[channel]
         /\ Spending_channels_tailS' = IF next[channel] = NoChan THEN NoChan ELSE Spending_channels_tailS
         /\ next' = [next EXCEPT ![channel] = NoChan]
         /\ waiting' = waiting \ {channel}
         /\ check_for_enabled_interrupt(
              IF next[channel] = NoChan THEN Spending_interruptsS \ {"io"} ELSE Spending_interruptsS,
              {}, "run")
  /\ UNCHANGED <<NotFlags, blocking, channelStatus>>

\* dequeue-channel! of an empty queue reads the link of #f, at no address of the process.
FollowFalse ==
  /\ IoFirst /\ Spending_channels_headS = NoChan
  /\ GoTo("crashed")
  /\ UNCHANGED <<eventVars, EventsOnly>>

-----------------------------------------------------------------------------
(* wait, as the root scheduler calls it.                                   *)

Resting == pc = "run" /\ blocking = NoChan

\* root-wait disables interrupts itself, and with that looks at the flags again.
\* Mutant: it relies on interrupts being disabled already.
RootWait_trusting ==
  /\ Resting /\ Senabled_interruptsS = {}
  /\ GoTo("wait")
  /\ UNCHANGED <<eventVars, EventsOnly>>

RootWait ==
  /\ Resting
  /\ check_for_enabled_interrupt(Spending_interruptsS, {}, "wait")
  /\ UNCHANGED <<NotFlags, completed, channelStatus, threads>>

Wait ==
  /\ pc = "wait"
  /\ \/ TakeEvents("wait")
     \/ /\ ~(Spending_interruptPS /\ Spending_eventsPS)
        /\ GoTo(IF Spending_interruptPS THEN "run" ELSE "pending?")
        /\ UNCHANGED <<eventVars, EventsOnly>>

\* wait_for_event stops the timer before it looks at the keyboard.
WaitForEvent ==
  /\ pc = "pending?"
  /\ IF Spending_interruptsS = {}
       THEN ticking' = FALSE /\ GoTo("keyboard?")
       ELSE ticking' = ticking /\ GoTo("run")
  /\ UNCHANGED <<keyboard_interrupt_count, flags, times, queues, osReady, EventsOnly>>

WaitKeyboard ==
  /\ pc = "keyboard?"
  /\ IF KeysWaiting THEN ticking' = TRUE /\ GoTo("run")
                    ELSE ticking' = ticking /\ GoTo("fds")
  /\ UNCHANGED <<keyboard_interrupt_count, flags, times, queues, osReady, EventsOnly>>

\* queue_ready_ports collects the descriptors, then calls select().
EnterSelect ==
  /\ pc = "fds"
  /\ GoTo("select")
  /\ UNCHANGED <<eventVars, EventsOnly>>

\* select() returns with descriptors.
SelectReady ==
  /\ pc = "select"
  /\ \E fd \in Members(pending) : Selected(fd)
  /\ StopWaiting
  /\ GoTo("run")
  /\ UNCHANGED EventsOnly

\* max_wait is over, or select() failed.
SelectTimeout ==
  /\ pc = "select"
  /\ WaitInterrupted
  /\ GoTo("run")
  /\ UNCHANGED EventsOnly

SelectInterrupted ==
  /\ pc = "eintr"
  /\ WaitInterrupted
  /\ GoTo("run")
  /\ UNCHANGED EventsOnly

-----------------------------------------------------------------------------
(* The program, between two polls.                                         *)

\* set-enabled-interrupts! and return-from-interrupt.
SetEnabled(mask) ==
  /\ Resting
  /\ check_for_enabled_interrupt(Spending_interruptsS, mask, "run")
  /\ UNCHANGED <<NotFlags, completed, channelStatus, threads>>

\* schedule-interrupt clears an alarm that has been noted, then sets the next one.
ScheduleInterrupt ==
  /\ Resting
  /\ LatePolls \/ poll_time = -1 \/ current_time - poll_time # 1
  /\ check_for_enabled_interrupt(Spending_interruptsS \ {"alarm"}, Senabled_interruptsS, "schedule")
  /\ UNCHANGED <<NotFlags, completed, channelStatus, threads>>

SetAlarm ==
  /\ pc = "schedule"
  /\ \E delta \in Deltas : schedule_alarm_interrupt(delta)
  /\ GoTo("run")
  /\ UNCHANGED EventsOnly

\* What a walk along the links from h meets: the least set that has h and follows them.
Chain(h, links) ==
  {c \in Fds : \A S \in SUBSET Fds :
     (h # NoChan => h \in S) /\ (\A d \in S : links[d] # NoChan => links[d] \in S) => c \in S}

\* The queue of completed channels, as the VM walks it.
Completed == Chain(Spending_channels_headS, next)

\* open-channel: a new channel for a descriptor that the system had not given out.
OpenChannel(fd, status) ==
  /\ Resting
  /\ channelStatus[fd] = "closed"
  /\ channelStatus' = [channelStatus EXCEPT ![fd] = status]
  /\ UNCHANGED <<eventVars, control, masks, completed, threads>>

\* close-channel, of a port that no thread has locked for an operation.
close_channel(c) ==
  /\ Resting
  /\ channelStatus[c] # "closed" /\ c \notin waiting
  /\ remove_fd(c)
  /\ channelStatus' = [channelStatus EXCEPT ![c] = "closed"]
  /\ osReady' = osReady \ ({c} \X Directions)
  /\ UNCHANGED <<keyboard_interrupt_count, flags, current_time, alarm_time, ticking,
                 control, masks, completed, threads>>

\* channel-maybe-read, channel-maybe-write, accept, connect: done at once, or ...
OperationDone(c) ==
  /\ Resting
  /\ channelStatus[c] # "closed" /\ c \notin waiting
  /\ <<c, channelStatus[c] = "input">> \in osReady
  /\ osReady' = osReady \ {<<c, channelStatus[c] = "input">>}
  /\ UNCHANGED <<handlerVars, flags, alarm_time, poll_time, ticking, queues,
                 control, EventsOnly>>

\* ... pending.  Mutant: interrupts stay enabled.
OperationPending_enabled(c) ==
  /\ Resting
  /\ channelStatus[c] # "closed" /\ c \notin waiting
  /\ channelStatus[c] = "input" => <<c, TRUE>> \notin osReady
  /\ add_pending_fd(c, channelStatus[c] = "input")
  /\ blocking' = c
  /\ UNCHANGED <<keyboard_interrupt_count, flags, current_time, alarm_time, ticking,
                 osReady, control, masks, completed, channelStatus, waiting>>

\* The exception is raised with all interrupts disabled.
OperationPending(c) ==
  /\ Resting
  /\ channelStatus[c] # "closed" /\ c \notin waiting
  /\ channelStatus[c] = "input" => <<c, TRUE>> \notin osReady
  /\ add_pending_fd(c, channelStatus[c] = "input")
  /\ Spending_interruptPS' = FALSE
  /\ Senabled_interruptsS' = {}
  /\ blocking' = c
  /\ UNCHANGED <<keyboard_interrupt_count, Spending_eventsPS, current_time, alarm_time,
                 ticking, osReady, control, Spending_interruptsS, completed, channelStatus, waiting>>

\* wait-for-channel: the thread waits and the scheduler goes on.
WaitForChannel ==
  /\ pc = "run" /\ blocking # NoChan
  /\ waiting' = waiting \cup {blocking}
  /\ blocking' = NoChan
  /\ UNCHANGED <<eventVars, control, masks, completed, channelStatus>>

\* vm-channel-abort on a channel that is not in the queue, at its head, or behind it.
vm_channel_abort(c) ==
  IF c \notin Completed
    THEN /\ remove_fd(c)
         /\ UNCHANGED completed
  ELSE IF c = Spending_channels_headS
    THEN /\ Spending_channels_headS' = next[c]
         /\ Spending_channels_tailS' = IF next[c] = NoChan THEN NoChan ELSE Spending_channels_tailS
         /\ next' = [next EXCEPT ![c] = NoChan]
         /\ UNCHANGED <<queues, poll_time>>
    ELSE LET prev == CHOOSE p \in Completed : next[p] = c
         IN  /\ Spending_channels_tailS' = IF Spending_channels_tailS = c THEN prev ELSE Spending_channels_tailS
             /\ next' = [next EXCEPT ![prev] = next[c], ![c] = NoChan]
             /\ UNCHANGED <<Spending_channels_headS, queues, poll_time>>

\* steal-channel!, called with interrupts disabled: the thread is made ready.
StealChannel(c) ==
  /\ Resting /\ Senabled_interruptsS = {}
  /\ c \in waiting
  /\ waiting' = waiting \ {c}
  /\ vm_channel_abort(c)
  /\ UNCHANGED <<keyboard_interrupt_count, flags, current_time, alarm_time, ticking,
                 osReady, control, masks, channelStatus, blocking>>

-----------------------------------------------------------------------------
VmStep ==
  \/ SetAgain \/ SetLate
  \/ KEYBOARD_INTERRUPT_EVENT \/ NoKeyboardInterrupt \/ PollFds \/ IO_COMPLETION_EVENT
  \/ ALARM_EVENT \/ NO_EVENT \/ ClearEvents \/ Recheck \/ Again
  \/ DeliverOther \/ DeliverIo \/ FollowFalse
  \/ Wait \/ WaitForEvent \/ WaitKeyboard \/ EnterSelect \/ SelectReady \/ SelectInterrupted
  \/ SetAlarm \/ WaitForChannel

Program ==
  \/ \E mask \in {{}, AllInterrupts} : SetEnabled(mask)
  \/ ScheduleInterrupt \/ RootWait
  \/ \E c \in Fds :
       \/ \E status \in Modes : OpenChannel(c, status)
       \/ close_channel(c) \/ OperationDone(c) \/ OperationPending(c) \/ StealChannel(c)

Outside == pc # "crashed" /\ (KeyboardSignal \/ Tick \/ BecomesReady)

\* The process has ended.
Gone == pc = "crashed" /\ UNCHANGED vars

Next == VmStep \/ Poll \/ SelectTimeout \/ Program \/ Outside \/ Gone

Spec == Init /\ [][Next]_vars

\* The VM takes its steps and polls, the scheduler sets alarms, the timer ticks
\* although wait stops and restarts it, and select() does not fail for ever.
Fairness ==
  /\ WF_vars(VmStep)
  /\ SF_vars(Poll)
  /\ SF_vars(ScheduleInterrupt)
  /\ SF_vars(Tick)
  /\ SF_vars(SelectReady)
  /\ SF_vars(PollFds /\ poll_time' # poll_time)

LiveSpec == Spec /\ Fairness

-----------------------------------------------------------------------------
(* Properties.                                                             *)

\* The values of the state; the VM's places.
TypeOK ==
  /\ pc \in {"run", "handle", "key", "poll", "ready", "clear", "recheck", "again",
             "reset", "late", "schedule", "wait", "pending?", "keyboard?", "fds", "select",
             "eintr", "crashed"}
  /\ caller \in {"poll", "wait"} /\ ret \in {"run", "again", "schedule", "wait"}
  /\ Spending_interruptsS \subseteq AllInterrupts
  /\ Senabled_interruptsS \subseteq AllInterrupts
  /\ keyboard_interrupt_count \in Nat
  /\ alarm_time \in Nat \cup {-1} /\ poll_time \in Nat \cup {-1, -2}
  /\ Members(pending) \cup Members(ready) \subseteq Fds

\* The i/o interrupt is noted with no channel in the queue.
NoLink == "io" \in Spending_interruptsS /\ Spending_channels_headS = NoChan

\* handle_interrupt (label L17297 in scheme48vm.c) finds an enabled interrupt, or its
\* search would not end.  For i/o it finds a channel in the queue, or it would follow
\* a link of #f: nothing leaves it without one but the abort of the last completed
\* channel, which does not take the interrupt back.
InterruptsJustified ==
  /\ [](pc = "handle" => Enabled # {})
  /\ [][NoLink' => NoLink \/ \E c \in Completed : StealChannel(c)]_vars

\* While the program runs with interrupts enabled, an event that a handler has
\* noted is seen by the next poll, which tests Spending_interruptPS alone.
NoHiddenEvents ==
  pc = "run" /\ Senabled_interruptsS # {} /\ Spending_eventsPS => Spending_interruptPS

\* A descriptor is on the queue that its status names, once, and on one queue; and
\* it is watched for the direction of the channel that is open for it.
DescriptorsQueued ==
  /\ \A i, j \in DOMAIN (pending \o ready) : (pending \o ready)[i] = (pending \o ready)[j] => i = j
  /\ \A fd \in Fds :
       /\ fdStatus[fd] = "pending" <=> fd \in Members(pending)
       /\ fdStatus[fd] = "ready" <=> fd \in Members(ready)
       /\ fd \in Members(pending \o ready) =>
            /\ channelStatus[fd] # "closed"
            /\ fdInput[fd] <=> channelStatus[fd] = "input"

\* Something is pending and select() is not called for it, but by wait.
PollLost == pending # <<>> /\ poll_time = -1

\* The queues of descriptors are sound, and polling goes on as long as something is
\* pending: what ends it is an alarm scheduled one tick after the poll was due, when
\* the rest of the interval becomes the -1 that stands for no poll, and nothing else.
QueuesAgree ==
  /\ []DescriptorsQueued
  /\ [][PollLost' => PollLost \/ (SetAlarm /\ current_time - poll_time = 1)]_vars

\* The links of the queue of completed channels lead from head to tail, and the
\* interrupt is noted, or being handled, as long as there is a channel in it.
ChannelQueueSound ==
  /\ Spending_channels_headS = NoChan <=> Spending_channels_tailS = NoChan
  /\ Spending_channels_headS # NoChan =>
       /\ Spending_channels_tailS \in Completed
       /\ next[Spending_channels_tailS] = NoChan
       /\ "io" \in Spending_interruptsS
  /\ \A c \in Fds : next[c] # NoChan => c \in Completed

\* A completion belongs to a thread that waits for it or is about to, so that
\* i/o-completion-handler drops none and wakes nobody for an old operation; and
\* whoever waits is somewhere on the way to a completion.
CompletionsAwaited ==
  \A c \in Fds :
    (c \in waiting \/ blocking = c) <=> (c \in Completed \/ c \in Members(pending \o ready))

\* The VM does not sleep in select() while i/o is known to be ready: the flag that
\* a pending operation clears is set again before that.
SleepsIdle == pc = "select" => ready = <<>> /\ Completed = {}

\* If a thread waits for a descriptor that is ready, its channel gets into the queue
\* of completed channels (or is stolen), whatever else happens but the end of the VM
\* for the interrupt of an aborted completion (InterruptsJustified).
IoNoticed ==
  \A c \in Fds :
    (c \in waiting /\ <<c, channelStatus[c] = "input">> \in osReady)
      ~> (c \in Completed \/ c \notin waiting \/ pc = "crashed")
================================================================================

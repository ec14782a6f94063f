------------------------------ MODULE EventQueue ------------------------------
(***************************************************************************)
(* The event queue of the C runtime (c/unix/event.c) and the descriptors   *)
(* it watches (c/unix/fd-io.c, c/unix/socket.c): the counts and times that *)
(* the signal handlers write at any moment, the two queues of descriptors, *)
(* and get_next_event, one step for each stretch of it that no handler can *)
(* be told to have interrupted.                                            *)
(*                                                                         *)
(* The virtual machine is the only caller; its program counter is pc, and  *)
(* a signal handler is an action that may come between any two steps of it. *)
(***************************************************************************)
EXTENDS Integers, Sequences

CONSTANTS
  Fds,            \* file descriptors
  PollInterval,   \* poll_interval (5 in the code)
  TicksPerPoll,   \* TICKS_PER_POLL (50)
  MaxKeys,        \* bound: keyboard interrupts not yet taken
  MaxTime,        \* bound: ticks since the last call of schedule_alarm_interrupt
  MaxOverdue      \* bound: ticks for which a due poll may wait for the VM

ASSUME EventQueueAssumption ==
  /\ PollInterval \in Nat \ {0}
  /\ TicksPerPoll \in Nat \ {0}
  /\ {MaxKeys, MaxTime, MaxOverdue} \subseteq Nat

VARIABLES
  keyboard_interrupt_count,
  Spending_eventsPS,
  Spending_interruptPS,
  current_time, alarm_time, poll_time,
  ticking,              \* the interval timer runs
  fdStatus,             \* status of fds[fd]; "none" when there is no fd_struct
  fdInput,              \* is_input of fds[fd]
  pending, ready,       \* the two queues
  osReady               \* <<fd, is input>> for which i/o would not block

handlerVars == <<keyboard_interrupt_count, current_time>>
flags == <<Spending_eventsPS, Spending_interruptPS>>
times == <<current_time, alarm_time, poll_time>>
queues == <<fdStatus, fdInput, pending, ready>>
eventVars ==
  <<keyboard_interrupt_count, flags, times, ticking, queues, osReady>>

Members(s) == {s[i] : i \in DOMAIN s}

\* The elements of q that are in S, in the order of q.
Filter(q, S) ==
  LET kept[n \in 0 .. Len(q)] ==
        IF n = 0 THEN <<>>
        ELSE IF q[n] \in S THEN Append(kept[n - 1], q[n]) ELSE kept[n - 1]
  IN  kept[Len(q)]

Without(q, fd) == Filter(q, Fds \ {fd})

EventInit ==
  /\ keyboard_interrupt_count = 0
  /\ Spending_eventsPS = FALSE /\ Spending_interruptPS = FALSE
  /\ current_time = 0 /\ alarm_time = -1 /\ poll_time = -1
  /\ ticking = TRUE
  /\ fdStatus = [fd \in Fds |-> "none"]
  /\ fdInput = [fd \in Fds |-> FALSE]
  /\ pending = <<>> /\ ready = <<>>
  /\ osReady = {}

-----------------------------------------------------------------------------
(* The signal handlers.                                                    *)

NOTE_EVENT == Spending_eventsPS' = TRUE /\ Spending_interruptPS' = TRUE

when_keyboard_interrupt ==
  /\ keyboard_interrupt_count < MaxKeys
  /\ keyboard_interrupt_count' = keyboard_interrupt_count + 1
  /\ NOTE_EVENT
  /\ UNCHANGED <<times, ticking, queues, osReady>>

\* The tick of the timer at current_time makes something due.
Due(time) == time >= 0 /\ time <= current_time + 1

\* Bound: a poll is overdue for at most MaxOverdue ticks; there is always a
\* tick left for one that is overdue.
Overdue == IF poll_time >= 0 /\ current_time > poll_time THEN current_time - poll_time ELSE 0
TicksLeft == IF Overdue > 0 THEN Overdue < MaxOverdue ELSE current_time < MaxTime

when_alarm_interrupt ==
  /\ ticking /\ TicksLeft
  /\ current_time' = current_time + 1
  /\ IF Due(alarm_time) \/ Due(poll_time) THEN NOTE_EVENT ELSE UNCHANGED flags
  /\ UNCHANGED <<keyboard_interrupt_count, alarm_time, poll_time, ticking, queues, osReady>>

-----------------------------------------------------------------------------
(* The queues of descriptors.  An operator here says what a C function     *)
(* does to queues and poll_time.                                           *)

\* A descriptor that has an fd_struct keeps its is_input.
add_pending_fd(fd, is_input) ==
  /\ fdInput' = [fdInput EXCEPT ![fd] = IF fdStatus[fd] = "none" THEN is_input ELSE @]
  /\ fdStatus' = [fdStatus EXCEPT ![fd] = "pending"]
  /\ pending' = IF fdStatus[fd] = "pending" THEN pending ELSE Append(pending, fd)
  /\ ready' = Without(ready, fd)
  /\ poll_time' = IF fdStatus[fd] # "pending" /\ poll_time = -1
                  THEN current_time + PollInterval ELSE poll_time

\* Mutant: polling stops with any removal.
remove_fd_stops_polling(fd) ==
  /\ fdStatus' = [fdStatus EXCEPT ![fd] = "none"]
  /\ pending' = Without(pending, fd)
  /\ ready' = Without(ready, fd)
  /\ poll_time' = IF fdStatus[fd] = "pending" THEN -1 ELSE poll_time
  /\ UNCHANGED fdInput

remove_fd(fd) ==
  /\ fdStatus' = [fdStatus EXCEPT ![fd] = "none"]
  /\ pending' = Without(pending, fd)
  /\ ready' = Without(ready, fd)
  /\ poll_time' = IF fdStatus[fd] = "pending" /\ pending' = <<>> THEN -1 ELSE poll_time
  /\ UNCHANGED fdInput

\* What select() finds among the pending descriptors, and moving it.
Selected(fd) == <<fd, fdInput[fd]>> \in osReady
SelectedFds == {fd \in Fds : Selected(fd)}

MoveSelected ==
  /\ fdStatus' = [fd \in Fds |-> IF fd \in Members(pending) /\ Selected(fd)
                                 THEN "ready" ELSE fdStatus[fd]]
  /\ ready' = ready \o Filter(pending, SelectedFds)
  /\ pending' = Filter(pending, Fds \ SelectedFds)
  /\ UNCHANGED fdInput

PollTimeAfterSelect ==
  IF (\E fd \in Members(pending) : Selected(fd)) /\ pending' = <<>> THEN -1 ELSE poll_time

-----------------------------------------------------------------------------
(* schedule_alarm_interrupt                                                *)

\* The rest of the poll interval is kept when the clock is reset.  Every time
\* before -1 acts alike, and -2 stands for them.
schedule_alarm_interrupt(delta) ==
  /\ poll_time' = IF poll_time = -1 THEN -1
                  ELSE IF poll_time - current_time >= -1 THEN poll_time - current_time ELSE -2
  /\ current_time' = 0
  /\ alarm_time' = delta \div TicksPerPoll
  /\ IF delta = 0 THEN NOTE_EVENT ELSE UNCHANGED flags
  /\ UNCHANGED <<keyboard_interrupt_count, ticking, queues, osReady>>

-----------------------------------------------------------------------------
(* get_next_event, in the order of its tests.                              *)

KeysWaiting == keyboard_interrupt_count > 0

TakeKeyboard ==
  /\ keyboard_interrupt_count' = keyboard_interrupt_count - 1
  /\ UNCHANGED <<flags, times, ticking, queues, osReady>>

PollIsDue == poll_time # -1 /\ current_time >= poll_time

\* Mutant: the next poll is not set up.
PollOnce ==
  /\ PollIsDue
  /\ MoveSelected
  /\ poll_time' = -1
  /\ UNCHANGED <<keyboard_interrupt_count, flags, current_time, alarm_time, ticking, osReady>>

\* queue_ready_ports succeeded; poll_time is set even when nothing is pending now.
PollPorts ==
  /\ PollIsDue
  /\ MoveSelected
  /\ poll_time' = current_time + PollInterval
  /\ UNCHANGED <<keyboard_interrupt_count, flags, current_time, alarm_time, ticking, osReady>>

next_ready_port ==
  /\ ready' = Tail(ready)
  /\ fdStatus' = [fdStatus EXCEPT ![Head(ready)] = "quiescent"]
  /\ UNCHANGED <<fdInput, pending>>

AlarmIsDue == alarm_time # -1 /\ current_time >= alarm_time

NothingDue == ~KeysWaiting /\ ~AlarmIsDue /\ ~PollIsDue

-----------------------------------------------------------------------------
(* wait_for_event                                                          *)

\* select() found descriptors, or gave up: the timer runs again.
StopWaiting ==
  /\ MoveSelected
  /\ poll_time' = PollTimeAfterSelect
  /\ IF ready' # <<>> THEN NOTE_EVENT ELSE UNCHANGED flags
  /\ ticking' = TRUE
  /\ UNCHANGED <<keyboard_interrupt_count, current_time, alarm_time, osReady>>

\* EINTR: the queues are left alone.
WaitInterrupted ==
  /\ IF ready # <<>> THEN NOTE_EVENT ELSE UNCHANGED flags
  /\ ticking' = TRUE
  /\ UNCHANGED <<keyboard_interrupt_count, times, queues, osReady>>
================================================================================

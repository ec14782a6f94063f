# Kali Scheme in TLA+

Kali Scheme is Scheme 48 with *address spaces*: several Scheme processes that
send each other messages, call each other's procedures and hold *proxies* for
each other's objects. Each process is a virtual machine written in Pre-Scheme
and shipped as C (`src/c/scheme48vm.c`, `src/c/scheme48heap.c`), a small C
runtime, and Scheme code. Three of its layers are modelled: the distributed
protocols (`src/scheme/kali`), the interrupts and events of one process, and the
machine itself: its heap, stack and arithmetic. Where this text quotes a place
without a directory, it is in `src/scheme/kali`, `src/scheme/vm` or `src/c/unix`.

Contents: the system, the modules, the runs, fairness, the proofs, what the
models show about the code, what is not modelled, the plan.

## The system

### Parts, their state and their operations

| part | source | state | operations | module |
|---|---|---|---|---|
| proxy reference counts | `kali/proxy-count.scm`, half of `vm/transmit.scm` | per address space a vector of proxy-datas: owner, uid, count, waiters, weak pointer to the proxy | debit, wait for counts, ask the owner, add, return, free a uid | `ProxyCounts` |
| connections | `kali/connect.scm`, `kali/channel-hacks.scm` | for each other address space a lock, two channels, a placeholder for rejected clients | server, `make-connection!`, `finish-connection!`, `retry-connection!`, `send-message`, `send-admin-message` | `Connections` |
| remote calls | `kali/message.scm` | `*apply-waiters*`, `*free-apply-ids*`, `*next-apply-id*` | `remote-apply`, `remote-return`, the dispatcher | `RemoteApply` |
| encoding | `vm/transmit.scm` | decode and proxy vector with a freelist through them, uid slots of objects | `encode`, extension of the vectors, roll-back | `DecodeVectors` |
| uid requests | `kali/uid-request.scm` | missing objects, pending-requests, pending-messages, closets | ask for unknown uids, suspend messages | none |
| interrupts | `vm/interrupt.scm`, `vm/vmio.scm`, `vm/prim-io.scm` | pending and enabled interrupts, the flag that polls test, the queue of completed channels | poll, handle, enable, schedule, abort | `Interrupts` |
| event queue | `c/unix/event.c`, `c/unix/fd-io.c` | keyboard count, clock, alarm and poll times, queues of pending and ready descriptors, the event flag | signal handlers, `get_next_event`, `wait_for_event`, `schedule_alarm_interrupt` | `EventQueue` |
| channel i/o, waiting | `rts/channel.scm`, `rts/root-scheduler.scm` | the thread that waits on a channel | wait, completion, steal; `root-wait` | `Interrupts` |
| heap and collector | `vm/heap.scm`, `vm/gc.scm` | two semispaces, weak-pointer blocks, finalizers | allocate, collect, `find-all` | `Collector`, `Heap` |
| images | `vm/heap.scm`, `c/main.c` | the file | write, check, read and relocate | `Images`, `Heap` |
| stack | `vm/stack.scm`, `vm/env.scm`, `vm/call.scm`, `vm/interp.scm` | arguments, environments and continuations on the stack and in the heap | push, call, return, move to the heap and back, exceptions | `StackMachine` |
| arithmetic | `vm/arith.scm`, `vm/prim.scm` | none | fixnums, characters, predicates | `Fixnums` |
| threads and schedulers | `rts/thread.scm`, `rts/scheduler.scm` | tree of threads with events and time | run, block, make-ready | fairness only |

The rest - the byte-code compiler and its module system, the command processor,
the runtime library, the Pre-Scheme compiler, the Emacs support - is sequential,
a tool, or a user interface; `PROJECT.json` lists each with its reason.

### How they interact

A thread that sends a message *encodes* it at once, which moves reference counts
from the local proxy-datas into the message and gives uids to symbols, templates,
locations and proxies that had none. Then it gets the lock of the other address
space, makes a connection if there is none, waits for more counts if a proxy ran
out of them, and writes. At the other end the reader *decodes* the message,
which adds the counts, and hands it to the dispatcher of that connection.
Dispatchers must not block, so they use `send-admin-message`, which spawns a
thread when it cannot write at once. The garbage collector clears the weak
pointers from proxy-datas to proxies; after a collection `gc-proxies` returns the
counts of proxies that are gone, and the owner frees uids whose counts are back.

All threads of a process run on one virtual machine. It polls one flag,
`Spending_interruptPS`, which signal handlers of the C runtime set at any moment
together with `Spending_eventsPS`; when a poll finds it, the machine takes events
from the C runtime one by one, turns them into pending interrupts, and calls the
highest enabled one. Reads and writes that would block raise an exception with
interrupts disabled, the thread registers with its channel, and an i/o-completion
interrupt makes it ready. When no thread can run, `root-wait` calls `wait`, which
sleeps in `select()` unless something is pending. An interrupt pushes a
continuation like a call; calls, exceptions and interrupts may move what is on
the stack to the heap; allocation may collect, which moves all objects and traces
the stack; the collector closes channels and moves finalizers to a list that
the post-gc interrupt hands out.

### What is hard, and what makes each part correct

* *Counts.* A thread reads that a proxy ran out of counts, and registers as
  waiter after it has waited for a lock and possibly a connection; counts arrive
  in between. Correct means: a uid is not freed while anything abroad refers to
  it, no count is made up, every blocked sender gets on, no dispatcher dies.
* *Connections.* Both ends may connect at once; the superior address space wins.
  Correct means: every message is written once and in one piece, locks come
  back, both ends use the same connection, no deadlock.
* *Remote calls.* The answer may come before the caller waits, while it waits, or
  in any order among callers; ids are reused. Correct means: a call returns its
  own values, no wakeup is lost.
* *Encoding.* A failure in the middle must leave the tables sound. Correct means:
  a uid means one thing, what was sent can be looked up.
* *Events.* Two flags are written by handlers and by the machine with no lock
  (`block_interrupts` is empty): between any two accesses a signal may come.
  Descriptors move between two queues and a third one in the machine. Correct
  means: no event is forgotten, no handler runs without a reason, nobody sleeps
  on work, i/o that is ready is noticed.
* *Stack.* Environments and continuations are shared between stack and heap, and
  every operation has its own rule when to copy what. Correct means: programs
  cannot tell, and the space that one check per procedure leaves is enough.
* *Heap.* The same collector is used to collect, to find all objects of a type
  and, undone afterwards, to write an image. Correct means: exactly what can be
  reached stays, shared as before; finalizers run once for what is dead; an image
  restarts as what was dumped or is refused.
* *Numbers.* C words wrap, and the tag moves the boundary. Correct means: a
  result is exact or the library is called.

`PROJECT.json` lists these as hazards, each with the line of the code where it
bites and the properties that would notice.

## The modules

### `ProxyCounts`, `Lists`, `ProxyCountsProofs`

The life of the proxies of one owner. `slot[a][p]` is the proxy vector of `a`:
the number of a proxy-data, whose fields are in `heap` (a proxy-data outlives its
slot when a blocked sender still holds it). The field waiters of the code is
`waiters` with `asked`: `()` is an empty list that has not asked, `#t` is an empty
list that has, anything else is a list. `wire` is a bag of encoded messages,
unordered, because a thread can be preempted between encoding and writing and
because `send-admin-message` may spawn. `out[t]` is a thread in
`wait-for-proxy-counts`; a thread in stage "encoded" has its losers and has not
registered yet, which is the window named above, and one in stage "ready" has been
woken and has not written its message. `disp[a][b]` is the dispatcher with the
message it is working on: "adjust" while there are proxies that had no counts left
(`low`, with the counts that came), "return" while there are some with too many
(`high`), then "process". `live[a]` is what the program holds.

A count is a descriptor: a number and a tag, in the proxy-data (`count`, `tag`) and in
a message (an item is a proxy, a number and a tag). The tag matters at one
place. For a proxy-data that has none left `decode` puts the counts that came on the
list of bad proxies as a machine integer, without `enter-fixnum`
(`transmit.scm:678`). Read as a descriptor, its two lowest bits are the tag and the
rest the number (`TagOf`, `NumberOf`): Scheme sees a quarter of the counts when they
are a multiple of 4, and no fixnum otherwise. `ServeWaiters` stores what Scheme sees;
`=` and `+` on anything but a fixnum end the dispatcher (in `ReleaseWaiters`,
`ReturnExcess`, `ProcessReturn`); `extract-fixnum` drops any tag, so that the virtual
machine computes with the number. What a collection or an encoder would do with a
count that looks like the header of a byte vector, and an encoder with one that looks
like a pointer, is out of bounds (`LooksLikeBytes` in `Collect` and `GcProxies`). A
collection leaves one that looks like a pointer alone, as it is no address of the heap.

| action | code |
|---|---|
| `SendMessage` | `send-message`: `really-encode`, with or without a second attempt, up to the test for losers |
| `MakeProxyRequests` | `wait-for-proxy-counts` and `make-proxy-requests`; interrupts are disabled, so it is one step |
| `Decode` | the reader: `decode`, `lookup-proxy`, `add-to-proxy-count!`, `rejuvenate` |
| `ReleaseWaiters` | the first half of `adjust-proxy-counts!`, one step with interrupts inhibited: `check-proxy-waiters` for every low proxy, then the threads are woken; dies where the code raises an error |
| `ReturnExcess` | the second half: `make-return-messages` and the sending of the returns; dies at the second return |
| `SendReady` | a woken thread goes on in `really-send-message` |
| `ProcessRun`, `ProcessRequest`, `ProcessCounts`, `ProcessReturn` | the cases of `process-message` that concern counts |
| `Drop`, `Collect`, `GcProxies` | the program, the collector's treatment of weak pointers, `gc-proxies` |

The loops over lists are the code's `fold`, which `Lists` defines as a recursive
function; `Lists` also has the sum of a function as the cardinality of its units
(`Total`), so that both TLC and the provers can work with them. A freed proxy-data
is reused in an order that is left open (`FreshCell`).

### `Connections`, `MessageStreams`, `ConnectionsProofs`

`Connections` has, per pair of address spaces, the lock (owner and queue of
`rts/lock.scm`), the out-channel as the number of a connection, and the
placeholder; per thread a program counter, whose values are the points in
`connect.scm` where a thread can be preempted or block. Senders call
`send-message`, admins call `send-admin-message`, and each address space has the
one thread of `connection-server`. `ReleaseLock` hands the lock to the first in
the queue and does not look at who calls it, like the code. A message is written
in two steps, `BeginWrite` and `EndWrite`, because `channel-write` blocks when the
operating system takes only a part. `MessageStreams` is the promise: each message
is written once, one at a time per direction, and all of them are.
`Connections` maps to it with `streamState`, computed from the program counters.

### `RemoteApply`, `RemoteCalls`, `RemoteApplyProofs`

`RemoteApply` is the caller's table of `message.scm` and the two ends of a call:
`ReuseId` and `NewId` are the two branches of `next-remote-apply-id`,
`SendApply` the sending, `WaitForRemoteReturn` and `ReturnValues` the two branches
of `wait-for-remote-return`, `Apply` the thread that the other address space
spawns, `RemoteReturn` the dispatcher that gets the results. A woken thread goes
back to "wait" and looks at the table again, as the code does. `RemoteCalls` is
the promise: a call returns, and returns its own values.

### `DecodeVectors`, `DecodeVectorsProofs`

The uids of one address space: both vectors with their freelists, the uid
slot of every thing, and what `encode` does to them. A whole encoding is one step,
since it is one instruction of the virtual machine; it ends in success
(`Encode`) or in one of the failures (`LoseSpace`, `CannotExtend`,
`CannotExtendProxies`, `CannotReport`), after which the same message is encoded
once more. `Deallocate` is the owner's `deallocate-proxy-uid`. The recursive
function in `GetUids` goes through the things of a message and keeps the list the
code calls `*new-id-hotel*`, here one list per kind of thing. The initial vectors are
those of `get-address-space`.

### `EventQueue`, `Interrupts` and their proofs

`EventQueue` is `event.c`: variables with the names of the C ones, the two
signal handlers, and one operator for each stretch of `get_next_event` and
`wait_for_event` that no handler can be told to have interrupted.
`Interrupts` EXTENDS it with the virtual machine, which is one process with a
program counter `pc`; handlers and the operating system (`KeyboardSignal`, `Tick`,
`BecomesReady`) act between any two of its steps. A descriptor that is ready is
in `osReady`; the threads of `rts` are the set `waiting`, and `blocking` is the
one whose operation has just raised pending-channel-i/o.

| `pc` | where the machine is | actions |
|---|---|---|
| run | between two instructions | `Poll`, and `Program`: `SetEnabled`, `ScheduleInterrupt`, `RootWait`, `OpenChannel`, `close_channel`, `OperationDone`, `OperationPending`, `StealChannel`; `WaitForChannel` ends an operation |
| key, poll, ready, clear, recheck, again | `check_events` and `get_next_event`, test by test | `KEYBOARD_INTERRUPT_EVENT`, `NoKeyboardInterrupt`, `PollFds`, `IO_COMPLETION_EVENT`, `ALARM_EVENT`, `NO_EVENT`, `ClearEvents`, `Recheck`, `Again` |
| reset, late | between the accesses to the two flags in `check_for_enabled_interrupt`: stored and not yet loaded, or (where the C compiler exchanges them) loaded and not yet stored | `SetAgain`, `SetLate` |
| handle | `handle_interrupt` and the Scheme handler as far as it touches channels | `DeliverOther`, `DeliverIo`; `FollowFalse` with no channel in the queue |
| schedule | `schedule_alarm_interrupt` | `SetAlarm` |
| wait, pending?, keyboard?, fds, select, eintr | `wait` and `wait_for_event`; "fds" is before the call of `select()`, where a signal is not noticed, and "select" in it | `Wait`, `WaitForEvent`, `WaitKeyboard`, `EnterSelect`, `SelectReady`, `SelectTimeout`, `SelectInterrupted` |
| crashed | the process has followed a link of `#f` and ended | `Gone` (nothing changes) |

One constant is for what the code leaves open, `InOrder`: the compiler keeps the
order of the accesses to the flags. Another is a bound, `LatePolls`: an alarm may be
scheduled when the poll is exactly one tick overdue; only `events_live` goes without.
What happens with the other values is told below. Threads are taken from any channel
that is busy, completed or not (`StealChannel`).

### `Collector`, `Images`, `Heap`

A heap is a record: `mem` maps addresses to cells, and a cell is a header, a
pointer to an object, a link between blocks, or a constant. `Collector`
is `gc.scm`: copying with broken hearts, the scan that leaves weak pointers in
blocks of their own, `clean_weak_pointers`, the finalizer list. `Images` writes and
reads a file, a sequence of items; writing may stop after any of them, and a file
may come from a machine of another byte order. `Heap` is the machine as their
user:

| action | code |
|---|---|
| `ConsPair`, `MakeString`, `MakeWeakPointer`, `Closure` | instructions that allocate, with the test for space and the collection they start |
| `Push`, `Fetch`, `SetCdr` | the instructions that build and change structure |
| `Collect` | `collect`; close-untraced-channels, weak pointers, finalizers |
| `AddFinalizer`, `TakeFinalizers` | `add-finalizer!`; what the post-gc interrupt hands over |
| `OpenChannel`, `CloseChannel` | the table of channels and the channel objects |
| `FindAll` | `find-all`, by a walk over the heap, with a collection and second attempt |
| `WriteImage`, `Restart` | `write-image`, with the collection undone; a new process that reads the file, or refuses it |

`IdealCollection` says what a collection should do without copying: it computes
from the graph before it what can be reached, and `GraphFrom` compares the
two up to the addresses.

### `StackMachine`, `Continuations`, `StackMachineProofs`

`Continuations` is the machine as compiled code sees it: arguments are a sequence,
an environment is a chain of frames that everyone who has it shares, a
continuation a value. `StackMachine` has the stack. It is a sequence that grows at
its end; a positive pointer is a place on the stack, a negative one a
vector in the heap. The operators have the names of the procedures in `stack.scm`,
`env.scm` and `call.scm`; an instruction is one action. `m` is the machine, `closed`
and `caught` the closure or continuation that a program keeps.

| action | code |
|---|---|
| `Push`, `Local`, `SetLocal` | the instructions of these names |
| `MakeEnv`, `Closure` | `make-env`; `preserve-current-env` |
| `MakeCont`, `Return`, `ReturnValues` | continuations of three kinds (plain, ignore-values, consumer of `call-with-values`), single and multiple returns, with the copying of a continuation from the heap |
| `Call`, `Apply` | `perform-application` for each protocol, with the test of the stack and of interrupts |
| `Exception` | `raise-exception` |
| `CurrentCont`, `WithContinuation` | capture and use of a continuation |

`interrupted` is whether the poll at the start of a procedure finds an interrupt.
`m.used` and `m.room` are the compiler's account of the stack
(`bcomp/stack-check.scm`), which is what `StackSuffices` relies on. Cells of dead
environments are forgotten so that equal machines are equal states; `TailCalls`
puts what earlier tail calls leave behind below the first call. `StackMachine`
implements `Continuations` through `ViewOf`. A chain of continuations or environments
is a recursive function of the place where it begins (`Descent`, `env_back`); a
chain of environments is copied to the heap at once (`copy_envs`), where the code
copies one after the other and nothing can come in between. The number of a new
environment is any that is not in use.

### `Fixnums`

Descriptors on cells of `BitsPerCell` bits, with `Long` for the C type; each
instruction of `arith.scm` and `prim.scm` on numbers, characters and the bits of
numbers, with every pair of operands, and the exception it raises when it gives
up. The reference is `Means`, what an instruction means on integers. C's operations on
the bits of two words are done bit by bit (`OnBits`), with the truth table of the
operation; their reference is that a bit of the result is set if and only if both, one
or exactly one of the operands have it set.

## The runs

Twelve runs, one for each question; each exhausts its instance.

| run | question | instance |
|---|---|---|
| `pc_safety` | never a uid freed too early, never a count made up, with all races and retries on | two address spaces, two threads blocked at once, three messages from the owner and two from the other side, 45 counts, debits of 8, counts limited to 16, all heaps collected, encodings with and without a second attempt |
| `pc_one_sender` | is the waiting protocol sound when one thread at a time is blocked and only answers bring counts? | one blocked thread, 120 counts, debits of 8, the owner sends the proxy once, a proxy up to three times in a message so that an answer may bring too little, only the owner collects |
| `pc_reclaim` | are proxies freed, and not before their time, when nobody runs out of counts? | three address spaces, debits of 8, all heaps collected |
| `conn_steady` | are messages kept apart on connections that are up, and does the code implement `MessageStreams`? | two address spaces, three senders, two dispatchers |
| `conn_superior` | does the connection protocol finish? | two senders at the superior side, one at the inferior one, no connection |
| `apply` | are ids, table and wakeups right; does the code implement `RemoteCalls`? is the proof's invariant one? | three threads, three calls each, a table that grows by one |
| `uids` | are uids distinct and resolvable whatever fails? | two objects, three proxies, two things in a message, uids up to 4 |
| `events` | is no event lost or answered twice, wherever signals fall? | two descriptors, each for input or output, channels taken from their threads at any time, one keyboard interrupt at a time, two ticks, alarms at any time |
| `events_live` | is i/o noticed in the end? | two descriptors for input, alarms, both orders of the flags |
| `heap` | does the collector keep exactly what it should, for all its users? | semispaces of 12 cells, blocks of 4 for weak pointers, seven instructions, one channel |
| `arith` | is every result exact? | cells of 8 bits: all pairs of operands of all types |
| `machine` | can a program tell that there is a stack, and does the reserve suffice? | seven procedures with all protocols, the smallest legal stack, seven instructions |

Why the bounds suffice. In the code `proxy-base-count` is 2^26, `max-proxy-count`
131072 and `max-proxy-debit` 4096. What matters is their order (a debit is at most half
of the maximum, the owner has more than both), which the small numbers keep, that a
proxy-data goes below one, above the maximum and back in a few messages, and the
residues modulo 4. A debit of 8 is a multiple of 4 as 4096 is, so that in
`pc_one_sender` all counts that come from the owner are such multiples, as they are in
the code while the owner has 8192. Other residues come from an owner that has given
nearly everything away, which halves what is left, and from others, which
halve what they have. In `pc_safety` the owner starts with an odd number near its end,
so that counts of all residues arrive. The owner does not send
when it has none left (`e.losers = <<>>`); a proxy-data is reused only when nothing refers to it
(`NCells`). Three senders are the fewest with which a lock is held, waited for
and released to the wrong thread; three callers the fewest with a free list of
two and a busy id. In `apply` the table grows by one so that it grows at every new
id. `MaxUid` 4 lets each vector be extended twice, and both at once. The numbers
of messages, attempts to connect (`MaxConn`), calls and uids are bounds on the
length of a run.

Two descriptors are enough for a queue with a head and a tail, and for one to be
removed from the middle of an interaction of the other. Ticks are counted from the
last alarm, which sets the clock back, so that `MaxTime` and `MaxOverdue` bound how
late a poll and an alarm are; times before -1 act alike, and one number stands for
them. Delays are 0 and the shortest that is an alarm of the future. A semispace of
12 cells holds three pairs, and every way of running out of it occurs: before an
object, in a weak block, while an image is written, in a second attempt. Words of
8 bits have 64 fixnums, and each boundary of the code is a power of two below the
width. On the stack of `machine` a procedure with the larger demand finds no room
as soon as anything is on it, so that arguments, environments and continuations
are moved at every call that can move them; seven instructions make two
continuations with arguments and nested environments and return through both.

`Alike` and `Symmetry` permute interchangeable objects, proxies and descriptors in
`uids` and `events`, which have no liveness property. The history variables are
`dumped` in `Heap` and `view` in `StackMachine`; the second is a function of the
other variables.

Deadlock is checked in `events`, `events_live`, `heap` and `arith`; a process that has
ended, in the first two, stutters with `Gone`. It is not in the
others: a system that has sent its messages, or whose bound on messages, uids or
instructions is reached, stops, and the stops that are not wanted are caught by
the liveness properties.

`TypeOK` of `ProxyCounts`, `Connections`, `DecodeVectors` and `Interrupts` describes
the values of their state. It holds in the instances above and is not among
the properties of the runs; `RemoteApply`'s is part of `IInv`, and that of
`ProxyCounts` is proved.

## Fairness

Kali's scheduler is round-robin with a time slice (`rts/scheduler.scm`), so a thread
that can run does run: weak fairness for each thread, each dispatcher, and for
the thread that runs the post-gc procedures. Programs allocate, so a collection
happens again and again: weak fairness for `Collect`. The locks hand over in
queue order, so weak fairness of the threads is enough for them; `MessageStreams`
asks for strong fairness of `Begin` and gets it from this order. Nothing is
assumed about what programs do: `SendMessage` and `Drop` need never happen.
Connections do not lose messages (they are TCP streams).

`LiveSpec` of `Interrupts`: the machine takes its steps (weak fairness of `VmStep`)
and polls again and again, because every procedure does (strong fairness of
`Poll`, which handlers switch off in between). Strong fairness of
`ScheduleInterrupt` is the scheduler's time slice, that of `Tick` the interval
timer, which `wait` stops and starts again. Strong fairness of `SelectReady`, and of
`PollFds` with a poll that succeeds, says that `select()` does not fail for ever
with EINTR. `IoNoticed` excepts a process that has ended (`FollowFalse`), and alarms
scheduled one tick after a poll was due, since the code then stops polling.

## The proofs

`RemoteApplyProofs` proves for any set of callers, any growth of the table and any
number of calls (assumption `RemoteApplyAssumption`: the callers do not include
`NoCaller`, the growth is a positive number, the bound on calls a number):

* `Invariance`: `Spec => []IInv`;
* `TypeCorrect`, `IdsSafe`, `OwnResultReturned`, `NoLostWakeup`, `ResultsExpected`:
  what follows from it;
* `Refinement`: `Spec => ImplementsRemoteCalls`.

The properties are not inductive. That a result finds its caller depends on what
the table says, which depends on no other call having the id, which depends on
the free list; so `IInv` joins them: the free list has no id twice and only ids
that were given out (`FreeListSound`), a busy thread has an id that was given out and
that neither another busy thread nor the free list has, every message on the way
belongs to the call its thread is making (`MessagesCurrent`), and the entry of the
table for each busy thread is exactly what its program counter calls for
(`TableSound`: "pending" or its values while it looks, itself while it
blocks, and a message is on its way unless the values are there). There is a lemma
for each action, and `apply` checks `IInv` with TLC. `EntryKept` says which
entries an update leaves alone; `BusyIds` that two busy threads use two entries.
In the refinement `BeginIsCall` and `ReturnValuesIsReturn` treat the two
actions that are visible, `SameBusyStutters` the others.

The first part of `InterruptsProofs` proves, for any descriptors and any values of the other
constants, that from `InOrder` it follows that `Spec => []NoHiddenEvents`
(`EventsVisible`), and that `handle_interrupt` is entered only when an interrupt
is enabled, so that its search ends (`HandlerFound`). The inductive invariant has
five parts: the early load does not happen (`NeverLate`; this is what
`InOrder` gives); between the two stores the machine knows where to go on
(`ReturnKnown`); an event that is noted shows in `Spending_interruptPS` at every
place but "reset", the moment between the two stores (`EventsShown`, the property
at every place and not only at "run"); `Spending_interruptPS` is never set
without a reason except while `check_events` is at work (`FlagJustified`); and
`SearchEnds`. `QuietStep` and `NotingStep` are for steps that leave the flags alone
or set them, as handlers do; `CheckStep` shows that
`check_for_enabled_interrupt` establishes the invariant from any state, and the
steps that call it rest on that.

`ConnectionsProofs` is about connections that are up (`Connected`), for any
address spaces, senders and dispatchers:

* `SteadyInvariance`: `Spec => []IInv`;
* `MessagesKeptApart`: `Spec => []MessagesIntact`; `LocksComeBack`:
  `Spec => []LocksReturned`;
* `StreamsSafe`: every step is a step of `MessageStreams` or none of its, the safety
  half of `ImplementsStreams`.

That two writers are one thread follows from the lock having one owner only if the
owner is known to be where it uses the lock, and `release-lock` keeps that only if
the first in the queue is blocked and goes on to use the lock. So `IInv` says: a
client at a place in `Holding` is the owner of its lock, the owner is at such a
place, the threads in the queue are blocked and there once, a blocked thread is in
the queue and looks at the channel next, a queue that is not empty has an owner
(`ClientSound`, `LockSound`), and the connection servers have nothing to do
(`ServersIdle`). `LocalStep` reduces the whole to one lock and its users;
`MoveStep`, `TakeStep`, `WaitStep`, `FreeStep` and `HandStep` are the ways in which
an action can change them, and the actions follow from these. While
connections are being made `MessagesIntact` is false (see below), so the
assumption is needed.

The second part of `InterruptsProofs` is about the queues of the C runtime and of the
machine, for any descriptors:

* `ChannelQueueKept`: `Spec => []ChannelQueueSound`; `CompletionsMatched`:
  `Spec => []CompletionsAwaited`; `DescriptorQueues`: `Spec => QueuesAgree`. They
  have no premise: a channel may be taken from its thread at any moment, also
  with its i/o completed, and an alarm may come at any tick;
* `HandlingJustified`: `Spec => InterruptsJustified`; `SleepIsIdle`:
  `Spec => []SleepsIdle`, both from `InOrder`.

`InOrder` is a premise where the flags matter, since a search for an interrupt or a
sleep begins when `check_for_enabled_interrupt` has seen them; TLC refutes
`NoHiddenEvents` without it.

It begins with what `findrm`, `rmque`, `addque` and the loop of `queue_ready_ports` do
to a queue: `FilterFacts` says what is left of a queue, and that its order and the
absence of repetitions stay, and `AddPending`, `RemoveFd`, `MovingFds` and `NextReady`
are the operations. The queue of completed channels is the least set that holds its
head and is closed under the links (`Chain`), so that a lemma about it needs no
recursion: `ChainEnqueue`, `ChainDequeue`, and `ChainUnlink` for a channel in its middle
or at its end. What is done to the links is in `DequeueLinks` and `UnlinkLinks`.

The invariant of all the queues, `QInv`, joins the descriptors with the channels,
because a step like the abort of a channel looks for it in one of three places: the
two queues of descriptors have each descriptor once and agree with the statuses
(`QueuesSound`, `FdsKnown`); the chain ends at its tail, nothing leads to its head, and
no other channel has a link (`LinksSound`); the i/o interrupt is noted while the chain is
not empty (`IoNoted`); and a channel is watched or completed, never both, exactly if a
thread waits for it or is about to (`Awaited`), with interrupts off in the second case
(`BlockedMasked`), so that no handler can look for the thread too early. `IoNoted` is not
an equivalence: an abort makes it one-sided, and `LinkStep` shows that it is the only
step to do so. `SInv` is about the flags on the way to `select()`: an event that was
noted is looked at, and then no descriptor is ready and no interrupt is noted.
The polls need no invariant but the types of the times: `PollNext` says of each step
that it loses no poll (`PollKept`), except `SetAlarm` one tick late.

`DecodeVectorsProofs` proves, for any objects and proxies, messages of any length and
vectors of any length (assumption `DecodeVectorsAssumption`: objects, proxies,
numbers and the two special values are different from each other):

* `NoUidTwice`: `Spec => []UidsDistinct`; `SentObjectsFound`:
  `Spec => []SentObjectsResolve`; `FreeListsKept`: `Spec => []FreeListSound`;
* `SentUidsKept`: `Spec => SentUidsStable`, an action property.

The invariant `DInv` adds to these: a link never leads to slot 0, and at most one
link leads past the end of a vector (`SlotsSound`); a thing is in the slot of its
uid, or it is a proxy that kept its uid when there was no room for it, and then its
slot is never filled or is behind the link that leads past the end
(`SlotSound`). That exception is why `UidsDistinct` is not obvious: `drop-new-ids!`
leaves proxies their uids, and what protects them is that the freelist index is not
taken back either. Within a step the things in the hotel have the last uids in
order (`HotelSound`). `FreeSlotGiven` and `LateSlotGiven` are the branches of
`real-next-id`, `HotelMovedIn` is `setup-new-decode-vector!`, `IdsDropped` is
`drop-new-ids!`, and `UidsGiven` goes through a message by induction.

`ProxyCountsProofs` proves, for any address spaces, proxies and blocked senders,
messages of any length and any order of delivery (assumption
`ProxyCountsAssumption`: these sets are finite, there are proxy-datas for all
proxies, the limits are positive and a debit is at most half of the maximum, as
`max-proxy-debit` and `max-proxy-count` are):

* `TypeCorrect`: `Spec => []TypeOK`; `InvariantHolds`: `Spec => []IInv`;
* `FreedWhenAlone`: `Spec => []NoPrematureFree`;
* `CountsConserved`: `Spec => []NoInventedCounts`.

The argument is a potential. The counts of a proxy are spread over the vectors, the
wire, the messages of blocked senders and the dispatchers (`Counts`). Their sum can
exceed what the owner made, since the encoder puts a count into a message even
when the proxy-data has one or none left; but then the data becomes a loser of the
message, and its sender has to wait for one count. So the counts are at most
`BaseCount` and the counts that are owed (`Owed`: losers that are not registered
yet, and places on lists of waiters). That is not enough for `NoPrematureFree`: a
reference that has no count does not show in the sum. `CountsSound` adds that the
bound is strict unless every proxy-data has a positive count, no sender has a
loser and no message asks for counts or returns none (`Clean`). The code keeps
this, though `check-proxy-waiters` writes the count of a proxy-data instead of
adding to it, and a quarter of what came at that: it loses counts, and never makes
any (`Lessens`: of m counts that come for a proxy-data that has none left, at most
m - 1 go to waiters or stay). The tags do not matter to the sums: an operation on
a count that is no fixnum drops the tag or ends the dispatcher, and one that has
ended holds no counts (`DeadIs`). When the owner has all
`BaseCount` counts, what is owed is in the messages of blocked senders
(`OwedIsCarried`), so nothing is left for any other reference, counted or not
(`AllAtHome`). `FreeSound` says the same of a proxy that was freed.

The rest of `IInv` is what the sums rest on: a slot leads to the data of its
proxy and no data is in two slots (`SlotsSound`), what a program or a decoded message
refers to is not collected (`HeldSound`), messages go the right way with at least one
count per proxy (`MessageSound`, `DispatchSound`), a blocked sender waits exactly for
its losers (`ThreadSound`), and a waiter is a blocked sender that holds the data
(`WaitersSound`). There is a lemma for each action. The folds of the code over the
items of a message are followed step by step: a predicate says what has changed after
n items (`EncodedTo`, `DecodedTo`, `ServedTo`, `RequestedTo`, `ReturnedTo`,
`AddedTo`), one lemma shows a step and one the whole fold. `OneChanged` and the
lemmas after it say how each sum changes with one part of the state; the frame
lemmas (`Retains...`, `RecountedFrame`) say what does not notice a change.

`FixnumsProofs` proves, for cells of any even number of bits from 6 on and any
characters (`WordAssumption`):

* `InstructionsMean`: `Spec => []ArithmeticExact`, from `OverflowWraps`;
* `OrderAndTower`: `Spec => []PredicatesSound`.

`OverflowWraps` is needed for multiplication alone (`InstructionsExact`; the other value
refutes the property, see below). The run `arith` has cells of 8 bits; the theorem says
the same of the 32 bits of the code. The argument is about two numbers: `Limit`, the
least fixnum without its sign, and `MaxMiddle`, the carry that multiplication allows out
of the middle. A word holds `8 * Limit` values, half a word `8 * MaxMiddle`, and `Limit`
is `8 * MaxMiddle * MaxMiddle` (`Sizes`), so that everything is linear or quadratic in
them. `LongFacts` is what a word does to a number; `ProductBound` shows that the tests of
`multiply-carefully` on the halves catch every product that is too big before anything
wraps, and no other but the least fixnum; `Divided` gives the signs and sizes of a
truncated quotient and its remainder; `LeftShiftExact` shows that a number that comes back
from a left shift, the two bits of the tag included, has not lost anything;
`WordFacts` and `SignBits` that a word made of bits has these bits, and that the bits of a
fixnum above its highest agree, so that an operation on bits cannot leave the fixnums.
The invariant (`IInv`) is small: what has the tag of a fixnum is one, and `last` is what
the instruction does to such operands.

`StackMachineProofs` proves, for any programs and protocols, any sizes of the stack and
any number of instructions:

* `StackIsSound`: `Spec => []IInv`;
* `HeapIsApart`: `Spec => []HeapNeverPointsIntoStack`;
* `SlackSuffices`: `Spec => []StackSuffices`;
* `CollectorIsComplete`: `Spec => []CollectorSeesStack`.

`ProgramAssumption` says that a protocol wants no more than `MaxArgs` arguments, that
the handlers take the two arguments they are given and that an exception has at most 16
reasons. `StackAssumption` says that the stack holds the largest demand of a procedure
with its arguments, `stack-warning-limit` and 41 cells more: the bottom continuation, the
list and the counts of a call, what an exception with its reasons or an interrupt
pushes, and the two cells of safety.
In the code a demand may be up to 8000 (`available-stack-space`), and the
smallest stack that `initialize-stack` accepts leaves 7991 for one with 63 arguments besides
(`maximum-stack-args`); a procedure that asks for more than that stops the machine with
the message that its stack is too small, unless the user has given it a larger one.

None of the three properties is inductive. What a move to the heap leaves depends on
the whole stack, so `IInv` says what is on it: `K` is the chain of continuations from
`m.cont` to the bottom one and `E` a set of environments with all that can be reached
(`Sound`). Continuations and environments do not overlap (`Apart`), each continuation's
cont field is the next of `K` below it (`Conts`), and what refers to an environment
refers to the nearest below it, and so does every continuation in between
(`Refers`). This is the sentence of `env.scm` on which `save-env-in-heap` rests, that
cont pointers do not cross parent pointers, and it is why the loop that follows the
forwarding pointers can stop at the first continuation without one
(`ForwardEnvs`, `AboveChain`). Below the arguments is a header, or the marker in the first
slot of an environment whose header was overwritten (`Begins`), so `arguments-on-stack`
counts exactly the arguments (`ArgumentCount`); the same holds for the arguments of
each continuation, which may be on top after a return. For `StackSuffices` the
compiler's account has to hold not only for the running code (`Affordable`) but for each
continuation, on the stack or in the heap, with the cells that an exception or an
interrupt has added and takes off again (`Frame`, `Account`).

The proofs about operators come first (`Pushed`, `PreservedEnv`, `PreservedCont`,
`CopiedStack`, `Popped`, `Returns`), then what starts a procedure: `StartedRuns` covers each
protocol, `Interrupted` and `RaisedStarts` what may come before it. `Forgotten` says
that dropping dead cells keeps the invariant, and there is one lemma for each action,
joined in `NextStep`. `IInv` quantifies over all sets `K` and `E`, so that only its
consequences are checked by TLC, in the run `machine`.

Induction. The library's induction theorems take an operator, which the provers
cannot instantiate. `SetInduction` states induction up to a number for a set
instead (`InductionTo`, from the well-foundedness of `<`), and the models write
recursion as a function on `0 .. n` or on a set of places: `FilterIsDefined`,
`GetUidsIsDefined`, `Powers` and `EnvBack` show that the function exists, and the claims follow by `InductionTo` with the set of the
numbers for which they hold. Sums are cardinalities of sets of units (`Total` in
`Lists`), so that `TotalUpdate`, `TotalAtMost`, `FibresBound` and `TotalShift` follow
from the library's theorems about finite sets, without induction.

## What the models show about the code

The properties of the runs mark where the protocols are sound, and the
instances say under which conditions. Outside them TLC refutes the same
formulas; each of these can be seen by changing the constants that are named.

*Proxy counts and connections.*

* `make-return-messages` returns the value of `set-cdr!` for the second proxy of
  one owner that is over the maximum (`proxy-count.scm:156`, against 91-92), and
  the dispatcher fails on it: `DispatchersLive` with two proxies and two mentioned in
  a message.
* `add-to-proxy-count!` puts the counts that came for a proxy-data with none left on the
  list of bad proxies without `enter-fixnum` (`transmit.scm:678`, against 661, 688 and
  729; `scheme48vm.c:9591`, against 9622). `check-proxy-waiters` gets a quarter of them if
  they are a multiple of 4, as those of an owner that sends 4096 at a time are. If they
  are not, `(= count 0)` raises an error when somebody waits, and the dispatcher ends:
  `DispatchersLive` of `pc_one_sender` with `BaseCount = 11`. When nobody waits the
  integer becomes the reference count, and dispatchers end later, in
  `make-return-messages` of the one or `add-proxy-counts!` of the owner. A return of
  such a count may also look like a header or like a pointer to the encoder, which is
  out of the bounds here.
* `check-proxy-waiters` stores what is left of arriving counts instead of adding
  it to the negative count (`proxy-count.scm:127`), so counts get lost and the owner
  keeps the uid for ever, against `doc/src/kali.tex:255`: `ProxiesReclaimed` with
  one blocked thread (`pc_one_sender` with `Collectors = {o, a}`). Three quarters of the
  counts get lost anyway, see above, and some when an encoding is started again after a
  collection. No run has a property that notices lost counts: `ProxiesReclaimed` is
  for a run in which nobody runs out, and `NoInventedCounts` is an upper bound.
* In `pc_one_sender` the owner sends the proxy once, so that all counts that arrive
  later are answers to requests. With `FromOwner = 2` a message of the owner can
  bring counts between an encoding and the registration of its losers:
  `DispatchersLive` fails (the counts find the mark `#t`, and `(reverse #t)` ends
  the dispatcher) and so does `BlockedSendersProceed`.
* With two threads blocked at once `BlockedSendersProceed` fails (two threads,
  `FromA = 3`, debits of 16 and `MaxCount = 32`): a waiter that is
  registered on a proxy-data that already has a positive count is not served by
  the counts that arrive, and requests and answers go on for ever.
* With `Collectors = {o, a}` `WaiterIsFound` and `BlockedSendersProceed` fail:
  `gc-proxies` drops a proxy-data on which a sender waits, because a blocked sender
  holds only the encoded message.
* `finish-connection!` releases the lock before the message is written
  (`connect.scm:105`, against 245-250); two threads write to one channel, and the
  second release takes the lock away from somebody else: `MessagesIntact` with two
  senders and `Connected = FALSE`.
* `send-admin-message` keeps the lock when there is no channel (`connect.scm:307`,
  against 297-298), and the thread it spawns waits for it: `MessagesSent` with an
  admin and `Connected = FALSE`.
* With the ranks of `MCRank` exchanged (two senders at the inferior side, one at
  the superior side) `MessagesSent` fails: both servers and one client wait for
  one another.
* After an encoding that failed the freelist index is not taken back
  (`transmit.scm:206`, against 280-282), and the next extension leaves slots with
  whatever was in memory: `SlotsFilled` of `DecodeVectors`.

*Interrupts and events.*

* `check-for-enabled-interrupt` stores the flag before it looks at the events,
  "done first to avoid a race condition" (`interrupt.scm`). gcc -O2 loads
  `Spending_eventsPS` before that store; a signal between the two stays unseen until
  the next one. `InOrder = FALSE` refutes `NoHiddenEvents`; `IoNoticed` holds all
  the same.
* `vm-channel-abort` of a channel that is already in the queue of completed ones
  leaves the i/o interrupt noted, and the handler then follows a link of `#f`
  (`scheme48vm.c:8139`): `FollowFalse` is reached in `events`. `InterruptsJustified` says
  that there is no other way to it.
* `schedule_alarm_interrupt` computes -1, "no poll", when the poll is one tick overdue
  (`event.c:134-136`), and i/o is noticed no more until something else polls.
  `QueuesAgree` says that polling is lost in no other way; with `LatePolls = TRUE` in
  `events_live` `IoNoticed` fails.
* A keyboard interrupt between the test of `keyboard_interrupt_count` (`event.c:505`) and
  `select()` (`event.c:556`) does not end the sleep; it is handled when `max_wait` is over
  or a descriptor is ready (`EnterSelect`; a signal at "fds" moves nothing). No property
  promises more.
* A signal between the test of the counts and the store in `event.c:282-287` is
  taken off the event flag. The count stays, so that the next event finds it.
* A delay of 0 makes an alarm at once and does not cancel one, as line 117 says
  it does. An alarm that is always due keeps i/o completions waiting.

*Heap and images.*

* `find-all` writes the header of its vector without a test for space
  (`heap.scm:197`, with 53-60): `Uses <- Instructions` and `MaxSteps` 8 refute
  `HeapSound` and `NoOverrun`.
* `trace-finalizer-alist` traces the contents of things that have bytes
  (`scheme48heap.c:1705-1711`): `FinalizeBytes = TRUE` and `MaxSteps` 8 refute
  `CollectionIsIdeal`.
* Blocks for weak pointers are taken without a test of the limit; `check_image_header`
  looks at a global status; `read_image` closes its port twice.
* `with-continuation` has installed the continuation when the procedure turns
  out not to take no arguments, and the exception is raised with the environment
  of before (`interp.scm:529`); the model takes procedures that accept none.

*Arithmetic.*

* `magnitude` takes the descriptor for the value (`prim.scm:135` and
  `arith.scm:119-124`): `(magnitude 5)` is 20. `MagnitudeRight` states the comment of
  `prim.scm:118-119`, and TLC refutes it.
* `SMALL_MULTIPLY` tests for overflow after a product that C leaves undefined, and
  gcc -O2 removes the test `lo_c < 0`: `(* 65535 65535)` is -131071.
  `OverflowWraps = FALSE` refutes `ArithmeticExact`. With wrapping products the tests
  are right, and give up needlessly only on products that are the least fixnum.

## What is not modelled

* Unknown uids (`uid-request.scm`). On its ordinary path the file loses pending
  requests: `find-ready` computes the shorter list of a closet and does not store
  it, and `key-append` starts again from its second argument in every step. Nothing
  that it promises holds, so no property could be checked; messages are decoded
  completely in the other modules.
* Broken connections: `dispatch-handler` only reports them. The shared address space
  and pseudo address spaces, whose proxies are not counted; the tables of address
  spaces by name.
* The copying of the contents of a message and its byte format.
* The tree of schedulers in `rts/thread.scm`: its effect on the protocols is the
  fairness assumed; only `root-wait` is modelled.
* The buffers and locks of ports; `io.c`, whose buffers belong to one reader.
* `move-args-and-call` (kept for experiments), and the nesting of handlers: an
  interrupt's handler is entered and runs like any procedure.
* Symbol tables, trace hooks, statistics, raw memory operations; the instructions
  that only move data (literals, globals, vectors, strings, records).
* Everything listed as `not_modelled` in `PROJECT.json`.

What stays with TLC: all liveness (the proof system does not handle
fairness), with it the other half of `ImplementsStreams`; `Connections` while connections
are made; `Collector`, `Images` and `Heap`, whose operators are recursive as the code is;
that `StackMachine` implements `Continuations`, for which each environment that moves
would have to be followed through `ViewOf`; of
`ProxyCounts`, `WaiterIsFound` and `DispatchersLive`, which hold only when one thread
at a time is blocked, the owner sends once and answers with multiples of 4 (run
`pc_one_sender`): they are about
the counts of one life of a proxy, not about a state that every step keeps.

## Plan

In the order of importance.

1. `Threads`: the scheduler tree of `rts/thread.scm` with `schedule-event`,
   `schedule-wakeup` and sleepers. Properties: no event without a wakeup, nobody
   sleeps while a thread is runnable. It would discharge part of the fairness
   assumed above.
2. `Ports`: buffers and locks of `rts/channel-port.scm` over the channels of
   `Interrupts`, with stealing a port from a thread that waits.
3. Proofs: `ChannelsAgree` while connecting.
4. `Connections` while connections are being made, for the order of ranks that
   `conn_superior` shows to be sound.

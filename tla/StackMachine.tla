----------------------------- MODULE StackMachine -----------------------------
(***************************************************************************)
(* The virtual machine's stack (vm/stack.scm), environments (vm/env.scm)   *)
(* and calling conventions (vm/call.scm): continuations and environments   *)
(* lie on the stack and refer to each other there, move to the heap when a *)
(* program wants to keep them or the stack is full, and come back one      *)
(* continuation at a time.  One instruction is one action.                 *)
(*                                                                         *)
(* The stack is a sequence of cells that grows at its end; the code's grows *)
(* towards lower addresses.  A positive pointer is the place of a header   *)
(* on the stack, a negative one a vector in the heap, 0 an empty           *)
(* environment.                                                            *)
(***************************************************************************)
EXTENDS Integers, Sequences, FiniteSets

CONSTANTS
  Procs, Lists, Protocol, ExceptionArgs,   \* see Continuations
  Data,             \* the values that programs push, as a sequence
  Handler,          \* procedures of the vectors of handlers
  InterruptHandler,
  StackCells,       \* size of the stack
  DefaultSpace,     \* default-stack-space
  BigSpace,         \* what a procedure with the big-stack protocol asks for
  BigProcs,         \* the procedures that have it
  WarningLimit,     \* stack-warning-limit
  TailCalls,        \* bound: what earlier tail calls have left on the stack, in cells
  MaxSteps,         \* bound: instructions
  MaxArgs, MaxDepth, MaxChain   \* bounds: arguments, continuations, nested environments

continuation_stack_size == 5

\* The part of the stack that no procedure may count on.
stack_slack ==
  DefaultSpace + continuation_stack_size + 2 * (continuation_stack_size + 7) + WarningLimit + 2

Value(p) == [proc |-> p]
List(s) == [list |-> s]
Count(n) == [count |-> n]
Info(x) == [info |-> x]

ASSUME ProgramAssumption ==
  /\ {Handler, InterruptHandler} \cup {Data[i] : i \in DOMAIN Data} \cup BigProcs \subseteq Procs
  /\ \A p \in Procs : /\ Protocol[p].kind \in {"fixed", "n-ary", "args+nargs", "dispatch"}
                      /\ Protocol[p].wants \in 0 .. MaxArgs
  /\ Protocol[Handler] = [kind |-> "n-ary", wants |-> 2]
  /\ Protocol[InterruptHandler] = [kind |-> "fixed", wants |-> 2]
  /\ Lists \cup {ExceptionArgs} \subseteq Seq({Value(p) : p \in Procs})
  /\ Len(ExceptionArgs) <= 16

\* The largest procedure has room when only the bottom continuation and its arguments
\* are on the stack; earlier tail calls have left no more than default-stack-space allows.
ASSUME StackAssumption ==
  /\ {StackCells, DefaultSpace, BigSpace, WarningLimit, MaxArgs, MaxChain} \subseteq Nat
  /\ DefaultSpace <= BigSpace /\ 2 <= MaxArgs
  /\ BigSpace + MaxArgs + WarningLimit + 41 <= StackCells
  /\ \A n \in TailCalls : n \in Nat /\ n + DefaultSpace + WarningLimit + 37 <= StackCells

VARIABLES
  m,        \* the machine: stack, registers, and the environments in the heap
  closed,   \* the environment of the closure that a program keeps, if any
  caught,   \* the continuation that a program keeps, if any; it keeps one thing
  steps,    \* instructions so far
  view      \* a function of the others: what programs can see, ViewOf below

vars == <<m, closed, caught, steps, view>>

\* The places that one comes to from i, each below the last.
Descent(next, i) ==
  LET d[j \in DOMAIN next] == <<j>> \o (IF next[j] \in DOMAIN next /\ next[j] < j
                                         THEN d[next[j]] ELSE <<>>)
  IN IF i \in DOMAIN next THEN d[i] ELSE <<>>

-----------------------------------------------------------------------------
(* The stack.  m.used and m.room are the cells that the running procedure  *)
(* has used and may use, by the compiler's account (bcomp/stack-check.scm); *)
(* m.overrun is whether the stack has been in the cells that are there     *)
(* only for safety.                                                        *)

Larger(i, j) == IF i > j THEN i ELSE j
Top(s) == Len(s.stack)

push_all(s, cells) ==
  [s EXCEPT !.stack = @ \o cells,
            !.overrun = @ \/ Top(s) + Len(cells) > StackCells - WarningLimit - 2]
push(s, cell) == push_all(s, <<cell>>)
remove_stack_arguments(s, n) == [s EXCEPT !.stack = SubSeq(@, 1, Top(s) - n)]
TopArgs(s, n) == SubSeq(s.stack, Top(s) - n + 1, Top(s))

within_stack(p) == p > 0

IsHeader(cell) == "header" \in DOMAIN cell
argument_limit_marker == [header |-> "limit", size |-> 0, id |-> 0]
Headers(s, kind) == {i \in 1 .. Top(s) : IsHeader(s.stack[i]) /\ s.stack[i].header = kind}
IsForwarded(cell) == "forward" \in DOMAIN cell

\* The fields of a continuation at c, below its header.
ContOf(s, c) == s.stack[c - 1].cont
EnvOf(s, c) == s.stack[c - 4].env
ArgsOf(s, c) == SubSeq(s.stack, c - 4 - s.stack[c].size, c - 5)

\* The bottom continuation has no arguments.  The continuations in the heap
\* are a sequence that hangs on its cont field.
bottom == continuation_stack_size
HeapConts(s) == s.stack[bottom - 1].conts
SetHeapConts(s, k) ==
  [s EXCEPT !.stack = [i \in DOMAIN @ |-> IF i = bottom - 1 THEN [conts |-> k] ELSE @[i]]]

\* The continuations on the stack from c on; the last is the bottom one.
StackConts(s, c) ==
  Descent([d \in Headers(s, "continuation") |-> IF d = bottom THEN 0 ELSE ContOf(s, d)], c)

push_continuation(s, kind, nargs) ==
  [push_all(s, <<[env |-> s.env], [template |-> kind], [pc |-> <<s.used, s.room>>],
                 [cont |-> s.cont], [header |-> "continuation", size |-> nargs, id |-> 0]>>)
     EXCEPT !.cont = Top(s) + continuation_stack_size]

pop_continuation(s) ==
  LET c == s.cont
  IN [s EXCEPT !.env = EnvOf(s, c), !.cont = ContOf(s, c), !.stack = SubSeq(@, 1, c - 5),
               !.used = s.stack[c - 2].pc[1], !.room = s.stack[c - 2].pc[2]]

reset_stack_pointer(s, k) ==
  SetHeapConts([s EXCEPT !.stack = SubSeq(@, 1, bottom), !.cont = bottom], k)

copy_continuation_from_heap(s, k) ==
  LET c == Head(k)
      r == reset_stack_pointer(s, Tail(k))
  IN [push_all(r, c.args \o <<[env |-> c.env], [template |-> c.template], [pc |-> c.pc],
                              [cont |-> bottom],
                              [header |-> "continuation", size |-> Len(c.args), id |-> 0]>>)
        EXCEPT !.cont = bottom + Len(c.args) + continuation_stack_size]

set_current_continuation(s, k) ==
  IF k = <<>> THEN reset_stack_pointer(s, k) ELSE copy_continuation_from_heap(s, k)

-----------------------------------------------------------------------------
(* Environments.                                                           *)

EnvSize(s, e) == s.stack[e].size - 1
EnvVals(s, e) == SubSeq(s.stack, e - 1 - EnvSize(s, e), e - 2)
env_parent(s, e) == IF within_stack(e) THEN s.stack[e - 1].env ELSE s.heap[-e].parent

\* MakeEnv makes no longer chain.
env_back(s, e, n) ==
  LET at[i \in 0 .. MaxChain] == IF i = 0 THEN e ELSE env_parent(s, at[i - 1])
  IN at[n]

\* The last value pushed is the first slot.
env_ref(s, e, i) ==
  IF within_stack(e) THEN s.stack[e - 1 - i]
  ELSE LET vals == s.heap[-e].vals IN vals[Len(vals) - i + 1]
env_set(s, e, i, v) ==
  IF within_stack(e) THEN [s EXCEPT !.stack[e - 1 - i] = v]
  ELSE [s EXCEPT !.heap[-e].vals[Len(s.heap[-e].vals) - i + 1] = v]

pop_args_into_env(s, n, id) ==
  [push_all(s, <<[env |-> s.env], [header |-> "environment", size |-> n + 1, id |-> id]>>)
     EXCEPT !.env = Top(s) + 2]

\* An environment and those around it, as far as they are on the stack.
StackEnvs(s, e) ==
  LET chain == Descent([x \in Headers(s, "environment") |-> env_parent(s, x)], e)
  IN {chain[i] : i \in DOMAIN chain}

\* Copy environments.  The header of each is replaced by a forwarding pointer,
\* and its first slot marked for arguments_on_stack.
copy_envs(s, envs) ==
  LET IdOf(e) == s.stack[e].id
      Copied(e) == [parent |-> LET p == env_parent(s, e) IN IF p \in envs THEN -IdOf(p) ELSE p,
                    vals |-> EnvVals(s, e)]
      ids == {IdOf(e) : e \in envs}
  IN [s EXCEPT !.heap = [id \in ids \cup DOMAIN @ |->
                           IF id \in ids THEN Copied(CHOOSE e \in envs : IdOf(e) = id) ELSE @[id]],
               !.stack = [i \in DOMAIN @ |-> IF i \in envs THEN [forward |-> -IdOf(i)]
                                            ELSE IF i + 1 \in envs THEN argument_limit_marker
                                            ELSE @[i]]]

\* The continuations from c on follow the forwarding pointers, until one has none.
ForwardEnvs(s, c) ==
  LET cs == StackConts(s, c)
      Forwarded(d) == within_stack(EnvOf(s, d)) /\ IsForwarded(s.stack[EnvOf(s, d)])
      following == {cs[i] : i \in {j \in DOMAIN cs : \A n \in 1 .. j : Forwarded(cs[n])}}
  IN [s EXCEPT !.stack = [i \in DOMAIN @ |->
        IF i + 4 \in following THEN [env |-> @[@[i].env].forward] ELSE @[i]]]

\* Mutant: the environments around it stay on the stack.
save_env_in_heap_alone(s, e, c) == ForwardEnvs(copy_envs(s, {e}), c)

save_env_in_heap(s, e, c) == ForwardEnvs(copy_envs(s, StackEnvs(s, e)), c)

preserve_current_env(s) ==
  IF within_stack(s.env)
  THEN [save_env_in_heap(s, s.env, s.cont) EXCEPT !.env = -s.stack[s.env].id]
  ELSE s

-----------------------------------------------------------------------------
(* Moving the continuation to the heap.                                    *)

save_env_of(s, c) ==
  IF within_stack(EnvOf(s, c)) THEN save_env_in_heap(s, EnvOf(s, c), c) ELSE s

HeapCont(s, c) ==
  [args |-> ArgsOf(s, c), env |-> EnvOf(s, c),
   template |-> s.stack[c - 3].template, pc |-> s.stack[c - 2].pc]

\* All but the bottom one.
CopyConts(s) ==
  LET cs == StackConts(s, s.cont)
      saved[n \in 0 .. Len(cs) - 1] ==
        IF n = 0 THEN s ELSE save_env_of(saved[n - 1], cs[n])
      r == saved[Len(cs) - 1]
  IN SetHeapConts(r, [i \in 1 .. Len(cs) - 1 |-> HeapCont(r, cs[i])] \o HeapConts(r))

preserve_continuation(s) == [CopyConts(preserve_current_env(s)) EXCEPT !.cont = bottom]

TopHeader(s) ==
  LET headers == {i \in 1 .. Top(s) : IsHeader(s.stack[i])}
  IN CHOOSE i \in headers : \A j \in headers : j <= i

\* Mutant: the marker is taken for the header.
arguments_on_stack_unmarked(s) == Top(s) - TopHeader(s)

arguments_on_stack(s) ==
  Top(s) - TopHeader(s) - (IF s.stack[TopHeader(s)] = argument_limit_marker THEN 1 ELSE 0)

move_args_above_cont(s, args) == [s EXCEPT !.stack = SubSeq(@, 1, s.cont) \o args]

\* Mutant: the arguments stay where they are.
copy_stack_into_heap_only(s) == preserve_continuation(s)

copy_stack_into_heap(s) ==
  move_args_above_cont(preserve_continuation(s), TopArgs(s, arguments_on_stack(s)))

\* Cells above *stack-limit*.
AboveLimit(s) == StackCells - Top(s) - 1 - stack_slack
available_on_stack(s, space) == AboveLimit(s) + DefaultSpace > space
\* The machine stops with an error: the stack is too small.
TooSmall(s) == [s EXCEPT !.overrun = TRUE]

ensure_stack_space(s, space) ==
  LET r == copy_stack_into_heap(s)
  IN IF available_on_stack(s, space) THEN s
     ELSE IF available_on_stack(r, space) THEN r ELSE TooSmall(r)

ensure_default_procedure_space(s) ==
  LET r == copy_stack_into_heap(s)
  IN IF AboveLimit(s) >= 0 THEN s ELSE IF AboveLimit(r) >= 0 THEN r ELSE TooSmall(r)

-----------------------------------------------------------------------------
(* Calling conventions.                                                    *)

Accepts(p, n) ==
  IF Protocol[p].kind = "fixed" THEN n = Protocol[p].wants ELSE n >= Protocol[p].wants

pop_args_to_list(s, n, list) == TopArgs(s, n) \o list

\* The list is on the stack while space is made.
push_list(s, list, n) ==
  push_all(remove_stack_arguments(ensure_stack_space(push(s, List(list)), n), 1),
           SubSeq(list, 1, n))

Spreads(p, total) ==
  Protocol[p].kind = "args+nargs" \/ (Protocol[p].kind = "dispatch" /\ total >= 3)

\* How many arguments p finds on the stack, and not in a list.
StackArgs(p, nargs, list) ==
  LET total == nargs + Len(list)
  IN IF Protocol[p].kind = "n-ary" THEN Protocol[p].wants
     ELSE IF Spreads(p, total) /\ list = <<>> THEN nargs
     ELSE IF Spreads(p, total) /\ total >= 3 THEN Larger(2, nargs)
     ELSE total

\* What follows them: nothing, the rest of the arguments, or that and two counts.
AfterStackArgs(p, n, all) ==
  LET rest == List(SubSeq(all, n + 1, Len(all)))
  IN IF Protocol[p].kind = "n-ary" THEN <<rest>>
     ELSE IF Spreads(p, Len(all)) THEN <<rest, Count(n), Count(Len(all))>> ELSE <<>>

\* plain-protocol-match and list-protocol-match.
protocol_match(s, p, nargs, list) ==
  LET n == StackArgs(p, nargs, list)
  IN push_all(IF n > nargs THEN push_list(s, list, n - nargs)
              ELSE remove_stack_arguments(s, nargs - n),
              AfterStackArgs(p, n, pop_args_to_list(s, nargs, list)))

matched_count(p, nargs, list) ==
  LET n == StackArgs(p, nargs, list)
  IN IF Protocol[p].kind = "n-ary" THEN n + 1
     ELSE IF Spreads(p, nargs + Len(list)) THEN n + 3 ELSE n

install_val_closure(s, p, e) ==
  [s EXCEPT !.env = e, !.used = 0, !.room = IF p \in BigProcs THEN BigSpace ELSE DefaultSpace]

\* check-interrupts-and-go makes room for the procedure.
WithRoom(s, p, e) ==
  LET r == install_val_closure(s, p, e) IN ensure_stack_space(r, r.room)

Started(s, p, e, nargs, list) == WithRoom(protocol_match(s, p, nargs, list), p, e)

\* What an exception or an interrupt saves of the code that it stops.
SavedPc(s) == [pc |-> <<s.used, s.room>>]

\* The handler takes two arguments.
handle_interrupt(s, nargs) ==
  LET saved == push_all(s, <<Info("val"), Info("template"), SavedPc(s), Info("enabled")>>)
      r == push_all(push_continuation(saved, "interrupt", nargs + 4),
                    <<Info("interrupted"), Info("enabled")>>)
  IN WithRoom(r, InterruptHandler, 0)

check_interrupts(s, nargs, interrupted) ==
  IF interrupted THEN handle_interrupt(s, nargs) ELSE s

\* A call that goes ahead: the machine, the procedure, its environment and arguments.
Calling(s, p, e, nargs, list) == [s |-> s, p |-> p, e |-> e, nargs |-> nargs, list |-> list]
Perform(c, interrupted) ==
  check_interrupts(Started(c.s, c.p, c.e, c.nargs, c.list),
                   matched_count(c.p, c.nargs, c.list), interrupted)

push_exception_continuation(s) ==
  LET r == push_all(s, <<Info("size"), Info("exception"), Info("template"), SavedPc(s)>>)
  IN push_all(push_continuation(r, "exception", arguments_on_stack(r)),
              <<Info("opcode"), Info("exception")>>)

Raised(s, reasons) ==
  Calling(push_all(push_exception_continuation(s), reasons), Handler, 0, Len(reasons) + 2, <<>>)
raise_exception(s, reasons, interrupted) == Perform(Raised(s, reasons), interrupted)

application_exception(s, p, nargs, list) ==
  Raised(remove_stack_arguments(s, nargs),
         <<Value(p), List(pop_args_to_list(s, nargs, list))>>)

perform_application(s, p, e, nargs, list, interrupted) ==
  Perform(IF Accepts(p, nargs + Len(list)) THEN Calling(s, p, e, nargs, list)
          ELSE application_exception(s, p, nargs, list), interrupted)

\* The instruction for the common case makes its own test of the stack.
call(s, p, e, nargs, interrupted) ==
  IF Protocol[p].kind = "fixed" /\ p \notin BigProcs /\ nargs = Protocol[p].wants
  THEN check_interrupts(ensure_default_procedure_space(install_val_closure(s, p, e)),
                        nargs, interrupted)
  ELSE perform_application(s, p, e, nargs, <<>>, interrupted)

-----------------------------------------------------------------------------
(* Returning.                                                              *)

\* What return-from-exception and return-from-interrupt take off the stack.
Resumed(s, kind) ==
  LET at == Top(s) - (IF kind = "exception" THEN 0 ELSE 1)
  IN IF kind \in {"exception", "interrupt"}
     THEN [remove_stack_arguments(s, 4) EXCEPT !.used = s.stack[at].pc[1],
                                               !.room = s.stack[at].pc[2]]
     ELSE s

\* The bottom continuation fetches the next one from the heap.
TakeCont(s) == IF s.cont = bottom THEN set_current_continuation(s, HeapConts(s)) ELSE s
Returned(s) ==
  LET r == TakeCont(s) IN Resumed(pop_continuation(r), r.stack[r.cont - 3].template)

HasCont(s) == s.cont # bottom \/ HeapConts(s) # <<>>

\* peek-at-current-continuation: its template, and the last of its arguments.
CurrentTemplate(s) ==
  IF ~HasCont(s) THEN "none"
  ELSE IF s.cont = bottom THEN Head(HeapConts(s)).template ELSE s.stack[s.cont - 3].template
CurrentConsumer(s) ==
  IF s.cont = bottom THEN Head(HeapConts(s)).args[Len(Head(HeapConts(s)).args)].proc
  ELSE s.stack[s.cont - 5].proc

skip_current_continuation(s) ==
  IF s.cont = bottom THEN SetHeapConts(s, Tail(HeapConts(s)))
  ELSE [s EXCEPT !.cont = ContOf(s, s.cont)]

call_with_values(s, val, interrupted) ==
  LET consumer == s.stack[Top(s)].proc
  IN perform_application(push(remove_stack_arguments(s, 1), val), consumer, 0, 1, <<>>, interrupted)

return_values(s, nargs, list, interrupted) ==
  CASE CurrentTemplate(s) \in {"ignore", "interrupt"} -> Returned(s)
    [] CurrentTemplate(s) = "consumer" ->
         perform_application(skip_current_continuation(s), CurrentConsumer(s), 0,
                             nargs, list, interrupted)
    [] OTHER ->
         raise_exception(remove_stack_arguments(s, nargs),
                         <<Info("false"), List(pop_args_to_list(s, nargs, list))>>, interrupted)

-----------------------------------------------------------------------------
(* What the cells mean.  The abstract machine's view is read off them.     *)

IsEnvironment(cell) == IsHeader(cell) /\ cell.header = "environment"
IsEnv(s, e) ==
  IF within_stack(e) THEN e <= Top(s) /\ IsEnvironment(s.stack[e]) ELSE -e \in DOMAIN s.heap

\* MakeEnv makes no longer chain.
EnvAt(s, e) ==
  LET at[n \in 0 .. MaxChain] ==
        IF n = 0 THEN e
        ELSE LET x == at[n - 1] IN IF IsEnv(s, x) THEN env_parent(s, x) ELSE 0
      IdOf(x) == IF within_stack(x) THEN s.stack[x].id ELSE -x
      ValsOf(x) == IF within_stack(x) THEN EnvVals(s, x) ELSE s.heap[-x].vals
  IN [i \in 1 .. Cardinality({n \in 0 .. MaxChain : IsEnv(s, at[n])}) |->
        [id |-> IdOf(at[i - 1]), vals |-> ValsOf(at[i - 1])]]

FrameOf(s, kind, a, e) ==
  LET saved == IF kind \in {"exception", "interrupt"} THEN 4 ELSE 0
  IN [kind |-> kind, args |-> SubSeq(a, 1, Len(a) - saved), env |-> EnvAt(s, e)]

HeapFrames(s, k) ==
  [i \in DOMAIN k |-> FrameOf(s, k[i].template, k[i].args, k[i].env)]

Frames(s) ==
  LET cs == StackConts(s, s.cont)
  IN [i \in 1 .. Len(cs) - 1 |-> FrameOf(s, s.stack[cs[i] - 3].template, ArgsOf(s, cs[i]), EnvOf(s, cs[i]))]
     \o HeapFrames(s, HeapConts(s))

\* What programs can see of the machine s with the kept closure and continuation.
ViewOf(s, cl, ca) ==
  [args |-> TopArgs(s, arguments_on_stack(s)),
   env |-> EnvAt(s, s.env),
   conts |-> Frames(s),
   closed |-> {EnvAt(s, e) : e \in cl},
   caught |-> {HeapFrames(s, k) : k \in ca}]

Abstract ==
  INSTANCE Continuations WITH
    Data <- {Data[i] : i \in DOMAIN Data},
    args <- view.args, env <- view.env, conts <- view.conts,
    closed <- view.closed, caught <- view.caught

\* Places of the cells that the machine can still come to.
EnvCells(s, e) == UNION {(x - 1 - EnvSize(s, x)) .. x : x \in StackEnvs(s, e)}
ContCells(s, c) == (c - 4 - s.stack[c].size) .. c

LiveCells(s) ==
  LET cs == StackConts(s, s.cont)
  IN 1 .. bottom \cup (Top(s) - arguments_on_stack(s) + 1) .. Top(s) \cup EnvCells(s, s.env)
     \cup UNION {ContCells(s, cs[i]) \cup EnvCells(s, EnvOf(s, cs[i])) : i \in DOMAIN cs}

\* trace-stack: the cells that a collection goes through.
trace_env(s, e) == UNION {(x - s.stack[x].size) .. x : x \in StackEnvs(s, e)}

\* An environment that the continuation above has as well is traced already.
trace_conts(s, last_env) ==
  LET cs == StackConts(s, s.cont)
      LastEnv(i) == IF i = 1 THEN last_env ELSE EnvOf(s, cs[i - 1])
  IN UNION {ContCells(s, cs[i])
              \cup (IF EnvOf(s, cs[i]) = LastEnv(i) THEN {} ELSE trace_env(s, EnvOf(s, cs[i]))) :
            i \in DOMAIN cs}

\* Mutant: an environment is taken for traced because the running code has it.
trace_stack_once(s) ==
  (Top(s) - arguments_on_stack(s) + 1) .. Top(s) \cup trace_conts(s, s.env)

trace_stack(s) ==
  (Top(s) - arguments_on_stack(s) + 1) .. Top(s) \cup trace_env(s, s.env) \cup trace_conts(s, 0)

-----------------------------------------------------------------------------
(* A state keeps of an instruction's result what can still be read: the    *)
(* environments in use, and of the dead cells only that there are headers, *)
(* which arguments_on_stack looks for.                                     *)

IdsOf(envs) == {envs[i].id : i \in DOMAIN envs}
IdsOfFrames(fs) == UNION {IdsOf(fs[i].env) : i \in DOMAIN fs}
LiveIds(v) ==
  IdsOf(v.env) \cup IdsOfFrames(v.conts)
    \cup (UNION {IdsOf(e) : e \in v.closed}) \cup (UNION {IdsOfFrames(k) : k \in v.caught})

DeadCell(cell) ==
  IF ~IsHeader(cell) THEN Info("dead")
  ELSE IF cell = argument_limit_marker THEN cell ELSE [header |-> "dead", size |-> 0, id |-> 0]

Forget(s, ids) ==
  LET live == LiveCells(s)
  IN [s EXCEPT !.stack = [i \in DOMAIN @ |-> IF i \in live THEN @[i] ELSE DeadCell(@[i])],
               !.heap = [id \in DOMAIN @ \cap ids |-> @[id]]]

Become(s, cl, ca) ==
  LET v == ViewOf(s, cl, ca)
  IN /\ steps < MaxSteps /\ steps' = steps + 1
     /\ Len(v.conts) <= MaxDepth
     /\ view' = v
     /\ m' = Forget(s, LiveIds(v))
     /\ closed' = cl /\ caught' = ca

Step(s) == Become(s, closed, caught)

Args == view.args
nargs == Len(Args)

\* Bound: programs keep and pass on only procedures, no lists or counts.
OnlyData == \A i \in DOMAIN Args : \E p \in Procs : Args[i] = Value(p)

\* The compiler has counted the cells, and the procedure was started with as many.
MayUse(n) == m.used + n <= m.room
Using(s, n) == [s EXCEPT !.used = @ + n]

-----------------------------------------------------------------------------
(* The instructions.                                                       *)

\* A tail call leaves its caller's cells where they are.
Left(n) == IF n = 0 THEN <<>>
           ELSE [i \in 1 .. n - 1 |-> Info("dead")] \o <<[header |-> "dead", size |-> 0, id |-> 0]>>

Init ==
  /\ \E n \in TailCalls :
     m = [stack |-> <<[env |-> 0], [template |-> "bottom"], [pc |-> <<0, 0>>],
                      [conts |-> <<>>], [header |-> "continuation", size |-> 0, id |-> 0]>> \o Left(n),
          env |-> 0, cont |-> bottom, heap |-> <<>>,
          used |-> 0, room |-> DefaultSpace, overrun |-> FALSE]
  /\ closed = {} /\ caught = {} /\ steps = 0
  /\ view = ViewOf(m, closed, caught)

PushValue(v) ==
  /\ OnlyData /\ nargs < MaxArgs /\ MayUse(1)
  /\ Step(Using(push(m, v), 1))

\* Bound: the values that programs push depend on the place alone.
Push == nargs < Len(Data) /\ PushValue(Value(Data[nargs + 1]))

Env == view.env

\* The first of the environments that the instruction counts through is in m.env.
Environment(back) == env_back(m, m.env, back - 1)
Reaches(back) == \A b \in 1 .. back : IsEnv(m, Environment(b))
Slots(e) == 1 .. IF within_stack(e) THEN EnvSize(m, e) ELSE Len(m.heap[-e].vals)

\* Bound: only the first argument of a call is a variable.
Local(back, i) == nargs = 0 /\ PushValue(env_ref(m, Environment(back), i))

SetLocal(back, i, p) == Step(env_set(m, Environment(back), i, Value(p)))

\* A number that tells an environment from the others, for the abstract machine.
NewId ==
  LET ids == DOMAIN m.heap \cup {m.stack[i].id : i \in {j \in 1 .. Top(m) : IsHeader(m.stack[j])}}
  IN CHOOSE id \in 1 .. Cardinality(ids) + 1 : id \notin ids

MakeEnv ==
  /\ OnlyData /\ nargs > 0 /\ MayUse(2) /\ Len(Env) < MaxChain
  /\ Step(Using(pop_args_into_env(m, nargs, NewId), 2))

\* The consumer of call-with-values is alone on the stack.
MakeCont(kind) ==
  /\ OnlyData /\ MayUse(continuation_stack_size)
  /\ kind = "consumer" => nargs = 1
  /\ Step(Using(push_continuation(m, kind, nargs), continuation_stack_size))

\* Bound: the one value that is returned and assigned.
NewValue == Data[Len(Data)]

\* The value of a continuation of call-with-values goes to its consumer.
Return(p, interrupted) ==
  /\ HasCont(m)
  /\ interrupted => CurrentTemplate(m) = "consumer"
  /\ Step(IF CurrentTemplate(m) = "consumer"
          THEN call_with_values(Returned(m), Value(p), interrupted)
          ELSE Returned(m))

ReturnValues(list, interrupted) ==
  /\ nargs # 1 /\ OnlyData
  /\ list # <<>> => nargs >= 2
  /\ Step(return_values(m, nargs, list, interrupted))

Call(p, e, interrupted) == OnlyData /\ Step(call(m, p, e, nargs, interrupted))
\* Bound: apply is given procedures without an environment.
Apply(p, list, interrupted) ==
  OnlyData /\ Step(perform_application(m, p, 0, nargs, list, interrupted))

Exception(interrupted) == Step(raise_exception(m, ExceptionArgs, interrupted))

Closure ==
  /\ m.env # 0
  /\ LET s == preserve_current_env(m) IN Become(s, {s.env}, {})

CurrentCont == LET s == preserve_continuation(m) IN Become(s, {}, {HeapConts(s)})

WithContinuation(p, e, k, interrupted) ==
  /\ Accepts(p, 0)
  /\ Step(perform_application(set_current_continuation(m, k), p, e, 0, <<>>, interrupted))

Environments == {0} \cup closed
Programs == Procs \ {Handler, InterruptHandler}

Next ==
  \/ Push
  \/ \E back \in {b \in 1 .. MaxChain : Reaches(b)} : \E i \in Slots(Environment(back)) :
       Local(back, i) \/ SetLocal(back, i, NewValue)
  \/ MakeEnv
  \/ \E kind \in {"plain", "ignore", "consumer"} : MakeCont(kind)
  \/ \E interrupted \in BOOLEAN :
       \/ Return(NewValue, interrupted)
       \/ Exception(interrupted)
       \/ \E list \in Lists : ReturnValues(list, interrupted)
       \/ \E p \in Programs, e \in Environments : Call(p, e, interrupted)
       \/ \E p \in Programs, list \in Lists : Apply(p, list, interrupted)
       \/ \E p \in Programs, e \in Environments, k \in caught :
            WithContinuation(p, e, k, interrupted)
  \/ Closure
  \/ CurrentCont

Spec == Init /\ [][Next]_vars

-----------------------------------------------------------------------------
(* Correctness.                                                            *)

\* Compiled code never sees the stack: whatever is moved to the heap and back,
\* and whenever, arguments, environments and continuations are what the machine
\* without a stack has (vm/stack.scm, vm/env.scm, vm/call.scm).
ImplementsContinuations == Abstract!Spec

\* No environment or continuation in the heap points to the stack, which the
\* next calls overwrite and a collection reads only from the registers
\* (save-env-in-heap in vm/env.scm, really-preserve-continuation in vm/stack.scm).
HeapNeverPointsIntoStack ==
  LET Safe(k) == \A i \in DOMAIN k : ~within_stack(k[i].env)
  IN /\ \A id \in DOMAIN m.heap : ~within_stack(m.heap[id].parent)
     /\ \A e \in closed : ~within_stack(e)
     /\ \A k \in caught : Safe(k)
     /\ Safe(HeapConts(m))

\* No instruction comes to the cells that are only there for safety, with the
\* reserve of stack-slack and one test of the stack at the start of a procedure
\* (the comment on stack-slack in vm/stack.scm).
StackSuffices == ~m.overrun

\* A collection between two instructions traces every cell of the stack that the
\* machine can still come to (trace-stack in vm/stack.scm).
CollectorSeesStack == LiveCells(m) \subseteq trace_stack(m)
=============================================================================

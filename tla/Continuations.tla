----------------------------- MODULE Continuations -----------------------------
(***************************************************************************)
(* What compiled code may rely on in the virtual machine's instructions    *)
(* for environments, calls and continuations: arguments are a sequence,    *)
(* an environment is a chain of frames that everyone who has it shares,    *)
(* and a continuation is a value that nothing done later can change.       *)
(* There is no stack, no copying and no shortage of space here.            *)
(***************************************************************************)
EXTENDS Integers, Sequences, FiniteSets

CONSTANTS
  Procs,          \* procedures without free variables: the values of the programs
  Data,           \* the procedures that programs push as values
  Lists,          \* argument lists of APPLY
  Protocol,       \* procedure -> [kind, wants], how it takes its arguments
  ExceptionArgs   \* what an instruction tells the handler of its exception

VARIABLES
  args,           \* the arguments pushed so far
  env,            \* the chain of environments, the innermost first
  conts,          \* the continuation: frames, the innermost first
  closed,         \* the environment of the closure that the program keeps, if any
  caught          \* the continuation that it keeps, if any; it keeps one thing

absVars == <<args, env, conts, closed, caught>>

Value(p) == [proc |-> p]
List(s) == [list |-> s]
Count(n) == [count |-> n]
Info(x) == [info |-> x]

Frame(kind, a, e) == [kind |-> kind, args |-> a, env |-> e]

-----------------------------------------------------------------------------
(* Calling conventions.                                                    *)

Accepts(p, n) ==
  IF Protocol[p].kind = "fixed" THEN n = Protocol[p].wants ELSE n >= Protocol[p].wants

\* All but the first n of the arguments become a list.
WithRest(all, n) == SubSeq(all, 1, n) \o <<List(SubSeq(all, n + 1, Len(all)))>>

\* args+nargs: the arguments, the rest of them, and two counts.  Arguments that
\* came in a list are left there when there are two others.
Spread(onStack, list) ==
  LET all == onStack \o list
      n == IF list = <<>> \/ Len(onStack) >= 2 THEN Len(onStack)
           ELSE IF Len(all) < 3 THEN Len(all) ELSE 2
  IN WithRest(all, n) \o <<Count(n), Count(Len(all))>>

Received(p, onStack, list) ==
  LET all == onStack \o list
  IN CASE Protocol[p].kind = "fixed" -> all
       [] Protocol[p].kind = "n-ary" -> WithRest(all, Protocol[p].wants)
       [] Protocol[p].kind = "args+nargs" -> Spread(onStack, list)
       [] Protocol[p].kind = "dispatch" -> IF Len(all) < 3 THEN all ELSE Spread(onStack, list)

HandlerArgs(reasons) == <<Info("opcode"), Info("exception"), List(reasons)>>
InterruptArgs == <<Info("interrupted"), Info("enabled")>>

\* A procedure starts with its arguments a, or an interrupt comes first: its
\* handler runs in an environment of its own, before everything else.
Enter(a, e, k) ==
  \/ args' = a /\ env' = e /\ conts' = k
  \/ args' = InterruptArgs /\ env' = <<>> /\ conts' = <<Frame("interrupt", a, e)>> \o k

Raise(a, e, reasons, k) ==
  Enter(HandlerArgs(reasons), <<>>, <<Frame("exception", a, e)>> \o k)

\* Call p, whose environment is e, with the continuation k; the caller, whose
\* environment is from, gets the exception if p takes other arguments.
Invoke(p, e, onStack, list, k, from) ==
  IF Accepts(p, Len(onStack \o list))
  THEN Enter(Received(p, onStack, list), e, k)
  ELSE Raise(<<>>, from, <<Value(p), List(onStack \o list)>>, k)

-----------------------------------------------------------------------------
Init ==
  /\ args = <<>> /\ env = <<>> /\ conts = <<>>
  /\ closed = {} /\ caught = {}

Push(v) == args' = Append(args, v) /\ UNCHANGED <<env, conts, closed, caught>>

Local(back, slot) == Push(env[back].vals[slot])

IdsOf(e) == {e[i].id : i \in DOMAIN e}
IdsOfFrames(k) == UNION {IdsOf(k[i].env) : i \in DOMAIN k}
IdsInUse ==
  UNION ({IdsOf(env), IdsOfFrames(conts)}
         \cup {IdsOf(e) : e \in closed} \cup {IdsOfFrames(k) : k \in caught})

\* A new environment has any number that is not in use.
MakeEnv ==
  /\ env' # <<>>
  /\ Head(env').id \notin IdsInUse
  /\ env' = <<[id |-> Head(env').id, vals |-> args]>> \o env
  /\ args' = <<>>
  /\ UNCHANGED <<conts, closed, caught>>

\* An assignment reaches every holder of the environment.
Assigned(e, id, slot, v) ==
  [i \in DOMAIN e |-> IF e[i].id = id THEN [e[i] EXCEPT !.vals[slot] = v] ELSE e[i]]
AssignedInFrames(k, id, slot, v) ==
  [i \in DOMAIN k |-> [k[i] EXCEPT !.env = Assigned(@, id, slot, v)]]

SetLocal(back, slot, v) ==
  LET id == env[back].id
  IN /\ env' = Assigned(env, id, slot, v)
     /\ conts' = AssignedInFrames(conts, id, slot, v)
     /\ closed' = {Assigned(e, id, slot, v) : e \in closed}
     /\ caught' = {AssignedInFrames(k, id, slot, v) : k \in caught}
     /\ UNCHANGED args

MakeCont(kind) ==
  /\ conts' = <<Frame(kind, args, env)>> \o conts
  /\ args' = <<>>
  /\ UNCHANGED <<env, closed, caught>>

\* The consumer of call-with-values is the only thing in its frame.
Consumer(f) == f.args[1].proc

Return(v) ==
  /\ conts # <<>>
  /\ IF Head(conts).kind = "consumer"
     THEN Invoke(Consumer(Head(conts)), <<>>, <<v>>, <<>>, Tail(conts), Head(conts).env)
     ELSE args' = Head(conts).args /\ env' = Head(conts).env /\ conts' = Tail(conts)
  /\ UNCHANGED <<closed, caught>>

\* Other than one value.
ReturnValues(list) ==
  /\ LET kind == IF conts = <<>> THEN "none" ELSE Head(conts).kind
     IN CASE kind \in {"ignore", "interrupt"} ->
               args' = Head(conts).args /\ env' = Head(conts).env /\ conts' = Tail(conts)
          [] kind = "consumer" ->
               Invoke(Consumer(Head(conts)), <<>>, args, list, Tail(conts), env)
          [] OTHER ->
               Raise(<<>>, env, <<Info("false"), List(args \o list)>>, conts)
  /\ UNCHANGED <<closed, caught>>

Call(p, e, list) == Invoke(p, e, args, list, conts, env) /\ UNCHANGED <<closed, caught>>

Exception ==
  /\ Raise(args, env, ExceptionArgs, conts)
  /\ UNCHANGED <<closed, caught>>

Closure == closed' = {env} /\ caught' = {} /\ UNCHANGED <<args, env, conts>>
CurrentCont == caught' = {conts} /\ closed' = {} /\ UNCHANGED <<args, env, conts>>

WithContinuation(p, e, k) ==
  /\ Accepts(p, 0)
  /\ Invoke(p, e, <<>>, <<>>, k, env)
  /\ UNCHANGED <<closed, caught>>

\* The empty environment, or that of the closure that has been made.
Environments == {<<>>} \cup closed

Next ==
  \/ \E v \in Data : Push(Value(v)) \/ Return(Value(v))
  \/ \E back \in DOMAIN env : \E slot \in DOMAIN env[back].vals :
       \/ Local(back, slot)
       \/ \E v \in Data : SetLocal(back, slot, Value(v))
  \/ \E kind \in {"plain", "ignore", "consumer"} : MakeCont(kind)
  \/ \E list \in Lists : ReturnValues(list)
  \/ \E p \in Procs, e \in Environments :
       (\E list \in Lists : Call(p, e, list)) \/ (\E k \in caught : WithContinuation(p, e, k))
  \/ MakeEnv \/ Exception \/ Closure \/ CurrentCont

Spec == Init /\ [][Next]_absVars
=============================================================================

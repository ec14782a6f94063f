------------------------------ MODULE RemoteCalls ------------------------------
(***************************************************************************)
(* What remote-apply promises (scheme/kali/message.scm): a call returns    *)
(* the values of that very call, and nothing else ever returns it.         *)
(***************************************************************************)
EXTENDS Naturals

CONSTANTS Caller, MaxCalls

VARIABLES
  calling,   \* is the thread in remote-apply?
  n,         \* how many calls it has made
  got        \* the call whose values it got last

vars == <<calling, n, got>>

Init ==
  /\ calling = [t \in Caller |-> FALSE]
  /\ n = [t \in Caller |-> 0]
  /\ got = [t \in Caller |-> 0]

Call(t) ==
  /\ ~calling[t] /\ n[t] < MaxCalls
  /\ calling' = [calling EXCEPT ![t] = TRUE]
  /\ n' = [n EXCEPT ![t] = @ + 1]
  /\ UNCHANGED got

Return(t) ==
  /\ calling[t]
  /\ calling' = [calling EXCEPT ![t] = FALSE]
  /\ got' = [got EXCEPT ![t] = n[t]]
  /\ UNCHANGED n

Next == \E t \in Caller : Call(t) \/ Return(t)

Spec == Init /\ [][Next]_vars
================================================================================

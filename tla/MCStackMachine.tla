---------------------------- MODULE MCStackMachine ----------------------------
\* Instances of StackMachine: a procedure for each way of taking arguments, on a
\* stack with room for little more than one of them.
EXTENDS StackMachine
Protocols == [thunk |-> [kind |-> "fixed", wants |-> 0],
              one |-> [kind |-> "fixed", wants |-> 1],
              rest |-> [kind |-> "n-ary", wants |-> 1],
              spread |-> [kind |-> "args+nargs", wants |-> 1],
              arith |-> [kind |-> "dispatch", wants |-> 1],
              handler |-> [kind |-> "n-ary", wants |-> 2],
              alarm |-> [kind |-> "fixed", wants |-> 2]]
AllProcs == DOMAIN Protocols
Pushed == <<"one", "rest">>
Leavings == {4}
ArgLists == {<<>>, <<Value("one")>>}
Reasons == <<Value("one")>>
=============================================================================

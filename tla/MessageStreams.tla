---------------------------- MODULE MessageStreams ----------------------------
(***************************************************************************)
(* What sending promises (scheme/kali/connect.scm, "Actually sending       *)
(* messages"): every message is written once, and while it is being        *)
(* written no other message goes to the same address space from there.     *)
(***************************************************************************)
CONSTANTS
  Client,        \* the messages, one for each thread that sends one
  From, To       \* where a message comes from and where it goes

VARIABLE state   \* "unsent", "writing" or "sent"

Init == state = [t \in Client |-> "unsent"]

SameStream(t, u) == From[t] = From[u] /\ To[t] = To[u]

Begin(t) ==
  /\ state[t] = "unsent"
  /\ \A u \in Client : state[u] = "writing" => ~SameStream(t, u)
  /\ state' = [state EXCEPT ![t] = "writing"]

End(t) ==
  /\ state[t] = "writing"
  /\ state' = [state EXCEPT ![t] = "sent"]

Next == \E t \in Client : Begin(t) \/ End(t)

Spec == /\ Init /\ [][Next]_state
        /\ \A t \in Client : SF_state(Begin(t)) /\ WF_state(End(t))
================================================================================

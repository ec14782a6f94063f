---------------------------- MODULE MCProxyCounts ----------------------------
(* Small instances of ProxyCounts for TLC. *)
EXTENDS ProxyCounts

CONSTANTS o, a, b, FromOwner, FromA, FromB

MCSends == [x \in Aspace |-> IF x = o THEN FromOwner ELSE IF x = a THEN FromA ELSE FromB]
==============================================================================

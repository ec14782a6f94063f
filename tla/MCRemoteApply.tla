---------------------------- MODULE MCRemoteApply ----------------------------
(* Small instances of RemoteApply for TLC. *)
EXTENDS RemoteApplyProofs
==============================================================================

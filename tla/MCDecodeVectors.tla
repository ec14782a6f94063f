---------------------------- MODULE MCDecodeVectors ----------------------------
(* Small instances of DecodeVectors for TLC. *)
EXTENDS DecodeVectors, TLC

\* The objects, and the proxies, are interchangeable.
Alike == Permutations(Object) \cup Permutations(Proxy)
================================================================================

---------------------------- MODULE MCConnections ----------------------------
(* Small instances of Connections for TLC. *)
EXTENDS Connections

CONSTANTS a, b, s1, s2, s3, d1, d2, va, vb

\* a is superior to b.
MCRank == [x \in Aspace |-> IF x = a THEN 1 ELSE 2]
MCServer == [x \in Aspace |-> IF x = a THEN va ELSE vb]

\* s1, s2 and d1 send from a to b, s3 and d2 from b to a.
MCHome == [t \in Client |-> IF t \in {s3, d2} THEN b ELSE a]
MCTarget == [t \in Client |-> IF t \in {s3, d2} THEN a ELSE b]
==============================================================================

--------------------------------- MODULE Lists ---------------------------------
(***************************************************************************)
(* The list functions that the modules share, in a form that can be proved  *)
(* about.                                                                  *)
(***************************************************************************)
EXTENDS Integers, Sequences, FiniteSets

\* fold of kali/proxy-count.scm.
Fold(Step(_, _), start, xs) ==
  LET r[n \in 0 .. Len(xs)] == IF n = 0 THEN start ELSE Step(r[n - 1], xs[n])
  IN  r[Len(xs)]

\* A list of the elements of a finite set.
ListOf(S) ==
  CHOOSE xs \in [1 .. Cardinality(S) -> S] : \A x \in S : \E i \in DOMAIN xs : xs[i] = x

\* The sum of the positive values of a function: the number of its units.
Units(f) == UNION {{x} \X (1 .. f[x]) : x \in DOMAIN f}
Total(f) == Cardinality(Units(f))
================================================================================

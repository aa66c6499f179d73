---------------------------- MODULE MCExecution ----------------------------
(* Execution on a small instance: two executors, in one process or in two.  *)
EXTENDS Execution, TLC
CONSTANTS e1, e2, p1, p2
Interchangeable == Permutations(Executors) \cup Permutations(Processes)
\* States in which two excuses have come together are not explored further:
\* every property is excused by one of them.
OneExcuse == Cardinality(excuses) <= 1
=============================================================================

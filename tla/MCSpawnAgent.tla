---------------------------- MODULE MCSpawnAgent ----------------------------
(* Small instances of SpawnAgent for TLC. *)
EXTENDS SpawnAgent, TLC
CONSTANTS c1, c2, o1, o2, t1
Symmetry == Permutations({c1, c2}) \cup Permutations({o1, o2})
=============================================================================

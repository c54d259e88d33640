--------------------------- MODULE MCDeathWatch ----------------------------
(* Instances of DeathWatch: processes and ids are interchangeable.         *)
EXTENDS DeathWatch, TLC

Symmetry == Permutations(Procs) \cup Permutations(Ids)
=============================================================================

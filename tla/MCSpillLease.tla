---------------------------- MODULE MCSpillLease ----------------------------
EXTENDS SpillLease, TLC

Symmetry == Permutations(Procs) \cup Permutations(Dirs) \cup Permutations(Regular)
==============================================================================

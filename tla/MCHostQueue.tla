---------------------------- MODULE MCHostQueue ----------------------------
(* Small instances of HostQueue: two racing processes, two or three jobs.  *)
EXTENDS HostQueue, TLC

Symmetry == Permutations(Jobs) \cup Permutations(Workers)
=============================================================================

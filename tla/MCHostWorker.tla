---------------------------- MODULE MCHostWorker ----------------------------
(* Small instances of HostWorker.                                          *)
EXTENDS HostWorker, TLC

Symmetry == Permutations(Jobs) \cup Permutations(Workers)
                \cup Permutations(Children)
=============================================================================

---------------------------- MODULE MCWorkRoots -----------------------------
(* Two sessions, the bound repository and a plain directory; two service   *)
(* threads and one command line, each doing one thing at a time.           *)
EXTENDS WorkRoots, TLC

MCSymmetry == Permutations(Sessions) \cup Permutations(Threads)
=============================================================================

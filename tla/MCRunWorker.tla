---------------------------- MODULE MCRunWorker ----------------------------
(***************************************************************************)
(* RunWorker on small instances. Execution slots and attempt identifiers   *)
(* are interchangeable; runs are ordered, so they are not. Liveness is      *)
(* checked without the symmetry.                                            *)
(***************************************************************************)
EXTENDS RunWorker, TLC

Symmetry == Permutations(Execs) \cup Permutations(Attempts)
=============================================================================

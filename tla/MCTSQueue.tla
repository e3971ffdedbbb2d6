------------------------------- MODULE MCTSQueue -------------------------------
(***************************************************************************)
(* TSQueue with interchangeable threads and new nodes.                     *)
(***************************************************************************)
EXTENDS TSQueue, TLC

Symmetry == Permutations(Threads) \cup Permutations(Nodes \ {Dummy})
================================================================================

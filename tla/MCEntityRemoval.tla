------------------------------ MODULE MCEntityRemoval ------------------------------
(***************************************************************************)
(* EntityRemoval with interchangeable entities.                            *)
(***************************************************************************)
EXTENDS EntityRemoval, TLC

Symmetry == Permutations(Ents)
================================================================================

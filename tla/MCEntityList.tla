----------------------------- MODULE MCEntityList -----------------------------
(***************************************************************************)
(* EntityList on a small table.                                            *)
(***************************************************************************)
EXTENDS EntityList, TLC

Symmetry == Permutations(Entities)
=============================================================================

-------------------------- MODULE MCCoreMutations ---------------------------
(***************************************************************************)
(* Small instances of CoreMutations.                                       *)
(***************************************************************************)
EXTENDS CoreMutations, TLC

Symmetry == Permutations(Proposals) \cup Permutations(Objects)
=============================================================================

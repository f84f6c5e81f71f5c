---------------------------- MODULE MCStoryTurns ----------------------------
(***************************************************************************)
(* Small instances of StoryTurns.                                          *)
(***************************************************************************)
EXTENDS StoryRefinement, TLC

Symmetry == Permutations(Requests) \cup Permutations(Branches \ {Default})
=============================================================================

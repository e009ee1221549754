--------------------------- MODULE MCWorktreeSlots ---------------------------
(***************************************************************************)
(* WorktreeSlots with interchangeable sessions and runs.                   *)
(***************************************************************************)
EXTENDS WorktreeSlots, TLC

Symmetry == Permutations(Sessions) \cup Permutations(Runs)

=============================================================================

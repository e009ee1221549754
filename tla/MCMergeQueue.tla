---------------------------- MODULE MCMergeQueue ----------------------------
(* MergeQueue for TLC.                                                     *)
EXTENDS MergeQueue

\* The two sessions touch the same lines, and the user and session 1 do.
Clashes == {{1, 2}, {0, 1}}
=============================================================================

------------------------- MODULE MCSessionLifecycle -------------------------
(* SessionLifecycle on a small instance; runners, operators and sessions are *)
(* interchangeable, so TLC may identify their permutations.                  *)
EXTENDS SessionLifecycle, TLC

Symmetry == Permutations(Sessions) \cup Permutations(Runners) \cup Permutations(Operators)

=============================================================================

-------------------------- MODULE MCHandoffRouting --------------------------
(***************************************************************************)
(* HandoffRouting with interchangeable routers, leads, and new sessions.   *)
(***************************************************************************)
EXTENDS HandoffRouting, TLC

Nothing == {<<>>}

Symmetry ==
  Permutations(Leads) \cup Permutations(Sessions \ Leads) \cup Permutations(Routers)

=============================================================================

------------------------ MODULE MCDaemonCoordination ------------------------
(***************************************************************************)
(* Histories from which a daemon starts.                                   *)
(***************************************************************************)
EXTENDS DaemonCoordination, TLC

CONSTANTS l1, l2, l3

Unread(from, to) == [from |-> from, to |-> to, via |-> 0, read |-> "unread"]

Nothing == {<<>>}

\* The team of l2 is full and busy, and l2 is a crowded delegate of l1.
Saturated ==
  {<<Unread(l2, l1), Unread(l2, l3), Unread(l1, l2), Unread(l3, l2)>>}

Symmetry == Permutations(Sessions \ Leads)

=============================================================================

--------------------------- MODULE SessionStates ---------------------------
(***************************************************************************)
(* The states of an ECC2 session and the transition table that             *)
(* StateStore::update_state consults before it writes one.                 *)
(***************************************************************************)

SessionState ==
  {"Pending", "Running", "Idle", "Stale", "Completed", "Failed", "Stopped"}

\* A row of table `sessions`, before it is inserted and after it is deleted.
RowState == SessionState \cup {"NotCreated", "Deleted"}

\* SessionState::can_transition_to, row by row.
Successors(from) ==
  CASE from = "Pending"   -> {"Running", "Failed", "Stopped"}
    [] from = "Running"   -> {"Idle", "Stale", "Completed", "Failed", "Stopped"}
    [] from = "Idle"      -> {"Running", "Stale", "Completed", "Failed", "Stopped"}
    [] from = "Stale"     -> {"Running", "Idle", "Completed", "Failed", "Stopped"}
    [] from = "Completed" -> {"Stopped"}
    [] from = "Failed"    -> {"Stopped"}
    [] OTHER              -> {}

CanTransition(from, to) == from = to \/ to \in Successors(from)

=============================================================================

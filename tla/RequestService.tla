--------------------------- MODULE RequestService ---------------------------
(***************************************************************************)
(* What the remote dispatch promises to the one who makes a request: it    *)
(* is started once and then reported as dispatched, or it is refused       *)
(* without anything having been started.  A request that is cut short, or  *)
(* that two dispatchers take up, is lost to that promise for good.         *)
(***************************************************************************)
CONSTANT Requests

VARIABLE phase \* how far each request has come

Phases == {"unmade", "open", "started", "done", "refused", "lost"}

Init == phase = [r \in Requests |-> "unmade"]

Comes(r, from, to) ==
  /\ phase[r] = from
  /\ phase' = [phase EXCEPT ![r] = to]

Make(r) == Comes(r, "unmade", "open")
Start(r) == Comes(r, "open", "started")
Finish(r) == Comes(r, "started", "done")
Refuse(r) == Comes(r, "open", "refused")

\* One that is answered, or that nobody has made, is not lost.
Lose(R) ==
  /\ \A r \in R : phase[r] \in {"open", "started"}
  /\ phase' = [r \in Requests |-> IF r \in R THEN "lost" ELSE phase[r]]

Next ==
  \/ \E r \in Requests : Make(r) \/ Start(r) \/ Finish(r) \/ Refuse(r)
  \/ \E R \in SUBSET Requests : Lose(R)

Spec == Init /\ [][Next]_phase
=============================================================================

------------------------- MODULE DaemonCoordination -------------------------
(***************************************************************************)
(* The daemon's coordination cycle (coordinate_backlog_cycle) around the   *)
(* passes of HandoffRouting.  What the last passes reported is kept in the *)
(* row daemon_activity, and decides the order of the next cycle: dispatch  *)
(* first, or rebalance first while handoffs were deferred and not yet      *)
(* recovered, or, in a cool-off, no dispatch unless rebalancing helped.    *)
(* auto_dispatch_unread_handoffs is on.                                    *)
(***************************************************************************)
EXTENDS HandoffRouting

CONSTANTS
  Daemon,    \* the router that runs cycles
  StreakCap  \* bound: the streak is counted up to here

ASSUME DaemonAssumption ==
  /\ Daemon \in Routers
  /\ StreakCap \in Nat /\ StreakCap >= 3

VARIABLES
  activity,  \* what the predicates read of row daemon_activity
  cycle      \* where the daemon is in its cycle, with what it has read

vars == <<life, mail, router, activity, cycle>>

\* order: how last_dispatch_at and last_recovery_dispatch_at compare, that is
\* whether a dispatch was recorded, and whether a recovery was after or before.
Activity ==
  [deferred : Nat, streak : 0..StreakCap,
   order : {"never", "dispatched", "recovered", "redispatched"}]

Cycle ==
  [stage : {"rest", "relieve", "relieved", "first", "after", "retry", "recover"},
   cooloff : BOOLEAN, stable : BOOLEAN, deferred : Nat]

CoordinationTypeOK ==
  /\ TypeOK
  /\ activity \in Activity
  /\ cycle \in Cycle

\* DaemonActivity's predicates.
PrefersRebalanceFirst ==
  activity.deferred # 0 /\ activity.order \in {"dispatched", "redispatched"}

DispatchCooloffActive ==
  PrefersRebalanceFirst /\ (activity.deferred >= 2 \/ activity.streak >= 3)

StabilizedAfterRecovery ==
  activity.deferred = 0 /\ activity.order = "redispatched"

Resting ==
  [stage |-> "rest", cooloff |-> FALSE, stable |-> FALSE, deferred |-> 0]

CoordinationInit ==
  /\ RoutingInit
  /\ activity = [deferred |-> 0, streak |-> 0, order |-> "never"]
  /\ cycle = Resting

-----------------------------------------------------------------------------
(* The cycle.                                                              *)

BeginCycle ==
  /\ cycle.stage = "rest"
  /\ BeginPass(Daemon, IF PrefersRebalanceFirst THEN "rebalance" ELSE "dispatch")
  /\ cycle' = [stage |-> IF PrefersRebalanceFirst THEN "relieve" ELSE "first",
               cooloff |-> DispatchCooloffActive,
               stable |-> StabilizedAfterRecovery, deferred |-> 0]
  /\ UNCHANGED activity

PassOver(stage) == cycle.stage = stage /\ At(Daemon, "idle")

Rest == cycle' = Resting /\ UNCHANGED routingVars

Continue(stage, pass) ==
  /\ BeginPass(Daemon, pass)
  /\ cycle' = [cycle EXCEPT !.stage = stage, !.deferred = router[Daemon].deferred]

\* record_daemon_dispatch_pass
RecordDispatch ==
  LET deferred == router[Daemon].deferred
  IN  activity' =
        [deferred |-> deferred,
         streak |-> IF deferred = 0 THEN 0
                   ELSE IF activity.streak < StreakCap THEN activity.streak + 1
                   ELSE StreakCap,
         order |-> IF activity.order \in {"recovered", "redispatched"}
                   THEN "redispatched" ELSE "dispatched"]

\* Rebalance first: in a cool-off dispatching waits for a handoff to be moved.
AfterRelief ==
  /\ PassOver("relieve")
  /\ IF cycle.cooloff /\ router[Daemon].done = 0
     THEN Rest
     ELSE Continue("relieved", "dispatch")
  /\ UNCHANGED activity

AfterFirstDispatch ==
  /\ PassOver("first")
  /\ RecordDispatch
  /\ IF cycle.stable /\ router[Daemon].deferred = 0
     THEN Rest
     ELSE Continue("after", "rebalance")

AfterRebalance ==
  /\ PassOver("after")
  /\ IF cycle.deferred > 0 /\ router[Daemon].done > 0
     THEN Continue("retry", "dispatch")
     ELSE Rest
  /\ UNCHANGED activity

\* The dispatch after a rebalance.
AfterLastDispatch ==
  /\ PassOver("relieved") \/ PassOver("retry")
  /\ RecordDispatch
  /\ IF router[Daemon].done > 0
     THEN cycle' = [cycle EXCEPT !.stage = "recover"] /\ UNCHANGED routingVars
     ELSE Rest

\* Mutant of RecordRecovery: the streak goes on.
RecordRecoveryOnly ==
  /\ cycle.stage = "recover"
  /\ activity' = [activity EXCEPT !.order = "recovered"]
  /\ Rest

\* record_daemon_recovery_dispatch_pass
RecordRecovery ==
  /\ cycle.stage = "recover"
  /\ activity' = [activity EXCEPT !.streak = 0, !.order = "recovered"]
  /\ Rest

\* The error of a pass ends the cycle; the daemon logs it and goes on.
CycleFails ==
  /\ GiveUp(Daemon)
  /\ cycle' = Resting
  /\ UNCHANGED activity

DaemonStep ==
  \/ BeginCycle \/ AfterRelief \/ AfterFirstDispatch \/ AfterRebalance
  \/ AfterLastDispatch \/ RecordRecovery
  \/ RouterStep(Daemon) /\ UNCHANGED <<activity, cycle>>

Elsewhere ==
  /\ \/ Others
     \/ \E p \in Routers \ {Daemon} :
          \/ \E pass \in Passes : BeginPass(p, pass)
          \/ RouterStep(p)
          \/ GiveUp(p)
  /\ UNCHANGED <<activity, cycle>>

Next == DaemonStep \/ CycleFails \/ Elsewhere

Spec == CoordinationInit /\ [][Next]_vars

\* daemon.rs runs the cycle in an endless loop, and every await in it returns.
FairSpec == Spec /\ WF_vars(DaemonStep \/ CycleFails)

-----------------------------------------------------------------------------
(* Properties.                                                             *)

\* The two ways in which the status screens tell saturation agree: rebalancing
\* comes first, by the times in the row, exactly while the streak is positive.
ModeMatchesStreak == PrefersRebalanceFirst <=> activity.streak > 0

\* A cycle ends however many handoffs it defers, routes or moves, and whatever
\* others send or read meanwhile.
CyclesEnd == []<>(cycle.stage = "rest")

\* A cool-off skips an immediate retry: it does not go on for ever over a lead
\* that has handoffs and a team with room for them.
CooloffEndsWhenRoom ==
  \A l \in Leads :
    (DispatchCooloffActive /\ Backlog(l) # {} /\ HasRoom(l))
      ~> (~DispatchCooloffActive \/ Backlog(l) = {} \/ ~HasRoom(l))

=============================================================================

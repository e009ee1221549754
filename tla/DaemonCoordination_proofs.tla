---------------------- MODULE DaemonCoordination_proofs ----------------------
(***************************************************************************)
(* Proofs about DaemonCoordination, for any choice of the constants.       *)
(***************************************************************************)
EXTENDS DaemonCoordination, HandoffRouting_proofs

\* What a step of the coordination does to routers, sessions and handoffs is a
\* step of a router or of others.
LEMMA RoutesOrRests == [Next]_vars => [AnyStep]_routingVars
<1> SUFFICES ASSUME Next PROVE AnyStep \/ UNCHANGED routingVars
  BY DEF vars, routingVars
<1> USE DaemonAssumption
<1>1. ASSUME NEW pass \in {"dispatch", "rebalance"}, BeginPass(Daemon, pass) PROVE AnyStep
  BY <1>1 DEF AnyStep
<1>2. CASE BeginCycle
  BY <1>1, <1>2 DEF BeginCycle
<1>3. CASE AfterRelief
  BY <1>1, <1>3 DEF AfterRelief, Rest, Continue
<1>4. CASE AfterFirstDispatch
  BY <1>1, <1>4 DEF AfterFirstDispatch, Rest, Continue
<1>5. CASE AfterRebalance
  BY <1>1, <1>5 DEF AfterRebalance, Rest, Continue
<1>6. CASE AfterLastDispatch
  BY <1>6 DEF AfterLastDispatch, Rest
<1>7. CASE RecordRecovery
  BY <1>7 DEF RecordRecovery, Rest
<1>8. CASE RouterStep(Daemon)
  BY <1>8 DEF AnyStep
<1>9. CASE CycleFails
  BY <1>9 DEF CycleFails, AnyStep
<1>10. CASE Elsewhere
  BY <1>10, RoutingAssumption DEF Elsewhere, AnyStep
<1> QED BY <1>2, <1>3, <1>4, <1>5, <1>6, <1>7, <1>8, <1>9, <1>10 DEF Next, DaemonStep

(***************************************************************************)
(* Typing.                                                                 *)
(***************************************************************************)

CycleTyped == activity \in Activity /\ cycle \in Cycle

\* What a pass of the daemon reports is a number.
LEMMA ReportTyped ==
  ASSUME Typed
  PROVE  router[Daemon].deferred \in Nat
BY DaemonAssumption DEF Typed, TypeOK, Router

LEMMA RecordTyped ==
  ASSUME Typed, activity \in Activity, RecordDispatch
  PROVE  activity' \in Activity
<1> DEFINE streak == IF router[Daemon].deferred = 0 THEN 0
                     ELSE IF activity.streak < StreakCap THEN activity.streak + 1
                     ELSE StreakCap
<1>1. streak \in 0..StreakCap
  BY DaemonAssumption, ReportTyped DEF Activity
<1> HIDE DEF streak
<1>2. activity' = [deferred |-> router[Daemon].deferred, streak |-> streak,
                   order |-> IF activity.order \in {"recovered", "redispatched"}
                             THEN "redispatched" ELSE "dispatched"]
  BY DEF RecordDispatch, streak
<1> QED BY <1>1, <1>2, ReportTyped DEF Activity

LEMMA RestTyped == Resting \in Cycle
BY DEF Resting, Cycle

LEMMA ContinueTyped ==
  ASSUME Typed, cycle \in Cycle, NEW stage \in {"relieved", "after", "retry"}, NEW pass,
         Continue(stage, pass)
  PROVE  cycle' \in Cycle
BY ReportTyped DEF Continue, Cycle

LEMMA CycleStepTyped == Typed /\ CycleTyped /\ [Next]_vars => CycleTyped'
<1> SUFFICES ASSUME Typed, CycleTyped, [Next]_vars PROVE CycleTyped'
  OBVIOUS
<1> USE RestTyped, ContinueTyped, RecordTyped DEF CycleTyped
<1>1. CASE BeginCycle
  <2>1. PrefersRebalanceFirst \in BOOLEAN /\ DispatchCooloffActive \in BOOLEAN
        /\ StabilizedAfterRecovery \in BOOLEAN
    BY DEF PrefersRebalanceFirst, DispatchCooloffActive, StabilizedAfterRecovery
  <2> QED BY <1>1, <2>1 DEF BeginCycle, Cycle
<1>2. CASE AfterRelief
  BY <1>2 DEF AfterRelief, Rest
<1>3. CASE AfterFirstDispatch
  BY <1>3 DEF AfterFirstDispatch, Rest
<1>4. CASE AfterRebalance
  BY <1>4 DEF AfterRebalance, Rest
<1>5. CASE AfterLastDispatch
  <2>1. [cycle EXCEPT !.stage = "recover"] \in Cycle
    BY DEF Cycle
  <2> QED BY <1>5, <2>1 DEF AfterLastDispatch, Rest
<1>6. CASE RecordRecovery
  <2>1. [activity EXCEPT !.streak = 0, !.order = "recovered"] \in Activity
    <3>1. 0 \in 0..StreakCap
      BY DaemonAssumption
    <3>2. activity \in Activity
      BY DEF CycleTyped
    <3> QED BY <3>1, <3>2 DEF Activity
  <2> QED BY <1>6, <2>1 DEF RecordRecovery, Rest
<1>7. CASE CycleFails
  BY <1>7 DEF CycleFails
<1>8. CASE UNCHANGED <<activity, cycle>>
  BY <1>8
<1> QED BY <1>1, <1>2, <1>3, <1>4, <1>5, <1>6, <1>7, <1>8 DEF Next, DaemonStep, Elsewhere, vars

LEMMA CycleInitTyped == CoordinationInit => Typed /\ CycleTyped
BY TypedInit, RestTyped, DaemonAssumption DEF CoordinationInit, CycleTyped, Activity

LEMMA CoordinationTyped == Spec => [](Typed /\ CycleTyped)
BY CycleInitTyped, CycleStepTyped, StepTyped, RoutesOrRests, PTL DEF Spec

\* CoordinationTypeOK for every instance: the daemon's cycle never uses a router
\* in a place it is not in, and its counters stay counters.
THEOREM CoordinationTypeCorrect == Spec => []CoordinationTypeOK
<1>1. Typed /\ CycleTyped => CoordinationTypeOK
  BY DEF Typed, CycleTyped, CoordinationTypeOK
<1> QED BY <1>1, CoordinationTyped, PTL

(***************************************************************************)
(* The daemon among the routers.                                           *)
(***************************************************************************)

\* The coordinating daemon is one of the routers: where routers may run both
\* passes, every behaviour of the coordination is a behaviour of HandoffRouting.
THEOREM CoordinationImplementsRouting ==
  ASSUME Passes = {"dispatch", "rebalance"}
  PROVE  Spec => RoutingSpec
<1>1. CoordinationInit => RoutingInit
  BY DEF CoordinationInit
<1>2. AnyStep => RoutingNext
  BY DEF AnyStep, RoutingNext
<1>3. [Next]_vars => [RoutingNext]_routingVars
  BY <1>2, RoutesOrRests
<1> QED BY <1>1, <1>3, PTL DEF Spec, RoutingSpec

\* Dispatching loses nothing under the daemon's cycle either, whichever passes
\* the other routers run.
THEOREM CoordinationDispatchSafe == Spec => []DispatchLosesNothing
<1>1. CoordinationInit => DispatchInv
  BY DispatchInit DEF CoordinationInit
<1>2. Typed /\ DispatchInv /\ [Next]_vars => DispatchInv'
  BY DispatchStep, RoutesOrRests
<1>3. DispatchInv => DispatchLosesNothing
  BY DEF DispatchInv
<1> QED BY <1>1, <1>2, <1>3, CoordinationTyped, PTL DEF Spec

(***************************************************************************)
(* The daemon as the only router.                                          *)
(***************************************************************************)

DaemonAlone == Routers = {Daemon} /\ ~MayCrash

LEMMA AloneOnce ==
  ASSUME DaemonAlone
  PROVE  Spec => []OnceInv(Daemon)
<1>1. Routers = {Daemon} /\ ~MayCrash
  BY DEF DaemonAlone
<1>2. CoordinationInit => OnceInv(Daemon)
  BY InitOnce, DaemonAssumption DEF CoordinationInit
<1>3. Typed /\ OnceInv(Daemon) /\ [Next]_vars => OnceInv(Daemon)'
  BY <1>1, OnceStep, RoutesOrRests
<1> QED BY <1>2, <1>3, CoordinationTyped, PTL DEF Spec

\* RoutedOnce for every instance in which the daemon alone runs passes and does
\* not die: no handoff is passed on twice, neither by two passes of a cycle nor
\* after a pass that failed halfway, whatever users and sessions do meanwhile.
THEOREM HandoffsRoutedOnce ==
  ASSUME DaemonAlone
  PROVE  Spec => []RoutedOnce
<1>1. OnceInv(Daemon) => RoutedOnce
  BY DEF OnceInv
<1> QED BY <1>1, AloneOnce, PTL

\* RebalanceStaysInTeam under the same conditions: what rebalancing moves is sent
\* again by the lead that sent it, and to somebody else.
THEOREM MovedWithinTeam ==
  ASSUME DaemonAlone
  PROVE  Spec => []RebalanceStaysInTeam
<1>1. OnceInv(Daemon) => RebalanceStaysInTeam
  BY DEF OnceInv
<1> QED BY <1>1, AloneOnce, PTL

(***************************************************************************)
(* The daemon's mode.  ModeMatchesStreak is inductive on its own: the two  *)
(* statements that write the row write the times and the streak together.  *)
(***************************************************************************)

LEMMA ModeKept == UNCHANGED activity /\ ModeMatchesStreak => ModeMatchesStreak'
BY DEF ModeMatchesStreak, PrefersRebalanceFirst

LEMMA ModeAfterDispatch ==
  ASSUME Typed, CycleTyped, RecordDispatch
  PROVE  ModeMatchesStreak'
<1> DEFINE d == router[Daemon].deferred
<1>1. d \in Nat /\ activity.streak \in 0..StreakCap
  BY ReportTyped DEF CycleTyped, Activity
<1>2. /\ activity'.deferred = d
      /\ activity'.order \in {"dispatched", "redispatched"}
      /\ activity'.streak = IF d = 0 THEN 0
                            ELSE IF activity.streak < StreakCap THEN activity.streak + 1
                            ELSE StreakCap
  BY DEF RecordDispatch
<1>3. activity'.streak > 0 <=> d # 0
  BY <1>1, <1>2, DaemonAssumption
<1> QED BY <1>2, <1>3 DEF ModeMatchesStreak, PrefersRebalanceFirst

\* ModeMatchesStreak for every instance and every history of the daemon.
THEOREM ModeSafe == Spec => []ModeMatchesStreak
<1>1. CoordinationInit => ModeMatchesStreak
  BY DEF CoordinationInit, ModeMatchesStreak, PrefersRebalanceFirst
<1>2. Typed /\ CycleTyped /\ ModeMatchesStreak /\ [Next]_vars => ModeMatchesStreak'
  <2> SUFFICES ASSUME Typed, CycleTyped, ModeMatchesStreak, [Next]_vars
               PROVE  ModeMatchesStreak'
    OBVIOUS
  <2>1. CASE AfterFirstDispatch
    BY <2>1, ModeAfterDispatch DEF AfterFirstDispatch
  <2>2. CASE AfterLastDispatch
    BY <2>2, ModeAfterDispatch DEF AfterLastDispatch
  <2>3. CASE RecordRecovery
    <3>1. activity'.order = "recovered" /\ activity'.streak = 0
      BY <2>3 DEF RecordRecovery, CycleTyped, Activity
    <3> QED BY <3>1 DEF ModeMatchesStreak, PrefersRebalanceFirst
  <2>4. CASE UNCHANGED activity
    BY <2>4, ModeKept
  <2> QED BY <2>1, <2>2, <2>3, <2>4
          DEF Next, DaemonStep, BeginCycle, AfterRelief, AfterRebalance, CycleFails, Elsewhere,
              vars
<1> QED BY <1>1, <1>2, CoordinationTyped, PTL DEF Spec

=============================================================================

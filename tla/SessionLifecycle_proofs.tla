----------------------- MODULE SessionLifecycle_proofs -----------------------
(***************************************************************************)
(* Proofs about SessionLifecycle, for any number of sessions, runners and  *)
(* operators and any choice of the other constants.                        *)
(***************************************************************************)
EXTENDS SessionLifecycle, TLAPS

(***************************************************************************)
(* Typing.                                                                 *)
(***************************************************************************)

\* The three ways a statement writes a row keep its columns typed.
LEMMA WritesTyped ==
  ASSUME TypeOK, NEW s \in Sessions, NEW to \in SessionState,
         NEW p \in Runners \cup {NoPid},
         WriteState(s, to) \/ WritePid(s, p) \/ WriteStateClearPid(s, to)
  PROVE  /\ state' \in [Sessions -> RowState]
         /\ pid'   \in [Sessions -> Runners \cup {NoPid}]
         /\ fresh' \in [Sessions -> BOOLEAN]
BY DEF TypeOK, RowState, WriteState, WritePid, WriteStateClearPid

\* The state a runner asks for is one of the enumeration's.
LEMMA WantedTyped == \A r \in Runners : Wanted(r) \in SessionState
BY DEF Wanted, FinalState, SessionState

\* A runner past its start was started for a session.
StartedForSession == \A r \in Runners : rpc[r] # "unused" => rsess[r] \in Sessions

\* An operator that is doing something does it to a session.
BusyWithSession == \A o \in Operators : op[o].pc # "idle" => op[o].sess \in Sessions

Typed == TypeOK /\ StartedForSession /\ BusyWithSession

LEMMA TypedInit == Init => Typed
BY ConstantsAssumption
   DEF Init, Typed, TypeOK, StartedForSession, BusyWithSession, RowState, SessionState,
       RunnerPC, AgentStatus, Operation, OpPC, NoOperation

\* Operators other than the one that moves keep their record.
LEMMA OpTyped ==
  ASSUME TypeOK, BusyWithSession, NEW o \in Operators
  PROVE  /\ OpDone(o) => op' \in [Operators -> Operation] /\ BusyWithSession'
         /\ \A pc \in OpPC : OpGoto(o, pc) /\ op[o].pc # "idle"
              => op' \in [Operators -> Operation] /\ BusyWithSession'
         /\ \A s \in Sessions, pc \in OpPC, to \in {"Failed", "Stopped", "Stale"} :
              OpBegin(o, s, pc, to) => op' \in [Operators -> Operation] /\ BusyWithSession'
<1>1. OpDone(o) => op' \in [Operators -> Operation] /\ BusyWithSession'
  BY DEF TypeOK, BusyWithSession, OpDone, NoOperation, Operation, OpPC
<1>2. ASSUME NEW pc \in OpPC, OpGoto(o, pc), op[o].pc # "idle"
      PROVE  op' \in [Operators -> Operation] /\ BusyWithSession'
  BY <1>2 DEF TypeOK, BusyWithSession, OpGoto, Operation
<1>3. ASSUME NEW s \in Sessions, NEW pc \in OpPC, NEW to \in {"Failed", "Stopped", "Stale"},
             OpBegin(o, s, pc, to)
      PROVE  op' \in [Operators -> Operation] /\ BusyWithSession'
  BY <1>3 DEF TypeOK, BusyWithSession, OpBegin, Operation
<1> QED BY <1>1, <1>2, <1>3

LEMMA GotoTyped ==
  ASSUME TypeOK, StartedForSession, NEW r \in Runners, NEW pc \in RunnerPC,
         rpc[r] # "unused", Goto(r, pc)
  PROVE  /\ rpc' \in [Runners -> RunnerPC]
         /\ rsess' \in [Runners -> Sessions \cup {NoSession}]
         /\ down' \subseteq Runners
         /\ StartedForSession'
BY DEF TypeOK, StartedForSession, Goto

LEMMA RunnerTyped ==
  ASSUME Typed, NEW r \in Runners, RunnerStep(r) \/ AgentExit(r) \/ RunnerCrash(r)
  PROVE  Typed'
<1> USE DEF Typed
<1>1. CASE Launch(r)
  BY <1>1, GotoTyped DEF Launch, At, TypeOK, BusyWithSession, rowVars, RunnerPC
<1>2. CASE SpawnAgent(r)
  <2>1. agent' \in [Runners -> AgentStatus]
    BY <1>2 DEF SpawnAgent, TypeOK, AgentStatus
  <2> QED BY <1>2, <2>1, GotoTyped
          DEF SpawnAgent, At, TypeOK, BusyWithSession, rowVars, RunnerPC
<1>3. CASE RecordPid(r)
  <2>1. rsess[r] \in Sessions BY <1>3 DEF RecordPid, At, StartedForSession
  <2>2. \/ WritePid(rsess[r], r) /\ Goto(r, "selRunning")
        \/ Goto(r, "failPid") /\ UNCHANGED rowVars
    BY <1>3 DEF RecordPid
  <2>3. rpc[r] # "unused" BY <1>3 DEF RecordPid, At
  <2>4. state' \in [Sessions -> RowState] /\ pid' \in [Sessions -> Runners \cup {NoPid}]
        /\ fresh' \in [Sessions -> BOOLEAN]
    BY <2>1, <2>2 DEF WritePid, rowVars, TypeOK
  <2> QED BY <1>3, <2>2, <2>3, <2>4, GotoTyped
          DEF RecordPid, TypeOK, BusyWithSession, RunnerPC
<1>4. CASE RunnerSelect(r)
  BY <1>4, GotoTyped DEF RunnerSelect, At, TypeOK, BusyWithSession, rowVars, RunnerPC
<1>5. CASE RunnerUpdate(r)
  <2>1. rsess[r] \in Sessions BY <1>5 DEF RunnerUpdate, At, StartedForSession
  <2>2. /\ rpc[r] # "unused"
        /\ \/ WriteState(rsess[r], Wanted(r)) \/ UNCHANGED rowVars
        /\ \E pc \in RunnerPC : Goto(r, pc)
    BY <1>5 DEF RunnerUpdate, At, RunnerPC
  <2>3. state' \in [Sessions -> RowState] /\ pid' \in [Sessions -> Runners \cup {NoPid}]
        /\ fresh' \in [Sessions -> BOOLEAN]
    <3>1. Wanted(r) \in RowState BY WantedTyped DEF RowState
    <3> QED BY <2>1, <2>2, <3>1 DEF WriteState, rowVars, TypeOK
  <2> QED BY <1>5, <2>2, <2>3, GotoTyped DEF RunnerUpdate, TypeOK, BusyWithSession
<1>6. CASE Beat(r)
  <2>1. rsess[r] \in Sessions BY <1>6 DEF Beat, At, StartedForSession
  <2>2. rpc[r] # "unused" /\ \E pc \in RunnerPC : Goto(r, pc)
    BY <1>6 DEF Beat, At, RunnerPC
  <2>3. fresh' \in [Sessions -> BOOLEAN] BY <1>6, <2>1 DEF Beat, TypeOK
  <2> QED BY <1>6, <2>2, <2>3, GotoTyped DEF Beat, TypeOK, BusyWithSession
<1>7. CASE Reap(r)
  BY <1>7, GotoTyped DEF Reap, At, TypeOK, BusyWithSession, rowVars, RunnerPC
<1>8. CASE ClearPid(r)
  <2>1. rsess[r] \in Sessions BY <1>8 DEF ClearPid, At, StartedForSession
  <2>2. /\ rpc[r] # "unused"
        /\ \/ WritePid(rsess[r], NoPid) \/ UNCHANGED rowVars
        /\ \E pc \in RunnerPC : Goto(r, pc)
    BY <1>8 DEF ClearPid, At, RunnerPC
  <2>3. state' \in [Sessions -> RowState] /\ pid' \in [Sessions -> Runners \cup {NoPid}]
        /\ fresh' \in [Sessions -> BOOLEAN]
    BY <2>1, <2>2 DEF WritePid, rowVars, TypeOK
  <2> QED BY <1>8, <2>2, <2>3, GotoTyped DEF ClearPid, TypeOK, BusyWithSession
<1>9. CASE AgentExit(r)
  BY <1>9 DEF AgentExit, TypeOK, StartedForSession, BusyWithSession, rowVars, runnerVars,
              AgentStatus
<1>10. CASE RunnerCrash(r)
  BY <1>10 DEF RunnerCrash, TypeOK, StartedForSession, BusyWithSession, rowVars
<1> QED BY <1>1, <1>2, <1>3, <1>4, <1>5, <1>6, <1>7, <1>8, <1>9, <1>10 DEF RunnerStep

LEMMA OperatorTyped ==
  ASSUME Typed, NEW o \in Operators, OpBegins(o) \/ OpStep(o) \/ OpCrash(o)
  PROVE  Typed'
<1> USE DEF Typed
<1> DEFINE RowsTyped == /\ state' \in [Sessions -> RowState]
                        /\ pid'   \in [Sessions -> Runners \cup {NoPid}]
                        /\ fresh' \in [Sessions -> BOOLEAN]
           OpsTyped == op' \in [Operators -> Operation] /\ BusyWithSession'
<1>1. ASSUME UNCHANGED runnerVars, agent' \in [Runners -> AgentStatus], RowsTyped, OpsTyped
      PROVE  Typed'
  BY <1>1 DEF TypeOK, StartedForSession, runnerVars
<1>2. UNCHANGED rowVars => RowsTyped
  BY DEF rowVars, TypeOK
<1>3. op[o].pc # "idle" => op[o].sess \in Sessions
  BY DEF BusyWithSession
<1>4. \A s \in Sessions, pc \in OpPC, to \in {"Failed", "Stopped", "Stale"} :
        OpBegin(o, s, pc, to) => OpsTyped
  BY OpTyped
<1>5. OpDone(o) => OpsTyped
  BY OpTyped
<1>6. \A pc \in OpPC : OpGoto(o, pc) /\ op[o].pc # "idle" => OpsTyped
  BY OpTyped
<1>7. agent \in [Runners -> AgentStatus]
  BY DEF TypeOK
<1>8. /\ \A s \in Sessions, to \in SessionState :
           WriteState(s, to) \/ WriteStateClearPid(s, to) => RowsTyped
      /\ \A s \in Sessions : WritePid(s, NoPid) => RowsTyped
  BY WritesTyped DEF SessionState
<1>9. {"Pending", "Failed", "Stopped", "Stale"} \subseteq SessionState
  BY DEF SessionState
<1> HIDE DEF RowsTyped, OpsTyped, Typed
<1>10. ASSUME NEW s \in Sessions, BeginQueue(o, s) PROVE Typed'
  BY <1>10, <1>1, <1>4, <1>7, <1>8, <1>9 DEF BeginQueue, OpPC
<1>11. ASSUME NEW s \in Sessions, BeginResume(o, s) PROVE Typed'
  BY <1>11, <1>1, <1>2, <1>4, <1>7 DEF BeginResume, OpPC
<1>12. ASSUME NEW s \in Sessions, BeginStop(o, s) PROVE Typed'
  BY <1>12, <1>1, <1>2, <1>4, <1>7 DEF BeginStop, OpPC
<1>13. ASSUME NEW s \in Sessions, BeginSweep(o, s) PROVE Typed'
  BY <1>13, <1>1, <1>2, <1>4, <1>7 DEF BeginSweep, OpPC
<1>14. ASSUME NEW s \in Sessions, BeginRecover(o, s) PROVE Typed'
  BY <1>14, <1>1, <1>2, <1>4, <1>7 DEF BeginRecover, OpPC
<1>15. ASSUME NEW s \in Sessions, BeginDelete(o, s) PROVE Typed'
  BY <1>15, <1>1, <1>2, <1>4, <1>7 DEF BeginDelete, OpPC
<1>20. CASE SpawnRunner(o)
  <2>1. op[o].pc # "idle" /\ UNCHANGED <<rowVars, agent>> BY <1>20 DEF SpawnRunner
  <2>2. OpsTyped BY <1>20, <1>5, <1>6, <2>1 DEF SpawnRunner, OpPC
  <2>3. CASE UNCHANGED runnerVars BY <2>1, <2>2, <2>3, <1>1, <1>2, <1>7
  <2>4. ASSUME NEW r \in Runners, rpc[r] = "unused",
               rpc' = [rpc EXCEPT ![r] = "launch"],
               rsess' = [rsess EXCEPT ![r] = op[o].sess], UNCHANGED down
        PROVE  Typed'
    <3>1. op[o].sess \in Sessions BY <2>1, <1>3
    <3> QED BY <2>1, <2>2, <2>4, <3>1, <1>2
            DEF Typed, TypeOK, StartedForSession, RunnerPC, RowsTyped, OpsTyped
  <2> QED BY <1>20, <2>3, <2>4 DEF SpawnRunner
<1>21. CASE ResetToPending(o)
  BY <1>21, <1>1, <1>2, <1>3, <1>5, <1>6, <1>7, <1>8, <1>9 DEF ResetToPending, OpPC
<1>22. CASE Kill(o)
  <2>1. agent' \in [Runners -> AgentStatus]
    BY <1>22, <1>7 DEF Kill, AgentStatus
  <2>2. op[o].pc # "idle" /\ UNCHANGED <<rowVars, runnerVars>> BY <1>22 DEF Kill
  <2>3. OpsTyped BY <1>22, <1>6, <2>2 DEF Kill, OpPC
  <2> QED BY <2>1, <2>2, <2>3, <1>1, <1>2
<1>23. CASE StopClearPid(o)
  BY <1>23, <1>1, <1>2, <1>3, <1>5, <1>6, <1>7, <1>8 DEF StopClearPid, OpPC
<1>24. CASE OpSelect(o)
  BY <1>24, <1>1, <1>2, <1>5, <1>6, <1>7 DEF OpSelect, OpPC
<1>25. CASE OpUpdate(o)
  <2>1. op[o].to \in SessionState
    BY <1>9 DEF Typed, TypeOK, Operation
  <2> QED BY <1>25, <2>1, <1>1, <1>2, <1>3, <1>5, <1>7, <1>8 DEF OpUpdate
<1>26. CASE Probe(o)
  BY <1>26, <1>1, <1>2, <1>5, <1>6, <1>7 DEF Probe, OpPC
<1>27. CASE FailNow(o)
  BY <1>27, <1>1, <1>2, <1>3, <1>5, <1>7, <1>8, <1>9 DEF FailNow
<1>28. CASE DeleteRow(o)
  <2>1. RowsTyped
    BY <1>28, <1>2 DEF DeleteRow, Typed, TypeOK, RowState, RowsTyped
  <2> QED BY <1>28, <2>1, <1>1, <1>5, <1>7 DEF DeleteRow
<1>29. CASE OpCrash(o)
  BY <1>29, <1>1, <1>2, <1>5, <1>7 DEF OpCrash
<1> QED BY <1>10, <1>11, <1>12, <1>13, <1>14, <1>15, <1>20, <1>21, <1>22, <1>23, <1>24,
           <1>25, <1>26, <1>27, <1>28, <1>29 DEF OpBegins, OpStep

LEMMA TypedNext == Typed /\ [Next]_vars => Typed'
<1> SUFFICES ASSUME Typed, [Next]_vars PROVE Typed'
  OBVIOUS
<1>1. ASSUME NEW r \in Runners, RunnerStep(r) \/ AgentExit(r) \/ RunnerCrash(r)
      PROVE  Typed'
  BY <1>1, RunnerTyped
<1>2. ASSUME NEW o \in Operators, OpBegins(o) \/ OpStep(o) \/ OpCrash(o)
      PROVE  Typed'
  BY <1>2, OperatorTyped
<1>3. ASSUME NEW s \in Sessions, HeartbeatExpires(s) PROVE Typed'
  BY <1>3 DEF HeartbeatExpires, Typed, TypeOK, StartedForSession, BusyWithSession, runnerVars
<1>4. CASE UNCHANGED vars
  BY <1>4 DEF vars, Typed, TypeOK, StartedForSession, BusyWithSession
<1> QED BY <1>1, <1>2, <1>3, <1>4 DEF Next

LEMMA AlwaysTyped == Spec => []Typed
BY TypedInit, TypedNext, PTL DEF Spec

\* Whatever overlaps, every row, runner and operation is one the code knows.
THEOREM TypeCorrect == Spec => []TypeOK
<1>1. Typed => TypeOK BY DEF Typed
<1> QED BY AlwaysTyped, <1>1, PTL

(***************************************************************************)
(* The recorded pid.                                                       *)
(***************************************************************************)

\* What makes RecordedPidIsTended inductive: a row that does not exist names
\* no process, so a runner that finds its row gone has nothing left to clear.
NoRowNoPid == \A s \in Sessions : ~HasRow(s) => pid[s] = NoPid

PidInv == RecordedPidIsTended /\ NoRowNoPid

LEMMA PidInit == Init => PidInv
BY DEF Init, PidInv, RecordedPidIsTended, NoRowNoPid

LEMMA PidRunner ==
  ASSUME Typed, PidInv, NEW r \in Runners, RunnerStep(r) \/ AgentExit(r) \/ RunnerCrash(r)
  PROVE  PidInv'
<1> USE ConstantsAssumption
    DEF Typed, TypeOK, StartedForSession, PidInv, RecordedPidIsTended, NoRowNoPid, HasRow,
        RecordsPid, At, Goto, rowVars, runnerVars
<1>1. CASE Launch(r) BY <1>1 DEF Launch
<1>2. CASE SpawnAgent(r) BY <1>2 DEF SpawnAgent
<1>3. CASE RecordPid(r) BY <1>3 DEF RecordPid, WritePid
<1>4. CASE RunnerSelect(r) BY <1>4 DEF RunnerSelect
<1>5. CASE RunnerUpdate(r)
  <2>1. Wanted(r) \in SessionState BY WantedTyped
  <2> QED BY <1>5, <2>1 DEF RunnerUpdate, WriteState
<1>6. CASE Beat(r) BY <1>6 DEF Beat
<1>7. CASE Reap(r) BY <1>7 DEF Reap
<1>8. CASE ClearPid(r) BY <1>8 DEF ClearPid, WritePid
<1>9. CASE AgentExit(r) BY <1>9 DEF AgentExit
<1>10. CASE RunnerCrash(r) BY <1>10 DEF RunnerCrash
<1> QED BY <1>1, <1>2, <1>3, <1>4, <1>5, <1>6, <1>7, <1>8, <1>9, <1>10 DEF RunnerStep

\* An operator's step leaves a row as it was, or writes a state the code knows
\* and keeps or clears the pid, or deletes the row with its pid.
RowChange(s) ==
  \/ UNCHANGED rowVars
  \/ \E to \in SessionState : WriteState(s, to)
  \/ \E to \in SessionState : WriteStateClearPid(s, to)
  \/ WritePid(s, NoPid)
  \/ state' = [state EXCEPT ![s] = "Deleted"] /\ pid' = [pid EXCEPT ![s] = NoPid]

\* It leaves the runners alone, or starts one that was unused.
RunnersChange ==
  \/ UNCHANGED runnerVars
  \/ \E r \in Runners, s \in Sessions :
       /\ rpc[r] = "unused"
       /\ rpc'   = [rpc EXCEPT ![r] = "launch"]
       /\ rsess' = [rsess EXCEPT ![r] = s]

LEMMA OperatorChanges ==
  ASSUME Typed, NEW o \in Operators, OpBegins(o) \/ OpStep(o) \/ OpCrash(o)
  PROVE  RunnersChange /\ \E s \in Sessions : RowChange(s)
<1> USE DEF RowChange, RunnersChange
<1>1. {"Pending", "Failed", "Stopped", "Stale"} \subseteq SessionState
  BY DEF SessionState
<1>2. CASE OpBegins(o)
  BY <1>1, <1>2 DEF OpBegins, BeginQueue, BeginResume, BeginStop, BeginSweep, BeginRecover,
                    BeginDelete
<1>3. CASE OpStep(o)
  <2>1. op[o].sess \in Sessions
    BY <1>3 DEF Typed, BusyWithSession, OpStep, SpawnRunner, ResetToPending, Kill, StopClearPid,
                OpSelect, OpUpdate, Probe, FailNow, DeleteRow
  <2>2. op[o].to \in SessionState
    BY <1>1 DEF Typed, TypeOK, Operation
  <2>3. CASE SpawnRunner(o) BY <2>1, <2>3 DEF SpawnRunner
  <2>4. CASE ResetToPending(o) BY <1>1, <2>1, <2>4 DEF ResetToPending
  <2>5. CASE Kill(o) \/ OpSelect(o) \/ Probe(o) BY <2>1, <2>5 DEF Kill, OpSelect, Probe
  <2>6. CASE StopClearPid(o) BY <2>1, <2>6 DEF StopClearPid
  <2>7. CASE OpUpdate(o) BY <2>1, <2>2, <2>7 DEF OpUpdate
  <2>8. CASE FailNow(o) BY <1>1, <2>1, <2>8 DEF FailNow
  <2>9. CASE DeleteRow(o) BY <2>1, <2>9 DEF DeleteRow
  <2> QED BY <1>3, <2>3, <2>4, <2>5, <2>6, <2>7, <2>8, <2>9 DEF OpStep
<1>4. CASE OpCrash(o)
  BY <1>4 DEF OpCrash, Typed, BusyWithSession
<1> QED BY <1>2, <1>3, <1>4

LEMMA PidOperator ==
  ASSUME Typed, PidInv, NEW o \in Operators, OpBegins(o) \/ OpStep(o) \/ OpCrash(o)
  PROVE  PidInv'
<1>1. PICK s \in Sessions : RowChange(s)
  BY OperatorChanges
<1>2. RunnersChange
  BY OperatorChanges
<1>3. NoRowNoPid'
  BY <1>1 DEF PidInv, NoRowNoPid, HasRow, RowChange, WriteState, WriteStateClearPid, WritePid,
              rowVars, Typed, TypeOK
<1>4. \A x \in Sessions : pid'[x] \in {pid[x], NoPid}
  BY <1>1 DEF RowChange, WriteState, WriteStateClearPid, WritePid, rowVars, Typed, TypeOK
<1>5. \A r \in Runners : rpc[r] \in RecordsPid => rpc'[r] = rpc[r] /\ rsess'[r] = rsess[r]
  BY <1>2 DEF RunnersChange, runnerVars, RecordsPid, Typed, TypeOK
<1> QED BY <1>3, <1>4, <1>5 DEF PidInv, RecordedPidIsTended, Typed, TypeOK

LEMMA AlwaysPid == Spec => []PidInv
<1>1. Typed /\ PidInv /\ [Next]_vars => PidInv'
  <2> SUFFICES ASSUME Typed, PidInv, [Next]_vars PROVE PidInv'
    OBVIOUS
  <2>1. ASSUME NEW r \in Runners, RunnerStep(r) \/ AgentExit(r) \/ RunnerCrash(r)
        PROVE  PidInv'
    BY <2>1, PidRunner
  <2>2. ASSUME NEW o \in Operators, OpBegins(o) \/ OpStep(o) \/ OpCrash(o)
        PROVE  PidInv'
    BY <2>2, PidOperator
  <2>3. ASSUME NEW s \in Sessions, HeartbeatExpires(s) PROVE PidInv'
    BY <2>3 DEF HeartbeatExpires, runnerVars, PidInv, RecordedPidIsTended, NoRowNoPid, HasRow
  <2>4. CASE UNCHANGED vars
    BY <2>4 DEF vars, PidInv, RecordedPidIsTended, NoRowNoPid, HasRow
  <2> QED BY <2>1, <2>2, <2>3, <2>4 DEF Next
<1> QED BY PidInit, AlwaysTyped, <1>1, PTL DEF Spec

\* RecordedPidIsTended for every instance: a pid in the store is that of an
\* agent of the same session whose runner has yet to clear it or died.
THEOREM RecordedPidSafe == Spec => []RecordedPidIsTended
<1>1. PidInv => RecordedPidIsTended BY DEF PidInv
<1> QED BY AlwaysPid, <1>1, PTL

(***************************************************************************)
(* Running.  The property is inductive on its own: only a runner that goes *)
(* on to watch writes Running, and it does not end before it has written a *)
(* final state or found that the row may not become Failed any more.       *)
(***************************************************************************)

LEMMA RunningRunner ==
  ASSUME Typed, RunningIsTended, NEW r \in Runners,
         RunnerStep(r) \/ AgentExit(r) \/ RunnerCrash(r)
  PROVE  RunningIsTended'
<1> USE DEF Typed, TypeOK, StartedForSession, RunningIsTended, RunnerFor, WatchesRunning,
            At, Goto, rowVars, runnerVars
<1>1. CASE Launch(r) BY <1>1 DEF Launch
<1>2. CASE SpawnAgent(r) BY <1>2 DEF SpawnAgent
<1>3. CASE RecordPid(r) BY <1>3 DEF RecordPid, WritePid
<1>4. CASE RunnerSelect(r)
  <2>1. CASE rpc[r] = "selFailed"
    <3>1. state[rsess[r]] = "Running" => rpc'[r] = "updFailed"
      BY <1>4, <2>1 DEF RunnerSelect, MayWriteState, Wanted, HasRow, CanTransition, Successors,
                        SessionState
    <3> QED BY <1>4, <2>1, <3>1 DEF RunnerSelect
  <2>2. CASE rpc[r] # "selFailed"
    BY <1>4, <2>2 DEF RunnerSelect
  <2> QED BY <2>1, <2>2
<1>5. CASE RunnerUpdate(r)
  <2>1. rpc[r] # "updRunning" => Wanted(r) # "Running"
    BY <1>5 DEF RunnerUpdate, Wanted, FinalState
  <2>2. CASE HasRow(rsess[r])
    BY <1>5, <2>1, <2>2 DEF RunnerUpdate, WriteState
  <2>3. CASE ~HasRow(rsess[r])
    BY <1>5, <2>3 DEF RunnerUpdate, HasRow, SessionState
  <2> QED BY <2>2, <2>3
<1>6. CASE Beat(r) BY <1>6 DEF Beat
<1>7. CASE Reap(r) BY <1>7 DEF Reap
<1>8. CASE ClearPid(r) BY <1>8 DEF ClearPid, WritePid
<1>9. CASE AgentExit(r) BY <1>9 DEF AgentExit
<1>10. CASE RunnerCrash(r) BY <1>10 DEF RunnerCrash
<1> QED BY <1>1, <1>2, <1>3, <1>4, <1>5, <1>6, <1>7, <1>8, <1>9, <1>10 DEF RunnerStep

\* No operator writes Running or Completed.
LEMMA OperatorWrites ==
  ASSUME Typed, NEW o \in Operators, OpBegins(o) \/ OpStep(o) \/ OpCrash(o)
  PROVE  \A s \in Sessions : state'[s] \in {state[s], "Pending", "Failed", "Stopped", "Stale", "Deleted"}
<1> USE DEF Typed, TypeOK, WriteState, WritePid, WriteStateClearPid, rowVars
<1>1. CASE OpBegins(o)
  BY <1>1 DEF OpBegins, BeginQueue, BeginResume, BeginStop, BeginSweep, BeginRecover, BeginDelete
<1>2. CASE OpStep(o)
  BY <1>2 DEF OpStep, SpawnRunner, ResetToPending, Kill, StopClearPid, OpSelect, OpUpdate, Probe,
              FailNow, DeleteRow, Operation
<1>3. CASE OpCrash(o)
  BY <1>3 DEF OpCrash
<1> QED BY <1>1, <1>2, <1>3

\* RunningIsTended for every instance: a Running session has a runner that will
\* record its end or that died.
THEOREM RunningSafe == Spec => []RunningIsTended
<1>1. Init => RunningIsTended
  BY DEF Init, RunningIsTended
<1>2. Typed /\ RunningIsTended /\ [Next]_vars => RunningIsTended'
  <2> SUFFICES ASSUME Typed, RunningIsTended, [Next]_vars PROVE RunningIsTended'
    OBVIOUS
  <2>1. ASSUME NEW r \in Runners, RunnerStep(r) \/ AgentExit(r) \/ RunnerCrash(r)
        PROVE  RunningIsTended'
    BY <2>1, RunningRunner
  <2>2. ASSUME NEW o \in Operators, OpBegins(o) \/ OpStep(o) \/ OpCrash(o)
        PROVE  RunningIsTended'
    <3>1. \A s \in Sessions : state'[s] = "Running" => state[s] = "Running"
      BY <2>2, OperatorWrites
    <3>2. RunnersChange
      BY <2>2, OperatorChanges
    <3>3. \A r \in Runners : rpc[r] # "unused" => rpc'[r] = rpc[r] /\ rsess'[r] = rsess[r]
      BY <3>2 DEF RunnersChange, runnerVars, Typed, TypeOK
    <3> QED BY <3>1, <3>3 DEF RunningIsTended, RunnerFor, WatchesRunning
  <2>3. ASSUME NEW s \in Sessions, HeartbeatExpires(s) PROVE RunningIsTended'
    BY <2>3 DEF HeartbeatExpires, runnerVars, RunningIsTended, RunnerFor
  <2>4. CASE UNCHANGED vars
    BY <2>4 DEF vars, RunningIsTended, RunnerFor
  <2> QED BY <2>1, <2>2, <2>3, <2>4 DEF Next
<1> QED BY <1>1, <1>2, AlwaysTyped, PTL DEF Spec

(***************************************************************************)
(* Pending.                                                                *)
(***************************************************************************)

LEMMA PendingRunner ==
  ASSUME ReliableLaunch, Typed, PendingIsTended, NEW r \in Runners,
         RunnerStep(r) \/ AgentExit(r) \/ RunnerCrash(r)
  PROVE  PendingIsTended'
<1> USE DEF Typed, TypeOK, StartedForSession, PendingIsTended, ReliableLaunch, RunnerFor,
            OperatorLaunching, Launching, At, Goto, rowVars, runnerVars
<1>1. CASE Launch(r) BY <1>1 DEF Launch
<1>2. CASE SpawnAgent(r) BY <1>2 DEF SpawnAgent
<1>3. CASE RecordPid(r) BY <1>3 DEF RecordPid, WritePid
<1>4. CASE RunnerSelect(r)
  <2>1. state[rsess[r]] = "Pending" /\ rpc[r] = "selFailed" => rpc'[r] = "updFailed"
    BY <1>4 DEF RunnerSelect, MayWriteState, Wanted, HasRow, CanTransition, Successors,
                SessionState
  <2> QED BY <1>4, <2>1 DEF RunnerSelect
<1>5. CASE RunnerUpdate(r)
  <2>1. Wanted(r) # "Pending"
    BY DEF Wanted, FinalState
  <2>2. CASE HasRow(rsess[r])
    BY <1>5, <2>1, <2>2 DEF RunnerUpdate, WriteState
  <2>3. CASE ~HasRow(rsess[r])
    BY <1>5, <2>3 DEF RunnerUpdate, HasRow, SessionState
  <2> QED BY <2>2, <2>3
<1>6. CASE Beat(r) BY <1>6 DEF Beat
<1>7. CASE Reap(r) BY <1>7 DEF Reap
<1>8. CASE ClearPid(r) BY <1>8 DEF ClearPid, WritePid
<1>9. CASE AgentExit(r) BY <1>9 DEF AgentExit
<1>10. CASE RunnerCrash(r) BY <1>10 DEF RunnerCrash
<1> QED BY <1>1, <1>2, <1>3, <1>4, <1>5, <1>6, <1>7, <1>8, <1>9, <1>10 DEF RunnerStep

LEMMA PendingOperator ==
  ASSUME ReliableLaunch, Typed, PendingIsTended, NEW o \in Operators,
         OpBegins(o) \/ OpStep(o) \/ OpCrash(o)
  PROVE  PendingIsTended'
<1> DEFINE Tended(s) == RunnerFor(s, Launching) \/ OperatorLaunching(s)
<1>1. SUFFICES ASSUME NEW s \in Sessions, state'[s] = "Pending"
               PROVE  Tended(s)'
  BY DEF PendingIsTended
<1>2. RunnerFor(s, Launching) => RunnerFor(s, Launching)'
  <2>1. RunnersChange BY OperatorChanges
  <2>2. \A r \in Runners : rpc[r] # "unused" => rpc'[r] = rpc[r] /\ rsess'[r] = rsess[r]
    BY <2>1 DEF RunnersChange, runnerVars, Typed, TypeOK
  <2> QED BY <2>2 DEF RunnerFor, Launching
<1>3. op' = [op EXCEPT ![o] = op'[o]]
  BY DEF OpBegins, BeginQueue, BeginResume, BeginStop, BeginSweep, BeginRecover, BeginDelete,
         OpStep, SpawnRunner, ResetToPending, Kill, StopClearPid, OpSelect, OpUpdate, Probe,
         FailNow, DeleteRow, OpCrash, OpBegin, OpGoto, OpDone, Typed, TypeOK
<1>4. \A x \in Operators \ {o} : op'[x] = op[x]
  BY <1>3 DEF Typed, TypeOK
<1>5. CASE SpawnRunner(o)
  <2>1. PICK r \in Runners : rpc[r] = "unused" /\ rpc' = [rpc EXCEPT ![r] = "launch"]
                             /\ rsess' = [rsess EXCEPT ![r] = op[o].sess]
    BY <1>5 DEF SpawnRunner, ReliableLaunch
  <2>2. rpc'[r] = "launch" /\ rsess'[r] = op[o].sess
    BY <2>1 DEF Typed, TypeOK
  <2>3. state[s] = "Pending" BY <1>1, <1>5 DEF SpawnRunner, rowVars
  <2>4. Tended(s) BY <2>3 DEF PendingIsTended, ReliableLaunch
  <2>5. CASE op[o].sess = s BY <2>2, <2>5 DEF RunnerFor, Launching
  <2>6. CASE op[o].sess # s BY <2>4, <2>6, <1>2, <1>4 DEF OperatorLaunching
  <2> QED BY <2>5, <2>6
<1>6. CASE ResetToPending(o) /\ HasRow(op[o].sess) /\ op[o].sess = s
  BY <1>6 DEF ResetToPending, OpGoto, OperatorLaunching, Typed, TypeOK, Operation
<1>7. CASE BeginQueue(o, s)
  BY <1>7 DEF BeginQueue, OpBegin, OperatorLaunching, Typed, TypeOK
<1>8. CASE /\ ~SpawnRunner(o)
           /\ ~(ResetToPending(o) /\ HasRow(op[o].sess) /\ op[o].sess = s)
           /\ ~BeginQueue(o, s)
  <2>1. state[s] = "Pending"
    <3> USE DEF WriteState, WritePid, WriteStateClearPid, rowVars, Typed, TypeOK
    <3>1. CASE OpBegins(o)
      BY <1>1, <1>8, <3>1 DEF OpBegins, BeginQueue, BeginResume, BeginStop, BeginSweep,
                              BeginRecover, BeginDelete
    <3>2. CASE OpStep(o)
      BY <1>1, <1>8, <3>2 DEF OpStep, ResetToPending, Kill, StopClearPid, OpSelect, OpUpdate,
                              Probe, FailNow, DeleteRow, Operation
    <3>3. CASE OpCrash(o)
      BY <1>1, <3>3 DEF OpCrash
    <3> QED BY <3>1, <3>2, <3>3
  <2>2. op[o].pc \notin {"spawnNew", "spawnResumed"}
    BY <1>8 DEF OpBegins, BeginQueue, BeginResume, BeginStop, BeginSweep, BeginRecover,
                BeginDelete, Idle, OpStep, ResetToPending, Kill, StopClearPid, OpSelect, OpUpdate,
                Probe, FailNow, DeleteRow, OpCrash, ReliableLaunch
  <2>3. Tended(s) BY <2>1 DEF PendingIsTended, ReliableLaunch
  <2> QED BY <2>2, <2>3, <1>2, <1>4 DEF OperatorLaunching
<1> QED BY <1>5, <1>6, <1>7, <1>8

\* PendingIsTended for every instance: when launches are reliable, a Pending
\* session always has a launch under way.
THEOREM PendingSafe == Spec => []PendingIsTended
<1>1. Init => PendingIsTended
  BY DEF Init, PendingIsTended
<1>2. Typed /\ PendingIsTended /\ [Next]_vars => PendingIsTended'
  <2> SUFFICES ASSUME Typed, PendingIsTended, [Next]_vars PROVE PendingIsTended'
    OBVIOUS
  <2>1. CASE ~ReliableLaunch
    BY <2>1 DEF PendingIsTended, ReliableLaunch
  <2>2. CASE ReliableLaunch
    <3>1. ASSUME NEW r \in Runners, RunnerStep(r) \/ AgentExit(r) \/ RunnerCrash(r)
          PROVE  PendingIsTended'
      BY <2>2, <3>1, PendingRunner
    <3>2. ASSUME NEW o \in Operators, OpBegins(o) \/ OpStep(o) \/ OpCrash(o)
          PROVE  PendingIsTended'
      BY <2>2, <3>2, PendingOperator
    <3>3. ASSUME NEW s \in Sessions, HeartbeatExpires(s) PROVE PendingIsTended'
      BY <3>3 DEF HeartbeatExpires, runnerVars, PendingIsTended, RunnerFor, OperatorLaunching,
                  ReliableLaunch
    <3>4. CASE UNCHANGED vars
      BY <3>4 DEF vars, PendingIsTended, RunnerFor, OperatorLaunching, ReliableLaunch
    <3> QED BY <3>1, <3>2, <3>3, <3>4 DEF Next
  <2> QED BY <2>1, <2>2
<1> QED BY <1>1, <1>2, AlwaysTyped, PTL DEF Spec

(***************************************************************************)
(* Completed.                                                              *)
(***************************************************************************)

\* What makes CompletedMeansSuccess inductive: a runner has no agent before it
\* spawns one, so an agent that ended with success is never started again and
\* its runner never given to another session.
NoAgentYet == \A r \in Runners : rpc[r] \in {"unused", "launch", "spawn"} => agent[r] = "none"

CompletedInv == CompletedMeansSuccess /\ NoAgentYet

LEMMA CompletedRunner ==
  ASSUME Typed, CompletedInv, NEW r \in Runners,
         RunnerStep(r) \/ AgentExit(r) \/ RunnerCrash(r)
  PROVE  CompletedInv'
<1> USE DEF Typed, TypeOK, StartedForSession, CompletedInv, CompletedMeansSuccess, NoAgentYet,
            At, Goto, rowVars, runnerVars
<1>1. CASE Launch(r) BY <1>1 DEF Launch
<1>2. CASE SpawnAgent(r) BY <1>2 DEF SpawnAgent
<1>3. CASE RecordPid(r) BY <1>3 DEF RecordPid, WritePid
<1>4. CASE RunnerSelect(r) BY <1>4 DEF RunnerSelect
<1>5. CASE RunnerUpdate(r)
  <2>1. Wanted(r) = "Completed" => agent[r] = "success"
    BY <1>5 DEF RunnerUpdate, Wanted, FinalState
  <2>2. rsess[r] \in Sessions BY <1>5 DEF RunnerUpdate
  <2>3. NoAgentYet' BY <1>5 DEF RunnerUpdate
  <2>4. \A s \in Sessions : state'[s] = "Completed" =>
          state[s] = "Completed" \/ (s = rsess[r] /\ Wanted(r) = "Completed")
    BY <1>5, <2>2 DEF RunnerUpdate, WriteState
  <2>5. UNCHANGED <<agent, rsess>> BY <1>5 DEF RunnerUpdate
  <2> QED BY <2>1, <2>3, <2>4, <2>5
<1>6. CASE Beat(r) BY <1>6 DEF Beat
<1>7. CASE Reap(r) BY <1>7 DEF Reap
<1>8. CASE ClearPid(r) BY <1>8 DEF ClearPid, WritePid
<1>9. CASE AgentExit(r)
  <2>1. NoAgentYet' BY <1>9 DEF AgentExit
  <2>2. \A q \in Runners : agent[q] = "success" => agent'[q] = "success"
    BY <1>9 DEF AgentExit
  <2> QED BY <1>9, <2>1, <2>2 DEF AgentExit
<1>10. CASE RunnerCrash(r) BY <1>10 DEF RunnerCrash
<1> QED BY <1>1, <1>2, <1>3, <1>4, <1>5, <1>6, <1>7, <1>8, <1>9, <1>10 DEF RunnerStep

\* An operator ends agents that are alive, and does nothing else to agents.
LEMMA OperatorAgents ==
  ASSUME Typed, NEW o \in Operators, OpBegins(o) \/ OpStep(o) \/ OpCrash(o)
  PROVE  \A r \in Runners : agent[r] # "alive" => agent'[r] = agent[r]
<1>1. CASE Kill(o)
  BY <1>1 DEF Kill, Typed, TypeOK
<1>2. CASE ~Kill(o)
  <2>1. CASE OpBegins(o)
    BY <2>1 DEF OpBegins, BeginQueue, BeginResume, BeginStop, BeginSweep, BeginRecover, BeginDelete
  <2>2. CASE OpStep(o)
    BY <1>2, <2>2 DEF OpStep, SpawnRunner, ResetToPending, StopClearPid, OpSelect, OpUpdate, Probe,
                      FailNow, DeleteRow
  <2>3. CASE OpCrash(o)
    BY <2>3 DEF OpCrash
  <2> QED BY <2>1, <2>2, <2>3
<1> QED BY <1>1, <1>2

LEMMA OperatorNoAgentYet ==
  ASSUME Typed, NoAgentYet, NEW o \in Operators, OpBegins(o) \/ OpStep(o) \/ OpCrash(o)
  PROVE  NoAgentYet'
<1>1. \A r \in Runners : rpc'[r] \in {"unused", "launch", "spawn"}
                          => rpc[r] \in {"unused", "launch", "spawn"}
  BY OperatorChanges DEF RunnersChange, runnerVars, Typed, TypeOK
<1> QED BY <1>1, OperatorAgents DEF NoAgentYet

\* CompletedMeansSuccess for every instance: no race of runners, stops, sweeps
\* and resumes reports a success that no agent of the session had.
THEOREM CompletedSafe == Spec => []CompletedMeansSuccess
<1>1. Init => CompletedInv
  BY DEF Init, CompletedInv, CompletedMeansSuccess, NoAgentYet
<1>2. Typed /\ CompletedInv /\ [Next]_vars => CompletedInv'
  <2> SUFFICES ASSUME Typed, CompletedInv, [Next]_vars PROVE CompletedInv'
    OBVIOUS
  <2>1. ASSUME NEW r \in Runners, RunnerStep(r) \/ AgentExit(r) \/ RunnerCrash(r)
        PROVE  CompletedInv'
    BY <2>1, CompletedRunner
  <2>2. ASSUME NEW o \in Operators, OpBegins(o) \/ OpStep(o) \/ OpCrash(o)
        PROVE  CompletedInv'
    <3>1. \A s \in Sessions : state'[s] = "Completed" => state[s] = "Completed"
      BY <2>2, OperatorWrites
    <3>2. RunnersChange
      BY <2>2, OperatorChanges
    <3>3. \A r \in Runners : rpc[r] # "unused" => rsess'[r] = rsess[r]
      BY <3>2 DEF RunnersChange, runnerVars, Typed, TypeOK
    <3>4. \A r \in Runners : agent[r] # "alive" => agent'[r] = agent[r]
      BY <2>2, OperatorAgents
    <3>5. NoAgentYet'
      BY <2>2, OperatorNoAgentYet DEF CompletedInv
    <3> QED BY <3>1, <3>3, <3>4, <3>5 DEF CompletedInv, CompletedMeansSuccess, NoAgentYet
  <2>3. ASSUME NEW s \in Sessions, HeartbeatExpires(s) PROVE CompletedInv'
    BY <2>3 DEF HeartbeatExpires, runnerVars, CompletedInv, CompletedMeansSuccess, NoAgentYet
  <2>4. CASE UNCHANGED vars
    BY <2>4 DEF vars, CompletedInv, CompletedMeansSuccess, NoAgentYet
  <2> QED BY <2>1, <2>2, <2>3, <2>4 DEF Next
<1>3. CompletedInv => CompletedMeansSuccess BY DEF CompletedInv
<1> QED BY AlwaysTyped, <1>1, <1>2, <1>3, PTL DEF Spec

(***************************************************************************)
(* The lifecycle implements SessionService.                                *)
(***************************************************************************)

\* What the mapping needs of the runners and operators: a runner has an agent
\* from its spawn on, and one that has ended before its end is recorded; an
\* operator signals only an agent of the session that it works on, for a row
\* names no other (RecordedPidIsTended) and a runner keeps its session.
AgentThere ==
  \A r \in Runners :
    /\ rpc[r] \in {"setPid", "selRunning", "updRunning", "beat", "wait"} => agent[r] # "none"
    /\ rpc[r] \in {"clearPid", "selFinal", "updFinal"} => agent[r] \in {"success", "failure"}

KillsOwn ==
  \A o \in Operators :
    /\ op[o].pc = "idle" => op[o].sess = NoSession
    /\ op[o].pid # NoPid => /\ rpc[op[o].pid] # "unused"
                            /\ rsess[op[o].pid] = op[o].sess

ServiceInv == NoAgentYet /\ AgentThere /\ KillsOwn

LEMMA AgentThereRunner ==
  ASSUME Typed, NoAgentYet, AgentThere, NEW r \in Runners,
         RunnerStep(r) \/ AgentExit(r) \/ RunnerCrash(r)
  PROVE  NoAgentYet' /\ AgentThere'
<1> USE DEF Typed, TypeOK, NoAgentYet, AgentThere, At, Goto, runnerVars, AgentStatus
<1>1. CASE Launch(r) BY <1>1 DEF Launch
<1>2. CASE SpawnAgent(r) BY <1>2 DEF SpawnAgent
<1>3. CASE RecordPid(r) BY <1>3 DEF RecordPid
<1>4. CASE RunnerSelect(r) BY <1>4 DEF RunnerSelect
<1>5. CASE RunnerUpdate(r) BY <1>5 DEF RunnerUpdate
<1>6. CASE Beat(r) BY <1>6 DEF Beat
<1>7. CASE Reap(r) BY <1>7 DEF Reap
<1>8. CASE ClearPid(r) BY <1>8 DEF ClearPid
<1>9. CASE AgentExit(r) BY <1>9 DEF AgentExit
<1>10. CASE RunnerCrash(r) BY <1>10 DEF RunnerCrash
<1> QED BY <1>1, <1>2, <1>3, <1>4, <1>5, <1>6, <1>7, <1>8, <1>9, <1>10 DEF RunnerStep

\* An operator ends agents, and starts none.
LEMMA OperatorEnds ==
  ASSUME Typed, NEW o \in Operators, OpBegins(o) \/ OpStep(o) \/ OpCrash(o)
  PROVE  \A r \in Runners : agent'[r] = agent[r] \/ agent'[r] \in {"success", "failure"}
<1>1. CASE Kill(o)
  BY <1>1 DEF Kill, Typed, TypeOK
<1>2. CASE ~Kill(o)
  <2>1. CASE OpBegins(o)
    BY <2>1 DEF OpBegins, BeginQueue, BeginResume, BeginStop, BeginSweep, BeginRecover, BeginDelete
  <2>2. CASE OpStep(o)
    BY <1>2, <2>2 DEF OpStep, SpawnRunner, ResetToPending, StopClearPid, OpSelect, OpUpdate, Probe,
                      FailNow, DeleteRow
  <2>3. CASE OpCrash(o)
    BY <2>3 DEF OpCrash
  <2> QED BY <2>1, <2>2, <2>3
<1> QED BY <1>1, <1>2

LEMMA OperatorAgentThere ==
  ASSUME Typed, AgentThere, NEW o \in Operators, OpBegins(o) \/ OpStep(o) \/ OpCrash(o)
  PROVE  AgentThere'
<1>1. \A r \in Runners : rpc'[r] # "launch" => rpc'[r] = rpc[r]
  BY OperatorChanges DEF RunnersChange, runnerVars, Typed, TypeOK
<1>2. \A r \in Runners : agent'[r] = agent[r] \/ agent'[r] \in {"success", "failure"}
  BY OperatorEnds
<1> QED BY <1>1, <1>2 DEF AgentThere

\* An operator's step ends its operation, goes on with it, or takes one up from
\* rest, with the pid that it reads in the row.
OneOperation(o) ==
  \/ OpDone(o)
  \/ op[o].pc # "idle" /\ \E pc \in OpPC \ {"idle"} : OpGoto(o, pc)
  \/ /\ op[o].pc = "idle"
     /\ \E s \in Sessions, pc \in OpPC \ {"idle"}, to \in {"Failed", "Stopped", "Stale"} :
          OpBegin(o, s, pc, to)

LEMMA OperatorOperation ==
  ASSUME NEW o \in Operators, OpBegins(o) \/ OpStep(o) \/ OpCrash(o)
  PROVE  OneOperation(o)
<1> USE DEF OneOperation, OpPC
<1>1. CASE OpBegins(o)
  BY <1>1 DEF OpBegins, BeginQueue, BeginResume, BeginStop, BeginSweep, BeginRecover, BeginDelete,
              Idle
<1>2. CASE OpStep(o)
  BY <1>2 DEF OpStep, SpawnRunner, ResetToPending, Kill, StopClearPid, OpSelect, OpUpdate, Probe,
              FailNow, DeleteRow
<1>3. CASE OpCrash(o)
  BY <1>3 DEF OpCrash
<1> QED BY <1>1, <1>2, <1>3

LEMMA KillsOwnRunner ==
  ASSUME Typed, KillsOwn, NEW r \in Runners, RunnerStep(r) \/ AgentExit(r) \/ RunnerCrash(r)
  PROVE  KillsOwn'
<1>1. op' = op /\ rsess' = rsess
  BY DEF RunnerStep, Launch, SpawnAgent, RecordPid, RunnerSelect, RunnerUpdate, Beat, Reap,
         ClearPid, AgentExit, RunnerCrash, Goto, runnerVars
<1>2. \A q \in Runners : rpc[q] # "unused" => rpc'[q] # "unused"
  BY DEF RunnerStep, Launch, SpawnAgent, RecordPid, RunnerSelect, RunnerUpdate, Beat, Reap,
         ClearPid, AgentExit, RunnerCrash, Goto, runnerVars, Typed, TypeOK
<1> QED BY <1>1, <1>2, ConstantsAssumption DEF KillsOwn, Typed, TypeOK, Operation

LEMMA KillsOwnOperator ==
  ASSUME Typed, PidInv, KillsOwn, NEW o \in Operators, OpBegins(o) \/ OpStep(o) \/ OpCrash(o)
  PROVE  KillsOwn'
<1>1. \A r \in Runners : rpc[r] # "unused" => rpc'[r] # "unused" /\ rsess'[r] = rsess[r]
  BY OperatorChanges DEF RunnersChange, runnerVars, Typed, TypeOK
<1>2. OneOperation(o)
  BY OperatorOperation
<1>3. \A q \in Operators \ {o} : op'[q] = op[q]
  BY <1>2 DEF OneOperation, OpDone, OpGoto, OpBegin, Typed, TypeOK
<1> DEFINE Own == /\ op'[o].pc = "idle" => op'[o].sess = NoSession
                  /\ op'[o].pid # NoPid => /\ op'[o].pid \in Runners
                                           /\ rpc[op'[o].pid] # "unused"
                                           /\ rsess[op'[o].pid] = op'[o].sess
<1>4. Own
  <2>1. CASE OpDone(o)
    BY <2>1 DEF OpDone, NoOperation, Typed, TypeOK
  <2>2. CASE \E pc \in OpPC \ {"idle"} : OpGoto(o, pc)
    BY <2>2 DEF OpGoto, Typed, TypeOK, Operation
  <2>3. ASSUME NEW s \in Sessions, NEW pc \in OpPC \ {"idle"},
               NEW to \in {"Failed", "Stopped", "Stale"}, OpBegin(o, s, pc, to)
        PROVE  Own
    <3>1. op'[o].sess = s /\ op'[o].pid \in {NoPid, pid[s]} /\ op'[o].pc = pc
      BY <2>3 DEF OpBegin, Typed, TypeOK
    <3>2. pid[s] # NoPid => /\ pid[s] \in Runners /\ rpc[pid[s]] # "unused"
                            /\ rsess[pid[s]] = s
      BY DEF PidInv, RecordedPidIsTended, RecordsPid, Typed, TypeOK
    <3> QED BY <3>1, <3>2
  <2> QED BY <1>2, <2>1, <2>2, <2>3 DEF OneOperation
<1> QED BY <1>1, <1>3, <1>4, ConstantsAssumption DEF KillsOwn, Typed, TypeOK, Operation

LEMMA ServiceInit == Init => ServiceInv
BY DEF Init, ServiceInv, NoAgentYet, AgentThere, KillsOwn, NoOperation

LEMMA ServiceInvStep == Typed /\ PidInv /\ ServiceInv /\ [Next]_vars => ServiceInv'
<1> SUFFICES ASSUME Typed, PidInv, ServiceInv, [Next]_vars PROVE ServiceInv'
  OBVIOUS
<1> USE DEF ServiceInv
<1>1. ASSUME NEW r \in Runners, RunnerStep(r) \/ AgentExit(r) \/ RunnerCrash(r)
      PROVE  ServiceInv'
  BY <1>1, AgentThereRunner, KillsOwnRunner
<1>2. ASSUME NEW o \in Operators, OpBegins(o) \/ OpStep(o) \/ OpCrash(o)
      PROVE  ServiceInv'
  BY <1>2, OperatorNoAgentYet, OperatorAgentThere, KillsOwnOperator
<1>3. ASSUME NEW s \in Sessions, HeartbeatExpires(s) PROVE ServiceInv'
  BY <1>3 DEF HeartbeatExpires, runnerVars, NoAgentYet, AgentThere, KillsOwn
<1>4. CASE UNCHANGED vars
  BY <1>4 DEF vars, NoAgentYet, AgentThere, KillsOwn
<1> QED BY <1>1, <1>2, <1>3, <1>4 DEF Next

\* How the mapping sees what steps write.
LEMMA LooksWritten ==
  ASSUME Typed, NEW s \in Sessions, NEW to, state' = [state EXCEPT ![s] = to]
  PROVE  Looks' = [Looks EXCEPT ![s] = Look(to)]
BY DEF Looks, Typed, TypeOK

LEMMA RowExists ==
  ASSUME Typed, NEW s \in Sessions, HasRow(s)
  PROVE  Service!Exists(s)
BY DEF HasRow, SessionState, Service!Exists, Looks, Look

LEMMA StageComes ==
  ASSUME Typed, NEW r \in Runners, NEW pc, Goto(r, pc)
  PROVE  /\ rsess' = rsess
         /\ Service!Comes(r, Stage(rpc[r]), Stage(pc))
         /\ Stage(pc) = Stage(rpc[r]) => Stages' = Stages
BY DEF Goto, Service!Comes, Stages, Typed, TypeOK

LEMMA PurposeTurns ==
  ASSUME Typed, KillsOwn, NEW o \in Operators
  PROVE  /\ OpDone(o) => Purposes' = [Purposes EXCEPT ![o] = Service!Idle]
         /\ \A pc : OpGoto(o, pc) =>
              /\ Service!Turns(o, Purpose(pc), op[o].sess)
              /\ Purpose(pc) = Purpose(op[o].pc) => Purposes' = Purposes
         /\ \A s, pc, to : OpBegin(o, s, pc, to) => Service!Turns(o, Purpose(pc), s)
         /\ Purposes[o] = [wants |-> Purpose(op[o].pc), sess |-> op[o].sess]
         /\ op[o].pc = "idle" => Purposes[o] = Service!Idle
         /\ op[o].pc # "idle" /\ op[o].pc \in OpPC => Purposes[o] # Service!Idle
<1>1. op \in [Operators -> Operation]
  BY DEF Typed, TypeOK
<1>2. op[o] \in Operation
  BY <1>1
<1>3. OpDone(o) => Purposes' = [Purposes EXCEPT ![o] = Service!Idle]
  <2>1. SUFFICES ASSUME OpDone(o) PROVE Purposes' = [Purposes EXCEPT ![o] = Service!Idle]
    OBVIOUS
  <2>2. op'[o].pc = "idle" /\ op'[o].sess = NoSession /\ \A q \in Operators \ {o} : op'[q] = op[q]
    BY <1>1, <2>1 DEF OpDone, NoOperation
  <2> QED BY <2>2 DEF Purposes, Purpose, Service!Idle
<1>4. ASSUME NEW pc, OpGoto(o, pc)
      PROVE  /\ Service!Turns(o, Purpose(pc), op[o].sess)
             /\ Purpose(pc) = Purpose(op[o].pc) => Purposes' = Purposes
  <2>1. op'[o].pc = pc /\ op'[o].sess = op[o].sess /\ \A q \in Operators \ {o} : op'[q] = op[q]
    BY <1>1, <1>2, <1>4 DEF OpGoto, Operation
  <2> QED BY <2>1 DEF Service!Turns, Purposes
<1>5. ASSUME NEW s, NEW pc, NEW to, OpBegin(o, s, pc, to)
      PROVE  Service!Turns(o, Purpose(pc), s)
  <2>1. op'[o].pc = pc /\ op'[o].sess = s /\ \A q \in Operators \ {o} : op'[q] = op[q]
    BY <1>1, <1>5 DEF OpBegin
  <2> QED BY <2>1 DEF Service!Turns, Purposes
<1>6. Purposes[o] = [wants |-> Purpose(op[o].pc), sess |-> op[o].sess]
  BY DEF Purposes
<1>7. op[o].pc = "idle" => Purposes[o] = Service!Idle
  BY <1>6 DEF KillsOwn, Purpose, Service!Idle
<1>8. op[o].pc # "idle" /\ op[o].pc \in OpPC => Purposes[o] # Service!Idle
  BY <1>6 DEF Purpose, Service!Idle
<1> QED BY <1>3, <1>4, <1>5, <1>6, <1>7, <1>8

Unseen == UNCHANGED <<Looks, Stages, rsess, agent, Purposes>>

LEMMA RunnerServes ==
  ASSUME Typed, ServiceInv, NEW r \in Runners,
         RunnerStep(r) \/ AgentExit(r) \/ RunnerCrash(r)
  PROVE  Service!Next \/ Unseen
<1> DEFINE s == rsess[r]
<1>1. rpc[r] # "unused" => s \in Sessions
  BY DEF Typed, StartedForSession
<1>2. ASSUME Service!AgentStep(r) PROVE Service!Next
  BY <1>2 DEF Service!Next
<1>3. state' = state => Looks' = Looks
  BY DEF Looks
<1>4. op' = op => Purposes' = Purposes
  BY DEF Purposes
<1>5. ASSUME NEW from \in {"admitted", "started", "announced"}, Stage(rpc[r]) = from,
             Goto(r, "failPid"), UNCHANGED <<state, agent, op>>
      PROVE  Service!Next
  <2>1. Service!Comes(r, from, "broken") /\ rsess' = rsess
    BY <1>5, StageComes DEF Stage
  <2>2. Service!Break(r)
    BY <1>3, <1>5, <2>1 DEF Service!Break
  <2> QED BY <1>2, <1>4, <1>5, <2>1, <2>2 DEF Service!AgentStep
<1>6. ASSUME NEW pc, Stage(pc) = Stage(rpc[r]), Goto(r, pc), UNCHANGED <<state, agent, op>>
      PROVE  Unseen
  BY <1>3, <1>4, <1>6, StageComes DEF Unseen
<1>7. CASE Launch(r)
  <2>1. CASE Goto(r, "done")
    <3>1. Service!Comes(r, "asked", "silent") /\ rsess' = rsess
      BY <1>7, <2>1, StageComes DEF Launch, At, Stage
    <3>2. Service!Decline(r)
      BY <1>3, <1>7, <3>1 DEF Launch, rowVars, Service!Decline
    <3> QED BY <1>2, <1>4, <1>7, <3>1, <3>2 DEF Launch, Service!AgentStep
  <2>2. CASE state[s] = "Pending" /\ Goto(r, "spawn")
    <3>1. Service!Comes(r, "asked", "admitted") /\ rsess' = rsess
      BY <1>7, <2>2, StageComes DEF Launch, At, Stage
    <3>2. Looks[s] = "waiting"
      BY <1>1, <1>7, <2>2 DEF Launch, At, Looks, Look
    <3>3. Service!Admit(r)
      BY <1>3, <1>7, <3>1, <3>2 DEF Launch, rowVars, Service!Admit
    <3> QED BY <1>2, <1>4, <1>7, <3>1, <3>3 DEF Launch, Service!AgentStep
  <2> QED BY <1>7, <2>1, <2>2 DEF Launch
<1>8. CASE SpawnAgent(r)
  <2>1. CASE Goto(r, "failPid") /\ UNCHANGED agent
    BY <1>5, <1>8, <2>1 DEF SpawnAgent, At, Stage, rowVars
  <2>2. CASE agent' = [agent EXCEPT ![r] = "alive"] /\ Goto(r, "setPid")
    <3>1. Service!Comes(r, "admitted", "started") /\ rsess' = rsess
      BY <1>8, <2>2, StageComes DEF SpawnAgent, At, Stage
    <3>2. agent[r] = "none"
      BY <1>8 DEF SpawnAgent, At, ServiceInv, NoAgentYet
    <3>3. Service!Start(r)
      BY <1>3, <1>8, <2>2, <3>1, <3>2 DEF SpawnAgent, rowVars, Service!Start
    <3> QED BY <1>2, <1>4, <1>8, <3>1, <3>3 DEF SpawnAgent, Service!AgentStep
  <2> QED BY <1>8, <2>1, <2>2 DEF SpawnAgent
<1>9. CASE RecordPid(r)
  <2>1. CASE Goto(r, "failPid")
    BY <1>5, <1>9, <2>1 DEF RecordPid, At, Stage, WritePid, rowVars
  <2>2. CASE Goto(r, "selRunning")
    BY <1>6, <1>9, <2>2 DEF RecordPid, At, Stage, WritePid, rowVars
  <2> QED BY <1>9, <2>1, <2>2 DEF RecordPid
<1>10. CASE RunnerSelect(r)
  <2>1. UNCHANGED <<state, agent, op>>
    BY <1>10 DEF RunnerSelect, rowVars
  <2>2. CASE Goto(r, "failPid") /\ rpc[r] \in {"selRunning", "selFinal"}
    BY <1>5, <2>1, <2>2 DEF Stage
  <2>3. CASE Goto(r, "done") /\ rpc[r] = "selFailed"
    <3>1. Service!Comes(r, "broken", "silent") /\ rsess' = rsess
      BY <2>3, StageComes DEF Stage
    <3>2. Service!Apologise(r)
      BY <1>3, <2>1, <3>1 DEF Service!Apologise
    <3> QED BY <1>2, <1>4, <2>1, <3>1, <3>2 DEF Service!AgentStep
  <2>4. CASE \E pc \in {"updRunning", "updFinal", "updFailed"} :
               Goto(r, pc) /\ Stage(pc) = Stage(rpc[r])
    BY <1>6, <2>1, <2>4
  <2> QED BY <1>10, <2>2, <2>3, <2>4 DEF RunnerSelect, At, Stage
<1>11. CASE RunnerUpdate(r)
  <2>1. s \in Sessions /\ UNCHANGED <<agent, op>>
    BY <1>1, <1>11 DEF RunnerUpdate, At
  <2>2. CASE HasRow(s)
    <3>1. state' = [state EXCEPT ![s] = Wanted(r)]
      BY <1>11, <2>2 DEF RunnerUpdate, WriteState
    <3>2. Looks' = [Looks EXCEPT ![s] = Look(Wanted(r))]
      BY <2>1, <3>1, LooksWritten
    <3>3. Service!Exists(s)
      BY <2>1, <2>2, RowExists
    <3>4. CASE rpc[r] = "updRunning"
      <4>1. Goto(r, "beat")
        BY <1>11, <2>2, <3>4 DEF RunnerUpdate
      <4>2. Service!Comes(r, "started", "announced") /\ rsess' = rsess
        BY <3>4, <4>1, StageComes DEF Stage
      <4>3. Look(Wanted(r)) = "working"
        BY <3>4 DEF Wanted, Look
      <4>4. Service!Announce(r)
        BY <2>1, <3>2, <3>3, <4>2, <4>3 DEF Service!Announce, Service!Show
      <4> QED BY <1>2, <1>4, <2>1, <4>2, <4>4 DEF Service!AgentStep
    <3>5. CASE rpc[r] = "updFinal"
      <4>1. Goto(r, "done")
        BY <1>11, <2>2, <3>5 DEF RunnerUpdate
      <4>2. Service!Comes(r, "announced", "silent") /\ rsess' = rsess
        BY <3>5, <4>1, StageComes DEF Stage
      <4>3. Look(Wanted(r)) = IF agent[r] = "success" THEN "completed" ELSE "halted"
        BY <3>5 DEF Wanted, FinalState, Look
      <4>4. agent[r] \in {"success", "failure"}
        BY <3>5 DEF ServiceInv, AgentThere
      <4>5. Service!Report(r)
        BY <2>1, <3>2, <3>3, <4>2, <4>3, <4>4 DEF Service!Report, Service!Show
      <4> QED BY <1>2, <1>4, <2>1, <4>2, <4>5 DEF Service!AgentStep
    <3>6. CASE rpc[r] = "updFailed"
      <4>1. Goto(r, "done")
        BY <1>11, <2>2, <3>6 DEF RunnerUpdate
      <4>2. Service!Comes(r, "broken", "silent") /\ rsess' = rsess
        BY <3>6, <4>1, StageComes DEF Stage
      <4>3. Look(Wanted(r)) = "halted"
        BY <3>6 DEF Wanted, Look
      <4>4. Service!Apologise(r)
        BY <2>1, <3>2, <3>3, <4>2, <4>3 DEF Service!Apologise, Service!Show
      <4> QED BY <1>2, <1>4, <2>1, <4>2, <4>4 DEF Service!AgentStep
    <3> QED BY <1>11, <3>4, <3>5, <3>6 DEF RunnerUpdate, At
  <2>3. CASE ~HasRow(s) /\ rpc[r] = "updFailed"
    <3>1. Goto(r, "done") /\ state' = state
      BY <1>11, <2>3 DEF RunnerUpdate, rowVars
    <3>2. Service!Comes(r, "broken", "silent") /\ rsess' = rsess
      BY <2>3, <3>1, StageComes DEF Stage
    <3>3. Service!Apologise(r)
      BY <1>3, <2>1, <3>1, <3>2 DEF Service!Apologise
    <3> QED BY <1>2, <1>4, <2>1, <3>2, <3>3 DEF Service!AgentStep
  <2>4. CASE ~HasRow(s) /\ rpc[r] # "updFailed"
    <3>1. Goto(r, "failPid") /\ state' = state
      BY <1>11, <2>4 DEF RunnerUpdate, rowVars
    <3> QED BY <1>5, <1>11, <2>1, <2>4, <3>1 DEF RunnerUpdate, At, Stage
  <2> QED BY <2>2, <2>3, <2>4
<1>12. CASE Beat(r)
  <2>1. CASE Goto(r, "wait")
    BY <1>6, <1>12, <2>1 DEF Beat, At, Stage
  <2>2. CASE Goto(r, "failPid") /\ rpc[r] = "beat"
    BY <1>5, <1>12, <2>2 DEF Beat, Stage
  <2> QED BY <1>12, <2>1, <2>2 DEF Beat, At
<1>13. CASE Reap(r)
  BY <1>6, <1>13 DEF Reap, At, Stage, rowVars
<1>14. CASE ClearPid(r)
  <2>1. UNCHANGED <<state, agent, op>>
    BY <1>14 DEF ClearPid, WritePid, rowVars
  <2>2. CASE rpc[r] = "clearPid" /\ Goto(r, "failPid")
    BY <1>5, <2>1, <2>2 DEF Stage
  <2>3. CASE \E pc \in {"selFinal", "selFailed"} : Goto(r, pc) /\ Stage(pc) = Stage(rpc[r])
    BY <1>6, <2>1, <2>3
  <2> QED BY <1>14, <2>2, <2>3 DEF ClearPid, At, Stage
<1>15. CASE AgentExit(r)
  <2>1. Stages' = Stages
    BY <1>15 DEF AgentExit, runnerVars, Stages
  <2>2. Service!End(r)
    BY <1>3, <1>15, <2>1 DEF AgentExit, rowVars, runnerVars, Service!End
  <2> QED BY <1>4, <1>15, <2>2 DEF AgentExit, Service!Next
<1>16. CASE RunnerCrash(r)
  BY <1>3, <1>4, <1>16 DEF RunnerCrash, rowVars, Stages, Unseen
<1> QED BY <1>7, <1>8, <1>9, <1>10, <1>11, <1>12, <1>13, <1>14, <1>15, <1>16 DEF RunnerStep

LEMMA OperatorServes ==
  ASSUME Typed, ServiceInv, NEW o \in Operators, OpBegins(o) \/ OpStep(o) \/ OpCrash(o)
  PROVE  Service!Next \/ Unseen
<1> DEFINE s == op[o].sess
<1>1. op[o] \in Operation /\ KillsOwn
  BY DEF Typed, TypeOK, ServiceInv
<1>2. op[o].pc # "idle" => s \in Sessions
  BY DEF Typed, BusyWithSession
<1>3. state' = state => Looks' = Looks
  BY DEF Looks
<1>4. UNCHANGED runnerVars => Stages' = Stages /\ rsess' = rsess
  BY DEF runnerVars, Stages
<1>5. Purposes[o].wants = Purpose(op[o].pc) /\ Purposes[o].sess = s
  BY DEF Purposes
<1>6. ASSUME Service!ClientStep(o) PROVE Service!Next
  BY <1>6 DEF Service!Next
<1>7. ASSUME op[o].pc # "idle", OpDone(o), UNCHANGED <<state, runnerVars, agent>>
      PROVE  Service!Next
  <2>1. Service!GiveUp(o)
    BY <1>1, <1>3, <1>4, <1>7, PurposeTurns DEF Operation, Service!GiveUp, Service!agents
  <2> QED BY <1>6, <2>1 DEF Service!ClientStep
<1>8. ASSUME NEW pc, OpGoto(o, pc), Purpose(pc) = Purpose(op[o].pc),
             UNCHANGED <<state, runnerVars, agent>>
      PROVE  Unseen
  BY <1>1, <1>3, <1>4, <1>8, PurposeTurns DEF Unseen
<1>9. ASSUME Purpose(op[o].pc) = "halt", op[o].pc # "idle", OpDone(o), HasRow(s),
             UNCHANGED <<runnerVars, agent>>,
             NEW to \in {"Failed", "Stopped", "Stale"}, state' = [state EXCEPT ![s] = to]
      PROVE  Service!Next
  <2>1. Looks' = [Looks EXCEPT ![s] = "halted"]
    BY <1>2, <1>9, LooksWritten DEF Look
  <2>2. Service!Exists(s)
    BY <1>2, <1>9, RowExists
  <2>3. Purposes' = [Purposes EXCEPT ![o] = Service!Idle]
    BY <1>1, <1>9, PurposeTurns
  <2>4. Service!Halt(o, s)
    BY <1>4, <1>5, <1>9, <2>1, <2>2, <2>3
       DEF Service!Halt, Service!Wants, Service!Show, Service!agents
  <2> QED BY <1>5, <1>6, <2>4 DEF Service!ClientStep
<1>10. CASE OpBegins(o)
  <2>1. PICK x \in Sessions :
          \/ BeginQueue(o, x) \/ BeginResume(o, x) \/ BeginStop(o, x)
          \/ BeginSweep(o, x) \/ BeginRecover(o, x) \/ BeginDelete(o, x)
    BY <1>10 DEF OpBegins
  <2>2. op[o].pc = "idle" /\ UNCHANGED <<runnerVars, agent>>
    BY <2>1 DEF BeginQueue, BeginResume, BeginStop, BeginSweep, BeginRecover, BeginDelete, Idle
  <2>3. Purposes[o] = Service!Idle
    BY <1>1, <2>2, PurposeTurns
  <2>4. UNCHANGED <<Stages, rsess, agent>>
    BY <1>4, <2>2
  <2>5. CASE BeginQueue(o, x)
    <3>1. Looks' = [Looks EXCEPT ![x] = "waiting"]
      BY <2>5, LooksWritten DEF BeginQueue, WriteState, Look
    <3>2. Looks[x] = "absent"
      BY <2>5 DEF BeginQueue, Looks, Look
    <3>3. Service!Turns(o, "agent", x)
      BY <1>1, <2>5, PurposeTurns DEF BeginQueue, Purpose
    <3>4. Service!Create(o, x)
      BY <2>3, <2>4, <3>1, <3>2, <3>3 DEF Service!Create, Service!agents
    <3> QED BY <1>6, <3>4 DEF Service!ClientStep
  <2>6. ASSUME Service!TakeUp(o, x) PROVE Service!Next
    BY <1>6, <2>6 DEF Service!ClientStep
  <2>7. CASE BeginResume(o, x)
    <3>1. Looks[x] \in {"waiting", "halted"} /\ Looks' = Looks
      BY <1>3, <2>7 DEF BeginResume, HasRow, SessionState, rowVars, Looks, Look
    <3>2. Service!Turns(o, "renewal", x)
      BY <1>1, <2>7, PurposeTurns DEF BeginResume, Purpose
    <3> QED BY <2>3, <2>4, <2>6, <3>1, <3>2 DEF Service!TakeUp, Service!agents
  <2>8. CASE BeginDelete(o, x)
    <3>1. Looks[x] \in {"completed", "halted"} /\ Looks' = Looks
      BY <1>3, <2>8 DEF BeginDelete, rowVars, Looks, Look
    <3>2. Service!Turns(o, "removal", x)
      BY <1>1, <2>8, PurposeTurns DEF BeginDelete, Purpose
    <3> QED BY <2>3, <2>4, <2>6, <3>1, <3>2 DEF Service!TakeUp, Service!agents
  <2>9. CASE BeginStop(o, x) \/ BeginSweep(o, x) \/ BeginRecover(o, x)
    <3>1. HasRow(x) /\ Looks' = Looks
      BY <1>3, <2>9 DEF BeginStop, BeginSweep, BeginRecover, HasRow, SessionState, rowVars
    <3>2. Service!Exists(x)
      BY <3>1, RowExists
    <3>3. \E pc \in {"kill", "killOverdue", "select", "probe"},
             to \in {"Failed", "Stopped", "Stale"} : OpBegin(o, x, pc, to)
      BY <2>9 DEF BeginStop, BeginSweep, BeginRecover
    <3>4. Service!Turns(o, "halt", x)
      BY <1>1, <3>3, PurposeTurns DEF Purpose
    <3> QED BY <2>3, <2>4, <2>6, <3>1, <3>2, <3>4 DEF Service!TakeUp, Service!agents
  <2> QED BY <2>1, <2>5, <2>7, <2>8, <2>9
<1>11. CASE OpStep(o)
  <2>1. CASE SpawnRunner(o)
    <3>1. Purpose(op[o].pc) = "agent" /\ UNCHANGED <<state, agent>>
      BY <2>1 DEF SpawnRunner, Purpose, rowVars
    <3>2. ASSUME NEW r \in Runners, rpc[r] = "unused", rpc' = [rpc EXCEPT ![r] = "launch"],
                 rsess' = [rsess EXCEPT ![r] = s], OpDone(o)
          PROVE  Service!Next
      <4>1. Service!Comes(r, "unused", "asked")
        BY <3>2 DEF Service!Comes, Stages, Stage, Typed, TypeOK
      <4>2. Purposes' = [Purposes EXCEPT ![o] = Service!Idle]
        BY <1>1, <3>2, PurposeTurns
      <4>3. Service!Ask(o, s)
        BY <1>3, <1>5, <3>1, <3>2, <4>1, <4>2 DEF Service!Ask, Service!Wants
      <4> QED BY <1>5, <1>6, <4>3 DEF Service!ClientStep
    <3>3. CASE OpGoto(o, "select") /\ UNCHANGED runnerVars
      <4>1. Service!Turns(o, "halt", s)
        <5>1. Purpose("select") = "halt"
          BY DEF Purpose
        <5> QED BY <1>1, <3>3, <5>1, PurposeTurns
      <4>2. Service!Despair(o, s)
        BY <1>3, <1>4, <1>5, <3>1, <3>3, <4>1
           DEF Service!Despair, Service!Wants, Service!agents
      <4> QED BY <1>5, <1>6, <4>2 DEF Service!ClientStep
    <3>4. CASE OpDone(o) /\ UNCHANGED runnerVars
      BY <1>7, <2>1, <3>1, <3>4 DEF SpawnRunner
    <3> QED BY <2>1, <3>2, <3>3, <3>4 DEF SpawnRunner
  <2>2. CASE ResetToPending(o)
    <3>1. CASE HasRow(s)
      <4>1. Looks' = [Looks EXCEPT ![s] = "waiting"]
        BY <1>2, <2>2, <3>1, LooksWritten DEF ResetToPending, WriteStateClearPid, Look
      <4>2. Service!Exists(s)
        BY <1>2, <2>2, <3>1, RowExists DEF ResetToPending
      <4>3. Service!Turns(o, "agent", s) /\ Purpose(op[o].pc) = "renewal"
        BY <1>1, <2>2, <3>1, PurposeTurns DEF ResetToPending, Purpose
      <4>4. Service!Renew(o, s)
        BY <1>4, <1>5, <2>2, <4>1, <4>2, <4>3
           DEF ResetToPending, Service!Renew, Service!Wants, Service!Show, Service!agents
      <4> QED BY <1>5, <1>6, <4>4 DEF Service!ClientStep
    <3>2. CASE ~HasRow(s)
      BY <1>7, <2>2, <3>2 DEF ResetToPending, rowVars
    <3> QED BY <3>1, <3>2
  <2>3. CASE Kill(o)
    <3>1. Purpose(op[o].pc) = "halt" /\ UNCHANGED <<state, runnerVars>>
          /\ \E pc \in {"clearPid", "failNow"} : OpGoto(o, pc) /\ Purpose(pc) = "halt"
      BY <2>3 DEF Kill, Purpose, rowVars
    <3>2. CASE agent' = agent
      BY <1>8, <3>1, <3>2
    <3>3. CASE op[o].pid # NoPid /\ agent[op[o].pid] = "alive" /\
               \E end \in {"success", "failure"} : agent' = [agent EXCEPT ![op[o].pid] = end]
      <4>1. op[o].pid \in Runners /\ rsess[op[o].pid] = s
        BY <1>1, <3>3 DEF KillsOwn, Operation
      <4>2. Purposes' = Purposes /\ Looks' = Looks
        BY <1>1, <1>3, <3>1, PurposeTurns
      <4>3. Service!End(op[o].pid)
        BY <1>4, <3>1, <3>3, <4>2 DEF Service!End
      <4>4. Service!Kill(o, s)
        BY <1>5, <3>1, <4>1, <4>2, <4>3 DEF Service!Kill, Service!Wants
      <4> QED BY <1>5, <1>6, <4>4 DEF Service!ClientStep
    <3> QED BY <2>3, <3>2, <3>3 DEF Kill
  <2>4. CASE StopClearPid(o)
    <3>1. UNCHANGED <<state, runnerVars, agent>>
      BY <2>4 DEF StopClearPid, WritePid, rowVars
    <3> QED BY <1>7, <1>8, <2>4, <3>1 DEF StopClearPid, Purpose
  <2>5. CASE OpSelect(o)
    BY <1>7, <1>8, <2>5 DEF OpSelect, Purpose, rowVars
  <2>6. CASE OpUpdate(o)
    <3>1. CASE HasRow(s)
      BY <1>1, <1>9, <2>6, <3>1 DEF OpUpdate, WriteState, Purpose, Operation
    <3>2. CASE ~HasRow(s)
      BY <1>7, <2>6, <3>2 DEF OpUpdate, rowVars
    <3> QED BY <3>1, <3>2
  <2>7. CASE Probe(o)
    BY <1>7, <1>8, <2>7 DEF Probe, Purpose, rowVars
  <2>8. CASE FailNow(o)
    <3>1. CASE HasRow(s)
      BY <1>9, <2>8, <3>1 DEF FailNow, WriteStateClearPid, Purpose
    <3>2. CASE ~HasRow(s)
      BY <1>7, <2>8, <3>2 DEF FailNow, rowVars
    <3> QED BY <3>1, <3>2
  <2>9. CASE DeleteRow(o)
    <3>1. CASE HasRow(s)
      <4>1. Looks' = [Looks EXCEPT ![s] = "gone"]
        BY <1>2, <2>9, <3>1, LooksWritten DEF DeleteRow, Look
      <4>2. Service!Exists(s)
        BY <1>2, <2>9, <3>1, RowExists DEF DeleteRow
      <4>3. Purposes' = [Purposes EXCEPT ![o] = Service!Idle] /\ Purpose(op[o].pc) = "removal"
        BY <1>1, <2>9, PurposeTurns DEF DeleteRow, Purpose
      <4>4. Service!Remove(o, s)
        BY <1>4, <1>5, <2>9, <4>1, <4>2, <4>3
           DEF DeleteRow, Service!Remove, Service!Wants, Service!Show, Service!agents
      <4> QED BY <1>5, <1>6, <4>4 DEF Service!ClientStep
    <3>2. CASE ~HasRow(s)
      BY <1>7, <2>9, <3>2 DEF DeleteRow, rowVars
    <3> QED BY <3>1, <3>2
  <2> QED BY <1>11, <2>1, <2>2, <2>3, <2>4, <2>5, <2>6, <2>7, <2>8, <2>9 DEF OpStep
<1>12. CASE OpCrash(o)
  BY <1>7, <1>12 DEF OpCrash, rowVars
<1> QED BY <1>10, <1>11, <1>12

\* SessionsServed for every instance: the lifecycle implements SessionService,
\* for any number of sessions, runners and operators, wherever they die.
THEOREM LifecycleImplementsService == Spec => SessionsServed
<1>1. Init => Service!Init
  BY DEF Init, Service!Init, Service!Idle, Looks, Look, Stages, Stage, Purposes, Purpose,
         NoOperation
<1>2. Typed /\ ServiceInv /\ [Next]_vars => Service!Next \/ Unseen
  <2> SUFFICES ASSUME Typed, ServiceInv, [Next]_vars PROVE Service!Next \/ Unseen
    OBVIOUS
  <2>1. ASSUME NEW r \in Runners, RunnerStep(r) \/ AgentExit(r) \/ RunnerCrash(r)
        PROVE  Service!Next \/ Unseen
    BY <2>1, RunnerServes
  <2>2. ASSUME NEW o \in Operators, OpBegins(o) \/ OpStep(o) \/ OpCrash(o)
        PROVE  Service!Next \/ Unseen
    BY <2>2, OperatorServes
  <2>3. ASSUME NEW s \in Sessions, HeartbeatExpires(s) PROVE Unseen
    BY <2>3 DEF HeartbeatExpires, runnerVars, Unseen, Looks, Stages, Purposes
  <2>4. CASE UNCHANGED vars
    BY <2>4 DEF vars, Unseen, Looks, Stages, Purposes
  <2> QED BY <2>1, <2>2, <2>3, <2>4 DEF Next
<1>3. Typed /\ ServiceInv /\ [Next]_vars
        => [Service!Next]_<<Looks, <<Stages, rsess, agent>>, Purposes>>
  BY <1>2 DEF Unseen
<1> QED BY <1>1, <1>3, AlwaysTyped, AlwaysPid, ServiceInit, ServiceInvStep, PTL
        DEF Spec, SessionsServed, Service!Spec, Service!agents

=============================================================================

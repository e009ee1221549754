-------------------------- MODULE SessionLifecycle --------------------------
(***************************************************************************)
(* The life of ECC2 sessions: the rows of the SQLite table `sessions`, the *)
(* detached runner processes that launch and watch one agent each, the     *)
(* agents themselves, and the operations that the CLI, the dashboard and   *)
(* the daemon perform on the same rows from processes of their own.        *)
(*                                                                         *)
(* Every statement the code sends to the store is one step.  update_state  *)
(* is two (its SELECT and its UPDATE are separate statements outside any   *)
(* transaction), so processes interleave between a read and the write that *)
(* rests on it.                                                            *)
(***************************************************************************)
EXTENDS SessionStates, FiniteSets, Integers

CONSTANTS
  Sessions,        \* ids that sessions may be created with
  Runners,         \* runner processes; each starts at most one agent, so a
                   \* runner also names its agent's process id
  Operators,       \* CLI calls, the dashboard's tick, the daemon's passes
  Operations,      \* which operations the operators perform
  AutoTerminate,   \* Config::auto_terminate_stale_sessions
  Unsupported,     \* sessions whose agent type has no program to run
  SpawnMayFail,    \* starting a runner or an agent may fail
  MayCrash,        \* a runner or an operator's process may die
  NoPid,           \* the NULL of column pid
  NoSession

OperationKinds == {"queue", "stop", "resume", "sweep", "recover", "delete"}

ASSUME ConstantsAssumption ==
  /\ NoPid \notin Runners
  /\ NoSession \notin Sessions
  /\ Operations \subseteq OperationKinds
  /\ Unsupported \subseteq Sessions
  /\ {AutoTerminate, SpawnMayFail, MayCrash} \subseteq BOOLEAN

VARIABLES
  state,    \* column state of each row, "NotCreated" or "Deleted"
  pid,      \* column pid of each row
  fresh,    \* whether last_heartbeat_at is within session_timeout_secs
  rpc,      \* where each runner is in run_session / capture_command_output
  rsess,    \* the session each runner was started for
  agent,    \* the agent process of each runner
  down,     \* runners whose process died
  op        \* what each operator is doing

rowVars    == <<state, pid, fresh>>
runnerVars == <<rpc, rsess, down>>
vars       == <<state, pid, fresh, rpc, rsess, agent, down, op>>

HasRow(s) == state[s] \in SessionState

\* Up to updRunning the runner is launching; it then waits for the agent and
\* records the result; failPid .. updFailed is the error path.
RunnerPC ==
  {"unused", "launch", "spawn", "setPid", "selRunning", "updRunning", "beat",
   "wait", "clearPid", "selFinal", "updFinal",
   "failPid", "selFailed", "updFailed", "done"}

AgentStatus == {"none", "alive", "success", "failure"}

OpPC ==
  {"idle", "spawnNew", "reset", "spawnResumed", "kill", "clearPid",
   "select", "update", "killOverdue", "probe", "failNow", "delete"}

\* sess and pid are what the operation read when it began; `to` is the state
\* it is about to hand to update_state.
Operation ==
  [pc : OpPC, sess : Sessions \cup {NoSession}, pid : Runners \cup {NoPid},
   to : {"Failed", "Stopped", "Stale"}]

NoOperation == [pc |-> "idle", sess |-> NoSession, pid |-> NoPid, to |-> "Failed"]

TypeOK ==
  /\ state \in [Sessions -> RowState]
  /\ pid   \in [Sessions -> Runners \cup {NoPid}]
  /\ fresh \in [Sessions -> BOOLEAN]
  /\ rpc   \in [Runners -> RunnerPC]
  /\ rsess \in [Runners -> Sessions \cup {NoSession}]
  /\ agent \in [Runners -> AgentStatus]
  /\ down  \subseteq Runners
  /\ op    \in [Operators -> Operation]

Init ==
  /\ state = [s \in Sessions |-> "NotCreated"]
  /\ pid   = [s \in Sessions |-> NoPid]
  /\ fresh = [s \in Sessions |-> FALSE]
  /\ rpc   = [r \in Runners |-> "unused"]
  /\ rsess = [r \in Runners |-> NoSession]
  /\ agent = [r \in Runners |-> "none"]
  /\ down  = {}
  /\ op    = [o \in Operators |-> NoOperation]

(***************************************************************************)
(* The store's writes.  Each of them also refreshes last_heartbeat_at.     *)
(***************************************************************************)

\* The UPDATE of update_state: it does not look at the row's state again.
WriteState(s, to) ==
  /\ state' = [state EXCEPT ![s] = to]
  /\ fresh' = [fresh EXCEPT ![s] = TRUE]
  /\ UNCHANGED pid

\* update_pid
WritePid(s, p) ==
  /\ pid'   = [pid EXCEPT ![s] = p]
  /\ fresh' = [fresh EXCEPT ![s] = TRUE]
  /\ UNCHANGED state

\* update_state_and_pid(id, to, None): no transition check at all.
WriteStateClearPid(s, to) ==
  /\ state' = [state EXCEPT ![s] = to]
  /\ pid'   = [pid EXCEPT ![s] = NoPid]
  /\ fresh' = [fresh EXCEPT ![s] = TRUE]

\* The SELECT of update_state and its check.
MayWriteState(s, to) == HasRow(s) /\ CanTransition(state[s], to)

(***************************************************************************)
(* A runner: `ecc run-session`, that is run_session and then               *)
(* capture_command_output.  Its own writer thread sends one statement at a *)
(* time and acknowledges each before the next.                             *)
(***************************************************************************)

At(r, pc) == r \notin down /\ rpc[r] = pc
Goto(r, pc) == rpc' = [rpc EXCEPT ![r] = pc] /\ UNCHANGED <<rsess, down>>

\* Mutant of Launch: the runner does not re-read the row.
LaunchUnseen(r) ==
  /\ At(r, "launch")
  /\ Goto(r, IF rsess[r] \notin Unsupported THEN "spawn" ELSE "done")
  /\ UNCHANGED <<rowVars, agent, op>>

\* run_session re-reads the row and only goes on from Pending; without a
\* program for the agent type it gives up and leaves the row as it is.
Launch(r) ==
  /\ At(r, "launch")
  /\ LET s == rsess[r] IN
       Goto(r, IF state[s] = "Pending" /\ s \notin Unsupported
               THEN "spawn" ELSE "done")
  /\ UNCHANGED <<rowVars, agent, op>>

SpawnAgent(r) ==
  /\ At(r, "spawn")
  /\ \/ /\ agent' = [agent EXCEPT ![r] = "alive"]
        /\ Goto(r, "setPid")
     \/ /\ SpawnMayFail
        /\ Goto(r, "failPid")
        /\ UNCHANGED agent
  /\ UNCHANGED <<rowVars, op>>

RecordPid(r) ==
  /\ At(r, "setPid")
  /\ IF HasRow(rsess[r])
     THEN WritePid(rsess[r], r) /\ Goto(r, "selRunning")
     ELSE Goto(r, "failPid") /\ UNCHANGED rowVars
  /\ UNCHANGED <<agent, op>>

\* The state a runner asks update_state for at each of its three calls.
FinalState(r) == IF agent[r] = "success" THEN "Completed" ELSE "Failed"
Wanted(r) == CASE rpc[r] \in {"selRunning", "updRunning"} -> "Running"
               [] rpc[r] \in {"selFinal", "updFinal"}     -> FinalState(r)
               [] OTHER                                   -> "Failed"

\* A refused or failed update_state sends the runner to its error path, from
\* where it ends whatever happens.
RunnerSelect(r) ==
  /\ \/ At(r, "selRunning") \/ At(r, "selFinal") \/ At(r, "selFailed")
  /\ Goto(r, IF MayWriteState(rsess[r], Wanted(r))
             THEN CASE rpc[r] = "selRunning" -> "updRunning"
                    [] rpc[r] = "selFinal"   -> "updFinal"
                    [] OTHER                 -> "updFailed"
             ELSE IF rpc[r] = "selFailed" THEN "done" ELSE "failPid")
  /\ UNCHANGED <<rowVars, agent, op>>

\* Mutant of RunnerUpdate: a runner whose agent was killed leaves the row to
\* whoever killed it.
RunnerUpdateOnSuccessOnly(r) ==
  /\ \/ At(r, "updRunning") \/ At(r, "updFinal") \/ At(r, "updFailed")
  /\ IF HasRow(rsess[r]) /\ (rpc[r] = "updFinal" => agent[r] = "success")
     THEN /\ WriteState(rsess[r], Wanted(r))
          /\ Goto(r, IF rpc[r] = "updRunning" THEN "beat" ELSE "done")
     ELSE /\ Goto(r, "done")
          /\ UNCHANGED rowVars
  /\ UNCHANGED <<agent, op>>

RunnerUpdate(r) ==
  /\ \/ At(r, "updRunning") \/ At(r, "updFinal") \/ At(r, "updFailed")
  /\ IF HasRow(rsess[r])
     THEN /\ WriteState(rsess[r], Wanted(r))
          /\ Goto(r, IF rpc[r] = "updRunning" THEN "beat" ELSE "done")
     ELSE /\ Goto(r, IF rpc[r] = "updFailed" THEN "done" ELSE "failPid")
          /\ UNCHANGED rowVars
  /\ UNCHANGED <<agent, op>>

\* touch_heartbeat, once before the wait and then from the ticker.
Beat(r) ==
  /\ At(r, "beat") \/ At(r, "wait")
  /\ IF HasRow(rsess[r])
     THEN fresh' = [fresh EXCEPT ![rsess[r]] = TRUE] /\ Goto(r, "wait")
     ELSE UNCHANGED fresh /\ Goto(r, IF rpc[r] = "beat" THEN "failPid" ELSE "wait")
  /\ UNCHANGED <<state, pid, agent, op>>

Reap(r) ==
  /\ At(r, "wait")
  /\ agent[r] # "alive"
  /\ Goto(r, "clearPid")
  /\ UNCHANGED <<rowVars, agent, op>>

\* Mutant of ClearPid: a successful end leaves the pid in the row.
ClearPidOnErrorOnly(r) ==
  /\ At(r, "clearPid") \/ At(r, "failPid")
  /\ IF HasRow(rsess[r]) /\ rpc[r] = "failPid"
     THEN WritePid(rsess[r], NoPid) /\ Goto(r, "selFailed")
     ELSE Goto(r, IF rpc[r] = "clearPid" THEN "selFinal" ELSE "selFailed") /\ UNCHANGED rowVars
  /\ UNCHANGED <<agent, op>>

\* update_pid(None) after the wait, and again at the start of the error path,
\* where its own failure is ignored.
ClearPid(r) ==
  /\ At(r, "clearPid") \/ At(r, "failPid")
  /\ IF HasRow(rsess[r])
     THEN /\ WritePid(rsess[r], NoPid)
          /\ Goto(r, IF rpc[r] = "clearPid" THEN "selFinal" ELSE "selFailed")
     ELSE /\ Goto(r, IF rpc[r] = "clearPid" THEN "failPid" ELSE "selFailed")
          /\ UNCHANGED rowVars
  /\ UNCHANGED <<agent, op>>

RunnerStep(r) ==
  \/ Launch(r) \/ SpawnAgent(r) \/ RecordPid(r)
  \/ RunnerSelect(r) \/ RunnerUpdate(r)
  \/ Beat(r) \/ Reap(r) \/ ClearPid(r)

\* The agent is a process of its own and outlives its runner.
AgentExit(r) ==
  /\ agent[r] = "alive"
  /\ \E status \in {"success", "failure"} : agent' = [agent EXCEPT ![r] = status]
  /\ UNCHANGED <<rowVars, runnerVars, op>>

RunnerCrash(r) ==
  /\ MayCrash
  /\ r \notin down /\ rpc[r] \notin {"unused", "done"}
  /\ down' = down \cup {r}
  /\ UNCHANGED <<rowVars, rpc, rsess, agent, op>>

(***************************************************************************)
(* The operators.  An operation on a list of sessions (a heartbeat sweep,  *)
(* crash recovery) is one operation per session of the list it read.       *)
(***************************************************************************)

OpGoto(o, pc) == op' = [op EXCEPT ![o].pc = pc, ![o].pid = NoPid]
OpDone(o) == op' = [op EXCEPT ![o] = NoOperation]
\* An operation works from the row it read when it began; a probe and a kill use
\* the pid of that row, and nothing uses it after them.
UsesPid == {"kill", "killOverdue", "probe"}
OpBegin(o, s, pc, to) ==
  op' = [op EXCEPT ![o] = [pc |-> pc, sess |-> s, to |-> to,
                           pid |-> IF pc \in UsesPid THEN pid[s] ELSE NoPid]]

Idle(o, kind) == kind \in Operations /\ op[o].pc = "idle"

\* Bound: an operation that starts a runner begins only while an unused runner
\* is left for it.
RunnerLeft ==
  Cardinality({o \in Operators : op[o].pc \in {"spawnNew", "reset", "spawnResumed"}})
    < Cardinality({r \in Runners : rpc[r] = "unused"})

\* queue_session_...: insert_session, then start a runner.
BeginQueue(o, s) ==
  /\ Idle(o, "queue") /\ RunnerLeft
  /\ state[s] = "NotCreated"
  /\ WriteState(s, "Pending")
  /\ OpBegin(o, s, "spawnNew", "Failed")
  /\ UNCHANGED <<runnerVars, agent>>

\* Mutant of SpawnRunner: no second runner while one for the session is alive.
SpawnRunnerUnlessRunning(o) ==
  /\ op[o].pc \in {"spawnNew", "spawnResumed"}
  /\ IF \E q \in Runners : rsess[q] = op[o].sess /\ rpc[q] # "done"
     THEN UNCHANGED runnerVars
     ELSE \E r \in Runners :
            /\ rpc[r] = "unused"
            /\ rpc'   = [rpc EXCEPT ![r] = "launch"]
            /\ rsess' = [rsess EXCEPT ![r] = op[o].sess]
            /\ UNCHANGED down
  /\ OpDone(o)
  /\ UNCHANGED <<rowVars, agent>>

\* spawn_session_runner_for_program.  When it fails a new session is marked
\* Failed; a resumed one is left Pending and the error returned.
SpawnRunner(o) ==
  /\ op[o].pc \in {"spawnNew", "spawnResumed"}
  /\ \/ /\ \E r \in Runners :
             /\ rpc[r] = "unused"
             /\ rpc'   = [rpc EXCEPT ![r] = "launch"]
             /\ rsess' = [rsess EXCEPT ![r] = op[o].sess]
        /\ OpDone(o)
        /\ UNCHANGED down
     \/ /\ SpawnMayFail
        /\ IF op[o].pc = "spawnNew" THEN OpGoto(o, "select") ELSE OpDone(o)
        /\ UNCHANGED runnerVars
  /\ UNCHANGED <<rowVars, agent>>

\* resume_session refuses Completed and Running, and nothing else; the agent
\* the row may still name is neither looked at nor killed.
BeginResume(o, s) ==
  /\ Idle(o, "resume") /\ RunnerLeft
  /\ HasRow(s) /\ state[s] \notin {"Completed", "Running"}
  /\ OpBegin(o, s, "reset", "Failed")
  /\ UNCHANGED <<rowVars, runnerVars, agent>>

\* Mutant of ResetToPending: a state of its own that from_db_value would not know.
ResetToResuming(o) ==
  /\ op[o].pc = "reset"
  /\ IF HasRow(op[o].sess)
     THEN WriteStateClearPid(op[o].sess, "Resuming") /\ OpGoto(o, "spawnResumed")
     ELSE UNCHANGED rowVars /\ OpDone(o)
  /\ UNCHANGED <<runnerVars, agent>>

ResetToPending(o) ==
  /\ op[o].pc = "reset"
  /\ IF HasRow(op[o].sess)
     THEN WriteStateClearPid(op[o].sess, "Pending") /\ OpGoto(o, "spawnResumed")
     ELSE UNCHANGED rowVars /\ OpDone(o)
  /\ UNCHANGED <<runnerVars, agent>>

\* stop_session: kill the pid that was read, clear it, then Stopped.  It has
\* no condition on the state.
BeginStop(o, s) ==
  /\ Idle(o, "stop")
  /\ HasRow(s)
  /\ OpBegin(o, s, "kill", "Stopped")
  /\ UNCHANGED <<rowVars, runnerVars, agent>>

\* kill_process: SIGTERM, a pause, SIGKILL.  Signalling a process that is gone
\* is a success, and an agent may answer SIGTERM by exiting cleanly.
Kill(o) ==
  /\ op[o].pc \in {"kill", "killOverdue"}
  /\ IF op[o].pid # NoPid /\ agent[op[o].pid] = "alive"
     THEN \E status \in {"success", "failure"} :
            agent' = [agent EXCEPT ![op[o].pid] = status]
     ELSE UNCHANGED agent
  /\ OpGoto(o, IF op[o].pc = "kill" THEN "clearPid" ELSE "failNow")
  /\ UNCHANGED <<rowVars, runnerVars>>

StopClearPid(o) ==
  /\ op[o].pc = "clearPid"
  /\ IF HasRow(op[o].sess)
     THEN WritePid(op[o].sess, NoPid) /\ OpGoto(o, "select")
     ELSE UNCHANGED rowVars /\ OpDone(o)
  /\ UNCHANGED <<runnerVars, agent>>

OpSelect(o) ==
  /\ op[o].pc = "select"
  /\ IF MayWriteState(op[o].sess, op[o].to) THEN OpGoto(o, "update") ELSE OpDone(o)
  /\ UNCHANGED <<rowVars, runnerVars, agent>>

OpUpdate(o) ==
  /\ op[o].pc = "update"
  /\ IF HasRow(op[o].sess) THEN WriteState(op[o].sess, op[o].to) ELSE UNCHANGED rowVars
  /\ OpDone(o)
  /\ UNCHANGED <<runnerVars, agent>>

\* enforce_session_heartbeats on one overdue session.
BeginSweep(o, s) ==
  /\ Idle(o, "sweep")
  /\ state[s] \in {"Running", "Stale"} /\ ~fresh[s]
  /\ \/ AutoTerminate /\ OpBegin(o, s, "killOverdue", "Failed")
     \/ ~AutoTerminate /\ state[s] # "Stale" /\ OpBegin(o, s, "select", "Stale")
  /\ UNCHANGED <<rowVars, runnerVars, agent>>

\* resume_crashed_sessions, when a daemon starts: only Running rows, and only
\* those whose recorded process is gone.
BeginRecover(o, s) ==
  /\ Idle(o, "recover")
  /\ state[s] = "Running"
  /\ OpBegin(o, s, "probe", "Failed")
  /\ UNCHANGED <<rowVars, runnerVars, agent>>

Probe(o) ==
  /\ op[o].pc = "probe"
  /\ IF op[o].pid # NoPid /\ agent[op[o].pid] = "alive"
     THEN OpDone(o)
     ELSE OpGoto(o, "failNow")
  /\ UNCHANGED <<rowVars, runnerVars, agent>>

FailNow(o) ==
  /\ op[o].pc = "failNow"
  /\ IF HasRow(op[o].sess) THEN WriteStateClearPid(op[o].sess, "Failed") ELSE UNCHANGED rowVars
  /\ OpDone(o)
  /\ UNCHANGED <<runnerVars, agent>>

\* delete_session refuses Pending, Running and Idle.
BeginDelete(o, s) ==
  /\ Idle(o, "delete")
  /\ state[s] \in {"Stale", "Completed", "Failed", "Stopped"}
  /\ OpBegin(o, s, "delete", "Failed")
  /\ UNCHANGED <<rowVars, runnerVars, agent>>

DeleteRow(o) ==
  /\ op[o].pc = "delete"
  /\ LET s == op[o].sess IN
       IF HasRow(s)
       THEN /\ state' = [state EXCEPT ![s] = "Deleted"]
            /\ pid'   = [pid EXCEPT ![s] = NoPid]
            /\ fresh' = [fresh EXCEPT ![s] = FALSE]
       ELSE UNCHANGED rowVars
  /\ OpDone(o)
  /\ UNCHANGED <<runnerVars, agent>>

OpStep(o) ==
  \/ SpawnRunner(o) \/ ResetToPending(o) \/ Kill(o) \/ StopClearPid(o)
  \/ OpSelect(o) \/ OpUpdate(o) \/ Probe(o) \/ FailNow(o) \/ DeleteRow(o)

OpBegins(o) ==
  \E s \in Sessions :
    \/ BeginQueue(o, s) \/ BeginResume(o, s) \/ BeginStop(o, s)
    \/ BeginSweep(o, s) \/ BeginRecover(o, s) \/ BeginDelete(o, s)

OpCrash(o) ==
  /\ MayCrash
  /\ op[o].pc # "idle"
  /\ OpDone(o)
  /\ UNCHANGED <<rowVars, runnerVars, agent>>

\* More than session_timeout_secs pass without a write to the row: any process
\* can be held up that long, so nothing but time is needed.
HeartbeatExpires(s) ==
  /\ HasRow(s) /\ fresh[s]
  /\ fresh' = [fresh EXCEPT ![s] = FALSE]
  /\ UNCHANGED <<state, pid, runnerVars, agent, op>>

Next ==
  \/ \E r \in Runners : RunnerStep(r) \/ AgentExit(r) \/ RunnerCrash(r)
  \/ \E o \in Operators : OpBegins(o) \/ OpStep(o) \/ OpCrash(o)
  \/ \E s \in Sessions : HeartbeatExpires(s)

Spec == Init /\ [][Next]_vars

(***************************************************************************)
(* Fairness: a process that is running is scheduled, and an agent ends.    *)
(* Nothing makes an operator begin an operation.                           *)
(***************************************************************************)
RunnerProgress(r) == RunnerStep(r) /\ rpc'[r] # rpc[r]

Fairness ==
  /\ \A r \in Runners : WF_vars(RunnerProgress(r)) /\ WF_vars(AgentExit(r))
  /\ \A o \in Operators : WF_vars(OpStep(o))

FairSpec == Spec /\ Fairness

-----------------------------------------------------------------------------
(***************************************************************************)
(* Safety.                                                                 *)
(***************************************************************************)

\* Who still has work to do for a row.
RecordsPid == {"selRunning", "updRunning", "beat", "wait", "clearPid", "failPid"}
WatchesRunning == {"beat", "wait", "clearPid", "selFinal", "updFinal",
                   "failPid", "selFailed", "updFailed"}
Launching == {"launch", "spawn", "setPid", "selRunning", "updRunning",
              "failPid", "selFailed", "updFailed"}

RunnerFor(s, pcs) == \E r \in Runners : rsess[r] = s /\ rpc[r] \in pcs

\* A process id in the store is that of an agent of the same session whose
\* runner has not yet cleared it (or died before it could): an operator that
\* kills what it reads never signals another session's agent, whatever
\* launches, resumes and sweeps overlap.
RecordedPidIsTended ==
  \A s \in Sessions :
    pid[s] # NoPid => rsess[pid[s]] = s /\ rpc[pid[s]] \in RecordsPid

\* A session shown as Running has a runner that will still record its end, or
\* one that died before it could: no overlap of launches, stops, sweeps and
\* resumes leaves Running behind, so only a crash needs crash recovery.
RunningIsTended ==
  \A s \in Sessions : state[s] = "Running" => RunnerFor(s, WatchesRunning)

\* When no process dies and every program can be started, a Pending session
\* has a launch under way: a runner on its way to Running or to Failed, or an
\* operator about to start one or to mark the session Failed.
ReliableLaunch == ~MayCrash /\ ~SpawnMayFail /\ Unsupported = {}

OperatorLaunching(s) ==
  \E o \in Operators : op[o].sess = s /\ op[o].pc \in {"spawnNew", "spawnResumed"}

PendingIsTended ==
  ReliableLaunch =>
    \A s \in Sessions :
      state[s] = "Pending" => RunnerFor(s, Launching) \/ OperatorLaunching(s)

\* A session is reported Completed only if an agent launched for it ended with
\* success: no race of two runners, a kill or a sweep invents a success.
CompletedMeansSuccess ==
  \A s \in Sessions :
    state[s] = "Completed" =>
      \E r \in Runners : rsess[r] = s /\ agent[r] = "success"

\* Once nothing is under way for a stopped session, no agent of it runs.
InFlight(s) ==
  \/ \E r \in Runners : rsess[r] = s /\ rpc[r] # "done" /\ r \notin down
  \/ \E o \in Operators : op[o].sess = s

StoppedAgentIsDead ==
  \A s \in Sessions :
    state[s] = "Stopped" /\ ~InFlight(s) =>
      \A r \in Runners : rsess[r] = s => agent[r] # "alive"

-----------------------------------------------------------------------------
(***************************************************************************)
(* The sessions as their owner sees them.                                  *)
(***************************************************************************)

Look(column) ==
  CASE column = "NotCreated" -> "absent"
    [] column = "Pending"    -> "waiting"
    [] column = "Running"    -> "working"
    [] column = "Completed"  -> "completed"
    [] column = "Deleted"    -> "gone"
    [] OTHER                 -> "halted"

Stage(pc) ==
  CASE pc = "unused" -> "unused"
    [] pc = "launch" -> "asked"
    [] pc = "spawn"  -> "admitted"
    [] pc \in {"setPid", "selRunning", "updRunning"} -> "started"
    [] pc \in {"beat", "wait", "clearPid", "selFinal", "updFinal"} -> "announced"
    [] pc \in {"failPid", "selFailed", "updFailed"} -> "broken"
    [] OTHER -> "silent"

Purpose(pc) ==
  CASE pc = "idle"   -> "nothing"
    [] pc \in {"spawnNew", "spawnResumed"} -> "agent"
    [] pc = "reset"  -> "renewal"
    [] pc = "delete" -> "removal"
    [] OTHER         -> "halt"

Looks    == [s \in Sessions |-> Look(state[s])]
Stages   == [r \in Runners |-> Stage(rpc[r])]
Purposes == [o \in Operators |-> [wants |-> Purpose(op[o].pc), sess |-> op[o].sess]]

Service == INSTANCE SessionService WITH
  Agents <- Runners, Clients <- Operators,
  shown <- Looks, stage <- Stages, owner <- rsess, health <- agent, client <- Purposes

\* Runners, operators and crashes together keep what SessionService promises
\* the owner of a session.
SessionsServed == Service!Spec

(***************************************************************************)
(* Liveness.                                                               *)
(***************************************************************************)

\* Every session that is created comes to rest in a final state, however stops
\* and resumes overlap its runners.
AtRest(s) == state[s] \in {"Completed", "Failed", "Stopped", "Deleted"}
EverySessionSettles ==
  \A s \in Sessions : HasRow(s) ~> AtRest(s)

\* A launched runner ends, and its agent's pid leaves the store with it.
RunnersEnd ==
  \A r \in Runners :
    rpc[r] = "launch" ~> rpc[r] = "done" /\ \A s \in Sessions : pid[s] # r

=============================================================================

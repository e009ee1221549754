---------------------------- MODULE WorktreeSlots ----------------------------
(***************************************************************************)
(* Git worktrees of ECC2 sessions: at most max_parallel_worktrees sessions *)
(* hold one, the others wait in the table pending_worktree_queue until an  *)
(* activation pass (of the dashboard's tick or of the daemon) finds a free *)
(* slot; prune and cleanup give slots back.                                *)
(*                                                                         *)
(* SessionLifecycle has the statements of a launch, a stop and a sweep;    *)
(* here they are coarser (RunChecks, RunStarts, RunEnds, Stop, GoesStale), *)
(* and the statements and git calls of the worktree code are the steps.    *)
(***************************************************************************)
EXTENDS SessionStates, FiniteSetsExt, Integers, Sequences

CONSTANTS
  Sessions,
  Runs,          \* bound: launches of an agent over all sessions
  Processes,     \* processes that open the database
  Daemons,       \* those of them that loop over prune and activate
  Operations,    \* what the others (CLI calls, dashboards) do
  MaxWorktrees,  \* Config::max_parallel_worktrees
  MayFail,       \* git or starting a runner may fail
  MayCrash,      \* a process may die
  NoRun,
  NoSession

OperationKinds ==
  {"queue", "activate", "prune", "cleanup", "resume", "delete", "stop", "sweep"}

ASSUME SlotsAssumption ==
  /\ NoRun \notin Runs
  /\ NoSession \notin Sessions
  /\ Daemons \subseteq Processes
  /\ Operations \subseteq OperationKinds
  /\ MaxWorktrees \in Nat
  /\ {MayFail, MayCrash} \subseteq BOOLEAN

VARIABLES
  state,     \* column state, as in SessionLifecycle
  pid,       \* column pid: the run whose agent it names
  attached,  \* sessions whose row names a worktree
  home,      \* column working_dir: the repository or the worktree's path
  queue,     \* pending_worktree_queue in the order of requested_at
  disk,      \* what is at the worktree path of each session
  run,       \* launches of agents
  proc       \* what each process is doing

rowVars == <<state, pid, attached, home>>
vars == <<state, pid, attached, home, queue, disk, run, proc>>

Place == {"repo", "worktree"}

\* by: the process a run lives in, when it is not a detached runner.  An orphan
\* is an agent that works although nobody watches it any more.
Run == [pc : {"unused", "starting", "spawning", "working", "orphan", "over"},
        sess : Sessions \cup {NoSession}, cwd : Place,
        by : Processes \cup {"detached"}]

ProcessPC ==
  {"idle", "create", "insert", "enqueue", "launch", "unlaunch", "undo",
   "activate", "next", "make", "fail", "attach", "start", "dequeue",
   "clean", "remove", "clear", "relaunch", "discard", "delete"}

\* sess: the session at hand; cwd: the working_dir it was read or built with;
\* todo: what the pass listed when it began; slots: what it may still attach.
Process ==
  [pc : ProcessPC, sess : Sessions \cup {NoSession}, cwd : Place,
   slots : 0..MaxWorktrees, todo : SUBSET Sessions]

Nothing == [pc |-> "idle", sess |-> NoSession, cwd |-> "repo",
            slots |-> 0, todo |-> {}]

TypeOK ==
  /\ state \in [Sessions -> RowState]
  /\ pid \in [Sessions -> Runs \cup {NoRun}]
  /\ attached \subseteq Sessions
  /\ home \in [Sessions -> Place]
  /\ queue \in Seq(Sessions)
  /\ disk \in [Sessions -> {"absent", "worktree", "plain"}]
  /\ run \in [Runs -> Run]
  /\ proc \in [Processes -> Process]

Init ==
  /\ state = [s \in Sessions |-> "NotCreated"]
  /\ pid = [s \in Sessions |-> NoRun]
  /\ attached = {}
  /\ home = [s \in Sessions |-> "repo"]
  /\ queue = <<>>
  /\ disk = [s \in Sessions |-> "absent"]
  /\ run = [r \in Runs |-> [pc |-> "unused", sess |-> NoSession,
                            cwd |-> "repo", by |-> "detached"]]
  /\ proc = [p \in Processes |-> Nothing]

HasRow(s) == state[s] \in SessionState

\* session_id is the key of the table: a session has one request at most.
Without(q, s) ==
  LET place == CHOOSE i \in DOMAIN q : q[i] = s
  IN  IF \E i \in DOMAIN q : q[i] = s
      THEN SubSeq(q, 1, place - 1) \o SubSeq(q, place + 1, Len(q)) ELSE q

Goto(p, pc) == proc' = [proc EXCEPT ![p].pc = pc]
Done(p) == proc' = [proc EXCEPT ![p] = Nothing]

\* update_state, which refuses what the transition table forbids.
Becomes(s, to) ==
  state' = IF HasRow(s) /\ CanTransition(state[s], to)
           THEN [state EXCEPT ![s] = to] ELSE state

\* A prune is followed by an activation pass in a daemon.
EndPrune(p) ==
  proc' = [proc EXCEPT ![p] =
             [Nothing EXCEPT !.pc = IF p \in Daemons THEN "activate" ELSE "idle"]]

\* Mutant of FreeSlots: one too many.
FreeSlotsOffByOne == IF Cardinality(attached) > MaxWorktrees THEN 0
                     ELSE MaxWorktrees + 1 - Cardinality(attached)

\* available_slots, and the comparison of build_session_record.
FreeSlots == IF Cardinality(attached) >= MaxWorktrees THEN 0
             ELSE MaxWorktrees - Cardinality(attached)

Queued(s) == \E i \in DOMAIN queue : queue[i] = s

\* Mutant of AddWorktree: `git worktree add --force -B`.
AddWorktreeForced(s) == disk' = [disk EXCEPT ![s] = "worktree"]

\* worktree::create_for_session_in_repo: `git worktree add -b` refuses a path or
\* a branch that exists.
AddWorktree(s) == disk[s] = "absent" /\ disk' = [disk EXCEPT ![s] = "worktree"]

\* worktree::remove: its failures are only logged.
RemoveWorktree(s) ==
  \/ disk' = [disk EXCEPT ![s] = "absent"]
  \/ MayFail /\ UNCHANGED disk

\* Bound: an operation that leads to a launch begins only while a run is left
\* for it beside those that queued sessions and other processes may need.
RunLeft ==
  Cardinality({s \in Sessions : Queued(s) \/ \E p \in Processes : proc[p].sess = s})
    < Cardinality({r \in Runs : run[r].pc = "unused"})

StartRun(s, cwd, by) ==
  \E r \in Runs :
    /\ run[r].pc = "unused"
    /\ run' = [run EXCEPT ![r] =
                 [pc |-> "starting", sess |-> s, cwd |-> cwd, by |-> by]]

(***************************************************************************)
(* Queueing a session with a worktree.                                     *)
(***************************************************************************)
May(p, kind) == p \notin Daemons /\ kind \in Operations /\ proc[p].pc = "idle"

\* build_session_record counts the attached worktrees.
BeginQueue(p, s) ==
  /\ May(p, "queue") /\ RunLeft
  /\ state[s] = "NotCreated" /\ \A q \in Processes : proc[q].sess # s
  /\ proc' = [proc EXCEPT ![p].sess = s,
                          ![p].pc = IF FreeSlots > 0 THEN "create" ELSE "insert"]
  /\ UNCHANGED <<rowVars, queue, disk, run>>

CreateWorktree(p) ==
  LET s == proc[p].sess IN
    /\ proc[p].pc = "create"
    /\ \/ /\ AddWorktree(s)
          /\ proc' = [proc EXCEPT ![p].cwd = "worktree", ![p].pc = "insert"]
       \/ /\ MayFail
          /\ Done(p) /\ UNCHANGED disk
    /\ UNCHANGED <<rowVars, queue, run>>

InsertSession(p) ==
  LET s == proc[p].sess
      made == proc[p].cwd = "worktree" IN
    /\ proc[p].pc = "insert"
    /\ state' = [state EXCEPT ![s] = "Pending"]
    /\ attached' = IF made THEN attached \cup {s} ELSE attached
    /\ home' = [home EXCEPT ![s] = proc[p].cwd]
    /\ Goto(p, IF made THEN "launch" ELSE "enqueue")
    /\ UNCHANGED <<pid, queue, disk, run>>

EnqueueRequest(p) ==
  /\ proc[p].pc = "enqueue"
  /\ queue' = IF HasRow(proc[p].sess) THEN Append(queue, proc[p].sess) ELSE queue
  /\ Done(p)
  /\ UNCHANGED <<rowVars, disk, run>>

\* Mutant of SpawnRunner: a failure is reported after the runner has started.
SpawnRunnerThenFail(p) ==
  /\ proc[p].pc \in {"launch", "relaunch"}
  /\ StartRun(proc[p].sess, proc[p].cwd, "detached")
  /\ Goto(p, "unlaunch")
  /\ UNCHANGED <<rowVars, queue, disk>>

\* spawn_session_runner opens a log file under the session's working_dir and
\* creates every directory on the way to it: a worktree that was removed comes
\* back as a plain directory.
SpawnRunner(p) ==
  LET s == proc[p].sess
      cwd == proc[p].cwd IN
    /\ proc[p].pc \in {"launch", "relaunch"}
    /\ disk' = IF cwd = "worktree" /\ disk[s] = "absent"
               THEN [disk EXCEPT ![s] = "plain"] ELSE disk
    /\ \/ StartRun(s, cwd, "detached") /\ Done(p)
       \/ /\ MayFail /\ UNCHANGED run
          /\ IF proc[p].pc = "launch" THEN Goto(p, "unlaunch") ELSE Done(p)
    /\ UNCHANGED <<rowVars, queue>>

\* A launch that failed: Failed, then the worktree goes but the row keeps it.
FailLaunch(p) ==
  LET s == proc[p].sess IN
    /\ proc[p].pc = "unlaunch"
    /\ Becomes(s, "Failed")
    /\ IF HasRow(s) /\ CanTransition(state[s], "Failed") THEN Goto(p, "undo") ELSE Done(p)
    /\ UNCHANGED <<pid, attached, home, queue, disk, run>>

RemoveUnlaunched(p) ==
  /\ proc[p].pc = "undo"
  /\ RemoveWorktree(proc[p].sess)
  /\ Done(p)
  /\ UNCHANGED <<rowVars, queue, run>>

(***************************************************************************)
(* activate_pending_worktree_sessions.  The number of free slots and the   *)
(* oldest requests for them are read once, at the start of the pass.       *)
(***************************************************************************)
BeginActivate(p) ==
  /\ May(p, "activate") \/ proc[p].pc = "activate"
  /\ IF FreeSlots = 0 THEN Done(p)
     ELSE proc' = [proc EXCEPT ![p] =
            [Nothing EXCEPT !.pc = "next", !.slots = FreeSlots,
               !.todo = {queue[i] : i \in {j \in DOMAIN queue : j <= FreeSlots}}]]
  /\ UNCHANGED <<rowVars, queue, disk, run>>

\* Mutant of TakeRequest: a request that finds the last slot gone is dropped.
TakeRequestOrDrop(p) ==
  /\ proc[p].pc = "next"
  /\ \/ proc[p].todo = {} /\ Done(p) /\ UNCHANGED queue
     \/ \E s \in proc[p].todo :
          IF state[s] = "Pending" /\ s \notin attached /\ FreeSlots > 0
          THEN /\ proc' = [proc EXCEPT ![p].pc = "make", ![p].sess = s, ![p].todo = @ \ {s}]
               /\ UNCHANGED queue
          ELSE /\ proc' = [proc EXCEPT ![p].todo = @ \ {s}]
               /\ queue' = Without(queue, s)
  /\ UNCHANGED <<rowVars, disk, run>>

\* A request that needs no worktree (any more) is only dropped.
TakeRequest(p) ==
  /\ proc[p].pc = "next"
  /\ \/ /\ proc[p].todo = {} \/ proc[p].slots = 0
        /\ Done(p) /\ UNCHANGED queue
     \/ \E s \in proc[p].todo :
          /\ proc[p].slots > 0
          /\ IF state[s] = "Pending" /\ s \notin attached /\ pid[s] = NoRun
             THEN /\ proc' = [proc EXCEPT ![p].pc = "make", ![p].sess = s, ![p].todo = @ \ {s}]
                  /\ UNCHANGED queue
             ELSE /\ proc' = [proc EXCEPT ![p].todo = @ \ {s}]
                  /\ queue' = Without(queue, s)
  /\ UNCHANGED <<rowVars, disk, run>>

MakeWorktree(p) ==
  LET s == proc[p].sess IN
    /\ proc[p].pc = "make"
    /\ \/ AddWorktree(s) /\ Goto(p, "attach")
       \/ /\ MayFail \/ disk[s] # "absent"
          /\ Goto(p, "fail") /\ UNCHANGED disk
    /\ UNCHANGED <<rowVars, queue, run>>

\* A refused update_state ends the whole pass.
FailRequest(p) ==
  LET s == proc[p].sess IN
    /\ proc[p].pc = "fail"
    /\ queue' = Without(queue, s)
    /\ Becomes(s, "Failed")
    /\ IF HasRow(s) /\ CanTransition(state[s], "Failed")
       THEN proc' = [proc EXCEPT ![p].pc = "next", ![p].sess = NoSession]
       ELSE Done(p)
    /\ UNCHANGED <<pid, attached, home, disk, run>>

\* attach_worktree; a row deleted meanwhile ends the pass.
AttachWorktree(p) ==
  LET s == proc[p].sess IN
    /\ proc[p].pc = "attach"
    /\ IF HasRow(s)
       THEN /\ attached' = attached \cup {s}
            /\ home' = [home EXCEPT ![s] = "worktree"]
            /\ Goto(p, "start")
            /\ UNCHANGED disk
       ELSE /\ RemoveWorktree(s)
            /\ Done(p)
            /\ UNCHANGED <<attached, home>>
    /\ UNCHANGED <<state, pid, queue, run>>

\* run_session becomes a task of this process and is not waited for.
StartQueued(p) ==
  /\ proc[p].pc = "start"
  /\ StartRun(proc[p].sess, "worktree", p)
  /\ Goto(p, "dequeue")
  /\ UNCHANGED <<rowVars, queue, disk>>

DequeueStarted(p) ==
  /\ proc[p].pc = "dequeue"
  /\ queue' = Without(queue, proc[p].sess)
  /\ proc' = [proc EXCEPT ![p].pc = "next", ![p].sess = NoSession, ![p].slots = @ - 1]
  /\ UNCHANGED <<rowVars, disk, run>>

(***************************************************************************)
(* prune_inactive_worktrees (with the default retention of 0 seconds) and  *)
(* cleanup_session_worktree, which a prune calls for each session that it  *)
(* found inactive when it began, and which reads the row again.            *)
(***************************************************************************)

\* Mutants of Inactive: Pending is not counted as active; a failed session
\* keeps its worktree for inspection.
InactiveOrPending == {"Pending", "Stale", "Completed", "Failed", "Stopped"}
InactiveUnlessFailed == {"Stale", "Completed", "Stopped"}

Inactive == {"Stale", "Completed", "Failed", "Stopped"}

BeginPrune(p) ==
  /\ May(p, "prune") \/ (p \in Daemons /\ proc[p].pc = "idle")
  /\ proc' = [proc EXCEPT ![p].pc = "clean",
                          ![p].todo = {s \in attached : state[s] \in Inactive}]
  /\ UNCHANGED <<rowVars, queue, disk, run>>

BeginCleanup(p, s) ==
  /\ May(p, "cleanup")
  /\ s \in attached
  /\ proc' = [proc EXCEPT ![p].pc = "clean", ![p].todo = {s}]
  /\ UNCHANGED <<rowVars, queue, disk, run>>

\* kill_process on the recorded pid; the runner that waits for it finds its own
\* last writes refused.
KillRecorded(s) ==
  run' = IF pid[s] # NoRun THEN [run EXCEPT ![pid[s]].pc = "over"] ELSE run

\* A session that runs again is stopped first.
CleanOne(p) ==
  /\ proc[p].pc = "clean"
  /\ \/ proc[p].todo = {} /\ EndPrune(p) /\ UNCHANGED <<rowVars, run>>
     \/ \E s \in proc[p].todo :
          \/ /\ ~HasRow(s)
             /\ EndPrune(p) /\ UNCHANGED <<rowVars, run>>
          \/ /\ state[s] = "Running"
             /\ KillRecorded(s)
             /\ pid' = [pid EXCEPT ![s] = NoRun]
             /\ Becomes(s, "Stopped")
             /\ proc' = [proc EXCEPT ![p].pc = IF s \in attached THEN "remove" ELSE "clear",
                                     ![p].sess = s, ![p].todo = @ \ {s}]
             /\ UNCHANGED <<attached, home>>
          \/ /\ HasRow(s) /\ state[s] # "Running" /\ s \in attached
             /\ proc' = [proc EXCEPT ![p].pc = "remove", ![p].sess = s, ![p].todo = @ \ {s}]
             /\ UNCHANGED <<rowVars, run>>
          \/ /\ HasRow(s) /\ state[s] # "Running" /\ s \notin attached
             /\ proc' = [proc EXCEPT ![p].todo = @ \ {s}]
             /\ UNCHANGED <<rowVars, run>>
  /\ UNCHANGED <<queue, disk>>

\* Mutant of RemoveOne: the directory is left to the user.
RemoveOneNot(p) ==
  /\ proc[p].pc \in {"remove", "discard"}
  /\ Goto(p, IF proc[p].pc = "remove" THEN "clear" ELSE "delete")
  /\ UNCHANGED <<rowVars, queue, disk, run>>

\* The removal itself, of a cleanup or of a delete.
RemoveOne(p) ==
  /\ proc[p].pc \in {"remove", "discard"}
  /\ RemoveWorktree(proc[p].sess)
  /\ Goto(p, IF proc[p].pc = "remove" THEN "clear" ELSE "delete")
  /\ UNCHANGED <<rowVars, queue, run>>

\* clear_worktree writes back the working_dir it finds in the row.
ClearWorktree(p) ==
  LET s == proc[p].sess IN
    /\ proc[p].pc = "clear"
    /\ IF HasRow(s)
       THEN /\ attached' = attached \ {s}
            /\ proc' = [proc EXCEPT ![p].pc = "clean", ![p].sess = NoSession]
       ELSE EndPrune(p) /\ UNCHANGED attached
    /\ UNCHANGED <<state, pid, home, queue, disk, run>>

(***************************************************************************)
(* Resume and delete.                                                      *)
(***************************************************************************)
BeginResume(p, s) ==
  /\ May(p, "resume") /\ RunLeft
  /\ HasRow(s) /\ state[s] \notin {"Completed", "Running"}
  /\ state' = [state EXCEPT ![s] = "Pending"]
  /\ pid' = [pid EXCEPT ![s] = NoRun]
  /\ proc' = [proc EXCEPT ![p].pc = "relaunch", ![p].sess = s, ![p].cwd = home[s]]
  /\ UNCHANGED <<attached, home, queue, disk, run>>

BeginDelete(p, s) ==
  /\ May(p, "delete")
  /\ state[s] \in Inactive
  /\ proc' = [proc EXCEPT ![p].pc = IF s \in attached THEN "discard" ELSE "delete",
                          ![p].sess = s]
  /\ UNCHANGED <<rowVars, queue, disk, run>>

\* The row takes its pending request with it (ON DELETE CASCADE).
DeleteRow(p) ==
  LET s == proc[p].sess IN
    /\ proc[p].pc = "delete"
    /\ IF HasRow(s)
       THEN /\ state' = [state EXCEPT ![s] = "Deleted"]
            /\ pid' = [pid EXCEPT ![s] = NoRun]
            /\ attached' = attached \ {s}
            /\ queue' = Without(queue, s)
       ELSE UNCHANGED <<state, pid, attached, queue>>
    /\ Done(p)
    /\ UNCHANGED <<home, disk, run>>

(***************************************************************************)
(* Runs, stops and sweeps, each of which SessionLifecycle has in detail.   *)
(***************************************************************************)

\* run_session: only a Pending row is launched.
RunChecks(r) ==
  /\ run[r].pc = "starting"
  /\ run' = [run EXCEPT ![r].pc = IF state[run[r].sess] = "Pending" THEN "spawning" ELSE "over"]
  /\ UNCHANGED <<rowVars, queue, disk, proc>>

\* An agent cannot start in a directory that is not there.  When the row may
\* not become Running any more, the runner gives up and the agent goes on.
RunStarts(r) ==
  LET s == run[r].sess IN
    /\ run[r].pc = "spawning"
    /\ \/ /\ run[r].cwd = "worktree" => disk[s] # "absent"
          /\ IF HasRow(s) /\ CanTransition(state[s], "Running")
             THEN /\ Becomes(s, "Running")
                  /\ pid' = [pid EXCEPT ![s] = r]
                  /\ run' = [run EXCEPT ![r].pc = "working"]
             ELSE /\ Becomes(s, "Failed")
                  /\ pid' = [pid EXCEPT ![s] = NoRun]
                  /\ run' = [run EXCEPT ![r].pc = "orphan"]
       \/ /\ MayFail \/ (run[r].cwd = "worktree" /\ disk[s] = "absent")
          /\ Becomes(s, "Failed")
          /\ pid' = [pid EXCEPT ![s] = NoRun]
          /\ run' = [run EXCEPT ![r].pc = "over"]
    /\ UNCHANGED <<attached, home, queue, disk, proc>>

RunEnds(r) ==
  LET s == run[r].sess IN
    /\ run[r].pc = "working"
    /\ run' = [run EXCEPT ![r].pc = "over"]
    /\ pid' = [pid EXCEPT ![s] = NoRun]
    /\ \E final \in {"Completed", "Failed"} :
         Becomes(s, IF CanTransition(state[s], final) THEN final ELSE "Failed")
    /\ UNCHANGED <<attached, home, queue, disk, proc>>

\* The agent of a process that died ends with nobody to record it.
OrphanEnds(r) ==
  /\ run[r].pc = "orphan"
  /\ run' = [run EXCEPT ![r].pc = "over"]
  /\ UNCHANGED <<rowVars, queue, disk, proc>>

Stop(s) ==
  /\ "stop" \in Operations
  /\ HasRow(s)
  /\ KillRecorded(s)
  /\ pid' = [pid EXCEPT ![s] = NoRun]
  /\ Becomes(s, "Stopped")
  /\ UNCHANGED <<attached, home, queue, disk, proc>>

\* enforce_session_heartbeats with auto_terminate_stale_sessions = false (the
\* default): the agent goes on.
GoesStale(s) ==
  /\ "sweep" \in Operations
  /\ state[s] = "Running"
  /\ Becomes(s, "Stale")
  /\ UNCHANGED <<pid, attached, home, queue, disk, run, proc>>

\* The runs that live in a process end with it, their agents do not.
ProcessCrash(p) ==
  /\ MayCrash
  /\ \/ proc[p].pc # "idle"
     \/ \E r \in Runs : run[r].by = p /\ run[r].pc \in {"starting", "spawning", "working"}
  /\ Done(p)
  /\ run' = [r \in Runs |->
       CASE run[r].by = p /\ run[r].pc \in {"starting", "spawning"} -> [run[r] EXCEPT !.pc = "over"]
         [] run[r].by = p /\ run[r].pc = "working"  -> [run[r] EXCEPT !.pc = "orphan"]
         [] OTHER -> run[r]]
  /\ UNCHANGED <<rowVars, queue, disk>>

ProcessStep(p) ==
  \/ CreateWorktree(p) \/ InsertSession(p) \/ EnqueueRequest(p) \/ SpawnRunner(p)
  \/ FailLaunch(p) \/ RemoveUnlaunched(p)
  \/ TakeRequest(p) \/ MakeWorktree(p) \/ FailRequest(p) \/ AttachWorktree(p)
  \/ StartQueued(p) \/ DequeueStarted(p)
  \/ CleanOne(p) \/ RemoveOne(p) \/ ClearWorktree(p) \/ DeleteRow(p)

Request(p) ==
  \E s \in Sessions :
    BeginQueue(p, s) \/ BeginCleanup(p, s) \/ BeginResume(p, s) \/ BeginDelete(p, s)

Next ==
  \/ \E p \in Processes :
       \/ Request(p) \/ BeginActivate(p) \/ BeginPrune(p)
       \/ ProcessStep(p) \/ ProcessCrash(p)
  \/ \E r \in Runs : RunChecks(r) \/ RunStarts(r) \/ RunEnds(r) \/ OrphanEnds(r)
  \/ \E s \in Sessions : Stop(s) \/ GoesStale(s)

Spec == Init /\ [][Next]_vars

(***************************************************************************)
(* Fairness: the daemon loops, processes finish what they began, and       *)
(* agents end.                                                             *)
(***************************************************************************)
Fairness ==
  /\ \A p \in Processes : WF_vars(ProcessStep(p))
  /\ \A p \in Daemons : WF_vars(BeginPrune(p) \/ BeginActivate(p))
  /\ \A r \in Runs : WF_vars(RunChecks(r) \/ RunStarts(r) \/ RunEnds(r))

FairSpec == Spec /\ Fairness

-----------------------------------------------------------------------------
(***************************************************************************)
(* Properties.                                                             *)
(***************************************************************************)

\* No more sessions hold a worktree than max_parallel_worktrees allows.
SlotsRespected == Cardinality(attached) <= MaxWorktrees

\* The worktree an agent was started in stays there as long as it works.
WorktreeKeptWhileWorking ==
  \A r \in Runs :
    run[r].pc \in {"working", "orphan"} /\ run[r].cwd = "worktree"
      => disk[run[r].sess] = "worktree"

\* A Pending session is in the queue, or about to be launched: no overlap of
\* activation passes loses a request.  (No process dies, no launch fails.)
LaunchUnderWay(s) ==
  \/ \E r \in Runs : run[r].sess = s /\ run[r].pc \in {"starting", "spawning"}
  \/ \E p \in Processes :
       /\ proc[p].sess = s
       /\ proc[p].pc \in {"launch", "relaunch", "unlaunch", "enqueue",
                          "attach", "start", "fail"}

PendingHasLauncher ==
  ~MayCrash /\ ~MayFail =>
    \A s \in Sessions : state[s] = "Pending" => Queued(s) \/ LaunchUnderWay(s)

\* However many processes run activation passes, and whenever one of them
\* dies, a session never has two agents (unless it is resumed).
OneRunWorks ==
  \A q, r \in Runs :
    /\ run[q].sess = run[r].sess
    /\ run[q].pc \in {"working", "orphan"} /\ run[r].pc \in {"working", "orphan"}
    => q = r

\* While nothing is under way for a session, a worktree on disk is named by its
\* row: otherwise no prune would ever find it.
AtHand(s) == \E p \in Processes : proc[p].sess = s
NoOrphanWorktree ==
  ~MayCrash /\ ~MayFail =>
    \A s \in Sessions : disk[s] = "worktree" /\ ~AtHand(s) => s \in attached

\* A session that is marked Failed has no agent at work.
FailedHasNoAgent ==
  \A r \in Runs : run[r].pc = "working" => state[run[r].sess] # "Failed"

\* A queued request is answered: the daemon's prune passes free the slots that
\* its activation passes wait for.
QueueDrains == \A s \in Sessions : Queued(s) ~> ~Queued(s)

=============================================================================

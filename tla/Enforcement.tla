----------------------------- MODULE Enforcement -----------------------------
(***************************************************************************)
(* Sessions that the system itself stops: those that have used up a budget *)
(* (enforce_budget_hard_limits) and those that write the files of another  *)
(* session (enforce_conflict_resolution).  A dashboard enforces both at    *)
(* every refresh; the commands of the command line enforce the budgets     *)
(* once, before their own work.                                            *)
(*                                                                         *)
(* An enforcer lists the sessions, and then works down its list while the  *)
(* sessions, their users and other enforcers go on: a stop kills the       *)
(* process the list named, sleeps, and records Stopped in whatever the row *)
(* says by then.                                                           *)
(***************************************************************************)
EXTENDS Functions, Naturals

CONSTANTS
  Sessions, Paths,
  Enforcers,     \* processes that enforce
  Dashboards,    \* those that enforce both for ever; bound: the others go once
  Strategies,    \* Config::conflict_resolution.strategy, one for each pass
  TokenBudget,   \* Config::token_budget, 0 for none; cost_budget_usd is alike
  ProfileBudget, \* token_budget of the profile of each session, 0 for none
  Unkillable,    \* sessions whose process cannot be killed
  Resumable,     \* bound: sessions that users resume
  Quiet,         \* bound: sessions that miss their heartbeats
  MaxTokens,     \* bound: tokens of each session
  MaxStarts,     \* bound: processes of one session
  Mortal,        \* those that may die
  MaxDeaths,     \* bound: deaths of enforcers
  NoSession, NoConflict

ASSUME EnforcementAssumption ==
  /\ Dashboards \subseteq Enforcers /\ Mortal \subseteq Enforcers
  /\ Strategies \subseteq {"escalate", "last_write_wins", "merge"}
  /\ Strategies # {}
  /\ TokenBudget \in Nat /\ ProfileBudget \in [Sessions -> Nat]
  /\ {Unkillable, Resumable, Quiet} \subseteq SUBSET Sessions
  /\ MaxTokens \in [Sessions -> Nat] /\ MaxDeaths \in Nat /\ MaxStarts \in Nat \ {0}
  /\ NoSession \notin Sessions

Pids == 1 .. MaxStarts
Conflict == {c \in [path : Paths, latest : Sessions, other : Sessions] : c.latest # c.other}
Incident == [path : Paths, active : Sessions, paused : Sessions]

ASSUME ConflictAssumption == NoConflict \notin Conflict

VARIABLES
  session,   \* the rows: state, pid (0 for none), processes started so far
  agents,    \* the processes of each session that are alive
  tokens,    \* tokens each session has used
  written,   \* the sessions whose latest event on a path is not a read, in order
  incidents, \* the open rows of conflict_incidents
  told,      \* incidents with their message and decision
  enforcer,  \* what each enforcer has listed and is doing
  deaths,    \* of enforcers, so far
  excused,   \* incidents whose session was resumed, or that broke off (history)
  raced      \* sessions that were resumed while a process of theirs lived, or
             \* while an enforcer was about to stop them (history)

vars == <<session, agents, tokens, written, incidents, told, enforcer, deaths, excused,
          raced>>
work == <<agents, tokens, written>>
record == <<incidents, told, deaths, excused, raced>>

Enforcer ==
  [pc : {"idle", "stop", "list", "resolve", "open", "kill", "record", "tell", "done"},
   saw : [Sessions -> {0} \cup Pids],       \* the pids it has listed and may need
   todo : SUBSET Sessions,                  \* to be stopped for their budget
   planned : SUBSET Conflict,               \* the conflicts it has found
   plan : SUBSET Conflict,                  \* and those it has not yet handled
   strategy : Strategies,
   conflict : Conflict \cup {NoConflict},   \* the one in hand
   serving : Sessions \cup {NoSession},     \* the session it is stopping
   paused : SUBSET Sessions,                \* paused_once
   overtaken : SUBSET Sessions]             \* resumed or ended since (history)

Rests(pc, how) ==
  [pc |-> pc, saw |-> [s \in Sessions |-> 0], todo |-> {}, planned |-> {}, plan |-> {},
   strategy |-> how, conflict |-> NoConflict, serving |-> NoSession, paused |-> {},
   overtaken |-> {}]

SessionRow == [state : {"active", "stale", "stopped", "completed"},
               pid : {0} \cup Pids, starts : Pids]
Written == [by : SUBSET Sessions, order : SUBSET (Sessions \X Sessions)]

TypeOK ==
  /\ session \in [Sessions -> SessionRow]
  /\ agents \in [Sessions -> SUBSET Pids]
  /\ tokens \in [Sessions -> Nat]
  /\ written \in [Paths -> Written]
  /\ incidents \subseteq Incident /\ told \subseteq Incident /\ excused \subseteq Incident
  /\ enforcer \in [Enforcers -> Enforcer]
  /\ deaths \in 0 .. MaxDeaths /\ raced \subseteq Sessions

Init ==
  /\ session = [s \in Sessions |-> [state |-> "active", pid |-> 1, starts |-> 1]]
  /\ agents = [s \in Sessions |-> {1}]
  /\ tokens = [s \in Sessions |-> 0]
  /\ written = [p \in Paths |-> [by |-> {}, order |-> {}]]
  /\ incidents = {} /\ told = {} /\ deaths = 0 /\ excused = {} /\ raced = {}
  /\ \E how \in Strategies : enforcer = [e \in Enforcers |-> Rests("idle", how)]

-----------------------------------------------------------------------------
(* Sessions and their users.                                               *)

Active(s) == session[s].state = "active" \* Pending, Running or Idle
Working(s) == session[s].state \in {"active", "stale"}

\* What the enforcers have listed of s is out of date.
Overtakes(s) ==
  enforcer' = [e \in Enforcers |->
    IF enforcer[e].saw[s] = 0 THEN enforcer[e]
    ELSE [enforcer[e] EXCEPT !.overtaken = @ \cup {s}]]

Spend(s) ==
  /\ agents[s] # {} /\ tokens[s] < MaxTokens[s]
  /\ tokens' = [tokens EXCEPT ![s] = @ + 1]
  /\ UNCHANGED <<session, agents, written, enforcer, record>>

\* A tool call that reads or writes a file.
Touch(s, p, write) ==
  LET others == written[p].by \ {s}
      order == {o \in written[p].order : s \notin {o[1], o[2]}}
  IN  /\ agents[s] # {}
      /\ written' = [written EXCEPT ![p] =
           IF write THEN [by |-> others \cup {s}, order |-> order \cup (others \X {s})]
                    ELSE [by |-> others, order |-> order]]
      /\ UNCHANGED <<session, agents, tokens, enforcer, record>>

\* enforce_session_heartbeats
Silent(s) ==
  /\ s \in Quiet /\ Active(s)
  /\ session' = [session EXCEPT ![s].state = "stale"]
  /\ UNCHANGED <<work, enforcer, record>>

Beats(s) ==
  /\ session[s].state = "stale" /\ agents[s] # {}
  /\ session' = [session EXCEPT ![s].state = "active"]
  /\ UNCHANGED <<work, enforcer, record>>

\* A process ends; its runner records that, but not over Stopped.
Ends(s) ==
  /\ \E g \in agents[s] : agents' = [agents EXCEPT ![s] = @ \ {g}]
  /\ session' = IF Working(s)
                THEN [session EXCEPT ![s] = [@ EXCEPT !.state = "completed", !.pid = 0]]
                ELSE session
  /\ Overtakes(s)
  /\ UNCHANGED <<tokens, written, record>>

\* resume_session and the runner it starts.
Resume(s) ==
  LET g == session[s].starts + 1
  IN  /\ s \in Resumable /\ session[s].state \in {"stopped", "stale"} /\ g \in Pids
      /\ session' = [session EXCEPT ![s] = [state |-> "active", pid |-> g, starts |-> g]]
      /\ agents' = [agents EXCEPT ![s] = @ \cup {g}]
      /\ raced' = IF agents[s] = {} THEN raced ELSE raced \cup {s}
      /\ excused' = excused \cup {i \in incidents : i.paused = s}
      /\ Overtakes(s)
      /\ UNCHANGED <<tokens, written, incidents, told, deaths>>

-----------------------------------------------------------------------------
(* Enforcers.                                                              *)

At(e, pc) == enforcer[e].pc = pc
Moves(e, d) == enforcer' = [enforcer EXCEPT ![e] = d]
Over(e) ==
  \E how \in Strategies : Moves(e, Rests(IF e \in Dashboards THEN "idle" ELSE "done", how))

Total == FoldFunction(LAMBDA a, b : a + b, 0, tokens)

\* Mutant of Exceeds: a budget may be used up, but not more.
ExceedsMore(limit, used) == limit > 0 /\ used > limit
Exceeds(limit, used) == limit > 0 /\ used >= limit

\* Active sessions, all of them if the total exceeds the budget of all.
ToStop ==
  {s \in Sessions : Active(s) /\ (Exceeds(TokenBudget, Total)
                                  \/ Exceeds(ProfileBudget[s], tokens[s]))}
PidsOf(S) == [s \in Sessions |-> IF s \in S THEN session[s].pid ELSE 0]

Begin(e) ==
  /\ At(e, "idle")
  /\ Moves(e, [enforcer[e] EXCEPT !.pc = "stop", !.saw = PidsOf(ToStop), !.todo = ToStop])
  /\ UNCHANGED <<session, work, record>>

BeginStop(e, s) ==
  /\ At(e, "stop") /\ s \in enforcer[e].todo
  /\ Moves(e, [enforcer[e] EXCEPT !.pc = "kill", !.serving = s, !.todo = @ \ {s}])
  /\ UNCHANGED <<session, work, record>>

BudgetDone(e) ==
  /\ At(e, "stop") /\ enforcer[e].todo = {}
  /\ IF e \in Dashboards
     THEN Moves(e, Rests("list", enforcer[e].strategy))
     ELSE Over(e)
  /\ UNCHANGED <<session, work, record>>

Before(p, s, t) == <<s, t>> \in written[p].order

\* The latest writer of a path among S conflicts with each of the others.
Conflicting(c, S) ==
  LET W == written[c.path].by \cap S
  IN  /\ {c.latest, c.other} \subseteq W
      /\ \A w \in W : ~Before(c.path, c.latest, w)

Conflicts(S) == {c \in Conflict : Conflicting(c, S)}
Sides(C) == {c.latest : c \in C} \cup {c.other : c \in C}

\* Mutant of ListsConflicts: sessions that have ended are listed too.
ListsEnded(e) ==
  LET found == Conflicts(Sessions)
  IN  /\ At(e, "list")
      /\ Moves(e, [enforcer[e] EXCEPT !.pc = "resolve", !.saw = PidsOf(Sides(found)),
                                      !.plan = found, !.planned = found])
      /\ UNCHANGED <<session, work, record>>

ListsConflicts(e) ==
  LET found == Conflicts({s \in Sessions : Working(s)})
  IN  /\ At(e, "list")
      /\ Moves(e, [enforcer[e] EXCEPT !.pc = "resolve", !.saw = PidsOf(Sides(found)),
                                      !.plan = found, !.planned = found])
      /\ UNCHANGED <<session, work, record>>

\* conflict_incident_key: the path and the two sessions, in either order.
SameKey(i, c) == i.path = c.path /\ {i.active, i.paused} = {c.latest, c.other}
IsOpen(c) == \E i \in incidents : SameKey(i, c)

Resolve(e, c) ==
  /\ At(e, "resolve") /\ c \in enforcer[e].plan
  /\ LET rest == [enforcer[e] EXCEPT !.plan = @ \ {c}]
     IN  Moves(e, IF IsOpen(c) THEN rest
                  ELSE [rest EXCEPT !.pc = "open", !.conflict = c])
  /\ UNCHANGED <<session, work, record>>

\* choose_conflict_resolution
Choice(how, c) ==
  IF how = "last_write_wins" THEN [path |-> c.path, active |-> c.latest, paused |-> c.other]
                             ELSE [path |-> c.path, active |-> c.other, paused |-> c.latest]
Chosen(e) == Choice(enforcer[e].strategy, enforcer[e].conflict)

\* Mutant of Opens: the session that stays active counts as paused.
OpensForBoth(e) ==
  LET i == Chosen(e)
  IN  /\ At(e, "open")
      /\ incidents' = {j \in incidents : ~SameKey(j, enforcer[e].conflict)} \cup {i}
      /\ excused' = IF i.paused \in enforcer[e].overtaken THEN excused \cup {i} ELSE excused
      /\ Moves(e, IF i.paused \in enforcer[e].paused
                  THEN [enforcer[e] EXCEPT !.pc = "tell"]
                  ELSE [enforcer[e] EXCEPT !.pc = "kill", !.serving = i.paused,
                                           !.paused = @ \cup {i.paused, i.active}])
      /\ UNCHANGED <<session, work, told, deaths, raced>>

\* Mutant of Opens: the incident is opened once its session is stopped.
OpensAfterStop(e) ==
  LET i == Chosen(e)
      after == i.paused \in enforcer[e].paused
  IN  /\ At(e, "open")
      /\ incidents' = IF after THEN {j \in incidents : ~SameKey(j, enforcer[e].conflict)} \cup {i}
                      ELSE incidents
      /\ excused' = IF i.paused \in enforcer[e].overtaken THEN excused \cup {i} ELSE excused
      /\ Moves(e, IF after THEN [enforcer[e] EXCEPT !.pc = "tell"]
                  ELSE [enforcer[e] EXCEPT !.pc = "kill", !.serving = i.paused,
                                           !.paused = @ \cup {i.paused}])
      /\ UNCHANGED <<session, work, told, deaths, raced>>

\* upsert_conflict_incident; a session that the pass has stopped is not stopped again.
Opens(e) ==
  LET i == Chosen(e)
  IN  /\ At(e, "open")
      /\ incidents' = {j \in incidents : ~SameKey(j, enforcer[e].conflict)} \cup {i}
      /\ excused' = IF i.paused \in enforcer[e].overtaken THEN excused \cup {i} ELSE excused
      /\ Moves(e, IF i.paused \in enforcer[e].paused
                  THEN [enforcer[e] EXCEPT !.pc = "tell"]
                  ELSE [enforcer[e] EXCEPT !.pc = "kill", !.serving = i.paused,
                                           !.paused = @ \cup {i.paused}])
      /\ UNCHANGED <<session, work, told, deaths, raced>>

\* stop_session_recorded: kill_process, with the pid that was listed.
Kill(e) ==
  LET s == enforcer[e].serving
      pid == enforcer[e].saw[s]
  IN  /\ At(e, "kill") /\ (pid = 0 \/ s \notin Unkillable)
      /\ agents' = [agents EXCEPT ![s] = @ \ {pid}]
      /\ Moves(e, [enforcer[e] EXCEPT !.pc = "record"])
      /\ UNCHANGED <<session, tokens, written, record>>

\* What a pass leaves behind that breaks off: an incident that is only open.
Broken(e) ==
  IF enforcer[e].conflict # NoConflict /\ enforcer[e].pc \in {"kill", "record", "tell"}
  THEN {Chosen(e)} ELSE {}

\* Mutants of KillFails: the error is logged, and the pass goes on with the record,
\* or with the message.
KillFailsIgnored(e) ==
  /\ At(e, "kill") /\ enforcer[e].saw[enforcer[e].serving] # 0
  /\ enforcer[e].serving \in Unkillable
  /\ Moves(e, [enforcer[e] EXCEPT !.pc = "record"])
  /\ UNCHANGED <<session, work, record>>
KillFailsLogged(e) ==
  /\ At(e, "kill") /\ enforcer[e].saw[enforcer[e].serving] # 0
  /\ enforcer[e].serving \in Unkillable /\ enforcer[e].conflict # NoConflict
  /\ Moves(e, [enforcer[e] EXCEPT !.pc = "tell", !.serving = NoSession])
  /\ UNCHANGED <<session, work, record>>

\* The error ends the budgets' pass, which is followed by the conflicts', or it
\* ends the conflicts' pass; a command ends with it.
KillFails(e) ==
  LET s == enforcer[e].serving
  IN  /\ At(e, "kill") /\ enforcer[e].saw[s] # 0 /\ s \in Unkillable
      /\ excused' = excused \cup Broken(e)
      /\ IF enforcer[e].conflict = NoConflict /\ e \in Dashboards
         THEN Moves(e, Rests("list", enforcer[e].strategy))
         ELSE Over(e)
      /\ UNCHANGED <<session, work, incidents, told, deaths, raced>>

\* update_pid and update_state: every state may become Stopped.
Records(e) ==
  LET s == enforcer[e].serving
  IN  /\ At(e, "record")
      /\ session' = [session EXCEPT ![s] = [@ EXCEPT !.state = "stopped", !.pid = 0]]
      /\ raced' = IF s \in enforcer[e].overtaken THEN raced \cup {s} ELSE raced
      /\ Moves(e, [enforcer[e] EXCEPT !.serving = NoSession,
                     !.pc = IF enforcer[e].conflict = NoConflict THEN "stop" ELSE "tell"])
      /\ UNCHANGED <<work, incidents, told, deaths, excused>>

\* Mutant of Tells: the conflict is told, not the incident.
TellsConflict(e) ==
  /\ At(e, "tell")
  /\ told' = told \cup {enforcer[e].conflict}
  /\ Moves(e, [enforcer[e] EXCEPT !.pc = "resolve", !.conflict = NoConflict])
  /\ UNCHANGED <<session, work, incidents, deaths, excused, raced>>

\* The message to the paused session, the decision, the message to its lead.
Tells(e) ==
  /\ At(e, "tell")
  /\ told' = told \cup {Chosen(e)}
  /\ Moves(e, [enforcer[e] EXCEPT !.pc = "resolve", !.conflict = NoConflict])
  /\ UNCHANGED <<session, work, incidents, deaths, excused, raced>>

Return(e) ==
  /\ At(e, "resolve") /\ enforcer[e].plan = {}
  /\ Over(e)
  /\ UNCHANGED <<session, work, record>>

\* A dashboard that dies is started again.
Dies(e) ==
  /\ e \in Mortal /\ enforcer[e].pc \notin {"idle", "done"} /\ deaths < MaxDeaths
  /\ deaths' = deaths + 1
  /\ excused' = excused \cup Broken(e)
  /\ Over(e)
  /\ UNCHANGED <<session, work, incidents, told, raced>>

-----------------------------------------------------------------------------
GoesOn(e) ==
  \/ Begin(e) \/ BudgetDone(e) \/ ListsConflicts(e) \/ Opens(e) \/ Kill(e) \/ KillFails(e)
  \/ Records(e) \/ Tells(e) \/ Return(e)
  \/ \E s \in Sessions : BeginStop(e, s)
  \/ \E c \in Conflict : Resolve(e, c)

Others ==
  \E s \in Sessions :
    \/ Spend(s) \/ Silent(s) \/ Beats(s) \/ Ends(s) \/ Resume(s)
    \/ \E p \in Paths, write \in BOOLEAN : Touch(s, p, write)

Next == (\E e \in Enforcers : GoesOn(e) \/ Dies(e)) \/ Others

Spec == Init /\ [][Next]_vars

\* A dashboard refreshes as long as it runs; sessions and users owe nothing.
FairSpec == Spec /\ \A e \in Dashboards : WF_vars(GoesOn(e))

-----------------------------------------------------------------------------
(* Properties.                                                             *)

\* What an open incident says has been done: its session was stopped and told,
\* unless it was resumed since, or the pass is still at it, or broke off there.
\* An open incident is never opened again, so that nobody else would do it.
Carries(e, i) ==
  /\ enforcer[e].pc \in {"kill", "record", "tell"}
  /\ enforcer[e].conflict # NoConflict /\ Chosen(e) = i

IncidentsCarriedOut ==
  \A i \in incidents :
    \/ ~Working(i.paused) /\ i \in told
    \/ i \in excused
    \/ \E e \in Enforcers : Carries(e, i)

\* A process of a stopped session lives on only if the session was resumed while
\* it still had one or while an enforcer was stopping it.
StoppedAgentsWereRaced ==
  \A s \in Sessions : session[s].state = "stopped" /\ agents[s] # {} => s \in raced

\* A pass does not pause both sides of a conflict, unless they conflict on another
\* path as well where it is the other's turn.
OneSideGoesOn ==
  \A e \in Enforcers, c \in Conflict :
    c \in enforcer[e].planned /\ {c.latest, c.other} \subseteq enforcer[e].paused =>
      \E d \in enforcer[e].planned :
        d.path # c.path /\ (d.latest = c.other \/ d.other = c.latest)

\* The record that a session has completed is overwritten only by an enforcer that
\* listed the session before it did.
OutcomeKept ==
  [][\A s \in Sessions :
       session[s].state = "completed" /\ session'[s].state # "completed" =>
         \E e \in Enforcers : /\ enforcer[e].pc = "record" /\ enforcer[e].serving = s
                              /\ s \in enforcer[e].overtaken]_vars

\* Sessions over their budget are stopped, unless one that works cannot be killed:
\* its error keeps all that are listed after it from being stopped.
Spent(s) ==
  \/ TokenBudget > 0 /\ Total >= TokenBudget
  \/ ProfileBudget[s] > 0 /\ tokens[s] >= ProfileBudget[s]

BudgetsStop ==
  \A s \in Sessions \ Unkillable :
    Active(s) /\ Spent(s) ~> ~Active(s) \/ \E t \in Unkillable : Working(t)

\* Every conflict with the latest writer of a path becomes an incident, also when
\* the sessions of other conflicts cannot be stopped.
Contested(c) == Conflicting(c, {s \in Sessions : Working(s)})
ConflictsRaised == \A c \in Conflict : Contested(c) ~> ~Contested(c) \/ IsOpen(c)

=============================================================================

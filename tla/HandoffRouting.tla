--------------------------- MODULE HandoffRouting ---------------------------
(***************************************************************************)
(* Task handoffs between ECC2 sessions.  A handoff is a message from one   *)
(* session to another; the unread handoffs of a session are its backlog,   *)
(* and the sessions a lead has sent handoffs to are its team.  A dispatch  *)
(* pass (auto_dispatch_backlog, drain_inbox) passes every handoff of a     *)
(* backlog on to a delegate; a rebalance pass (rebalance_all_teams) takes  *)
(* handoffs away from delegates that have more than one.  Passes are run   *)
(* by the daemon, the dashboard and the command line, each on its own.     *)
(*                                                                         *)
(* The steps of a router are its writes and the reads that decide them;    *)
(* other processes are free to run between any two.                        *)
(***************************************************************************)
EXTENDS FiniteSetsExt, Integers, Sequences

CONSTANTS
  Sessions,
  Leads,        \* sessions that exist at the start
  Routers,      \* processes that run passes
  Passes,       \* what they run: "dispatch", "rebalance"
  Events,       \* what others do to sessions and messages
  MaxParallel,  \* Config::max_parallel_sessions
  LeadLimit,    \* lead_limit: leads looked after in one pass
  PerLead,      \* Config::auto_dispatch_limit_per_session
  InitialMail,  \* the handoffs there may be at the start
  UserMail,     \* bound: handoffs that users send, those included
  MaxMail,      \* bound: handoffs in all
  MayFail,      \* starting a session may fail
  MayCrash,     \* a router may stop anywhere
  NoSession

ASSUME RoutingAssumption ==
  /\ NoSession \notin Sessions
  /\ Leads \subseteq Sessions
  /\ Passes \subseteq {"dispatch", "rebalance"}
  /\ Events \subseteq {"send", "seen", "end", "resume"}
  /\ InitialMail \subseteq Seq([from : Leads, to : Leads, via : {0},
                               read : {"unread", "seen"}])
  /\ MaxParallel \in Nat \ {0}
  /\ {LeadLimit, PerLead, UserMail, MaxMail} \subseteq Nat
  /\ {MayFail, MayCrash} \subseteq BOOLEAN

VARIABLES
  life,    \* a session is absent, active (Pending or Running) or ended
  mail,    \* the task_handoff rows of table messages, in the order of id
  router   \* what each router is doing, with what it has read and still needs

routingVars == <<life, mail, router>>

\* via: the handoff this one passes on, 0 when a user sent it.  The column read
\* is a boolean; its three true values say which statement set it.
Message == [from : Sessions, to : Sessions, via : Nat,
            read : {"unread", "seen", "routed", "moved"}]

Router ==
  [pc : {"idle", "teams", "crowd", "route", "assign", "spawn", "send", "mark"},
   pass : {"dispatch", "rebalance"},
   leads : SUBSET Sessions,            \* leads still to look after
   lead : Sessions \cup {NoSession},
   crowd : SUBSET Sessions,            \* its delegates still to relieve
   holder : Sessions \cup {NoSession}, \* the session whose inbox was listed
   inbox : SUBSET Nat,                 \* handoffs of that list still to route
   msg : Nat,                          \* the one being routed
   to : Sessions \cup {NoSession},     \* the session assign chose
   moved : Nat,                        \* outcomes of this team
   done : Nat, deferred : Nat]         \* outcomes of this pass

Idle(pass, done, deferred) ==
  [pc |-> "idle", pass |-> pass, leads |-> {}, lead |-> NoSession,
   crowd |-> {}, holder |-> NoSession, inbox |-> {}, msg |-> 0,
   to |-> NoSession, moved |-> 0, done |-> done, deferred |-> deferred]

TypeOK ==
  /\ life \in [Sessions -> {"absent", "active", "ended"}]
  /\ mail \in Seq(Message)
  /\ router \in [Routers -> Router]

RoutingInit ==
  /\ life = [s \in Sessions |-> IF s \in Leads THEN "active" ELSE "absent"]
  /\ mail \in InitialMail
  /\ router = [p \in Routers |-> Idle("dispatch", 0, 0)]

-----------------------------------------------------------------------------
(* What the statements read.                                               *)

Backlog(s) ==
  {i \in DOMAIN mail : mail[i].to = s /\ mail[i].read = "unread"}

\* direct_delegate_sessions.  Idle, which it also accepts, is never written.
Team(l) ==
  {s \in Sessions : /\ life[s] = "active"
                    /\ \E i \in DOMAIN mail : mail[i].from = l /\ mail[i].to = s}

HasRoom(l) == Cardinality(Team(l)) < MaxParallel

\* The first n of a set of handoffs, by id.
Oldest(ids, n) == {i \in ids : Cardinality({j \in ids : j < i}) < n}

\* unread_task_handoff_targets: longest backlog first, then oldest handoff.
\* Whoever has unread handoffs is a target, its state is not looked at.
ServedBefore(s, t) ==
  /\ Backlog(s) # {}
  /\ \/ Cardinality(Backlog(s)) > Cardinality(Backlog(t))
     \/ /\ Cardinality(Backlog(s)) = Cardinality(Backlog(t))
        /\ Min(Backlog(s)) < Min(Backlog(t))

Targets ==
  {t \in Sessions : /\ Backlog(t) # {}
                    /\ Cardinality({s \in Sessions : ServedBefore(s, t)}) < LeadLimit}

\* rebalance_all_teams takes the most recently updated of the active sessions.
RecentActive ==
  LET active == {s \in Sessions : life[s] = "active"}
  IN  {S \in SUBSET active :
         Cardinality(S) = Min({LeadLimit, Cardinality(active)})}

Crowded(l) == {d \in Team(l) : Cardinality(Backlog(d)) > 1}

-----------------------------------------------------------------------------
(* A pass.                                                                 *)

At(p, pc) == router[p].pc = pc

\* Router p goes on as r.
Moves(p, r) == router' = [router EXCEPT ![p] = r]

BeginPass(p, pass) ==
  /\ At(p, "idle")
  /\ \E leads \in IF pass = "dispatch" THEN {Targets} ELSE RecentActive :
       Moves(p, [Idle(pass, 0, 0) EXCEPT !.pc = "teams", !.leads = leads])
  /\ UNCHANGED <<life, mail>>

EndPass(p) ==
  /\ At(p, "teams")
  /\ router[p].leads = {}
  /\ Moves(p, Idle(router[p].pass, router[p].done, router[p].deferred))
  /\ UNCHANGED <<life, mail>>

\* drain_inbox lists the lead's own backlog.
DrainLead(p) ==
  /\ At(p, "teams")
  /\ router[p].pass = "dispatch"
  /\ \E l \in router[p].leads :
       Moves(p, [router[p] EXCEPT !.pc = "route", !.leads = @ \ {l},
                                  !.lead = l, !.holder = l,
                                  !.inbox = Oldest(Backlog(l), PerLead)])
  /\ UNCHANGED <<life, mail>>

\* rebalance_team_backlog looks for delegates to relieve if the team has room.
RelieveTeam(p) ==
  /\ At(p, "teams")
  /\ router[p].pass = "rebalance"
  /\ \E l \in router[p].leads :
       Moves(p, [router[p] EXCEPT !.pc = "crowd", !.leads = @ \ {l},
                                  !.lead = l, !.moved = 0,
                                  !.crowd = IF HasRoom(l) THEN Crowded(l) ELSE {}])
  /\ UNCHANGED <<life, mail>>

LeaveTeam(p) ==
  /\ At(p, "crowd")
  /\ router[p].crowd = {} \/ router[p].moved >= PerLead
  /\ Moves(p, [router[p] EXCEPT !.pc = "teams", !.lead = NoSession,
                                !.crowd = {}, !.moved = 0])
  /\ UNCHANGED <<life, mail>>

\* Mutant of RelieveDelegate: the delegate is looked at again while there is room.
RelieveDelegateAgain(p) ==
  /\ At(p, "crowd")
  /\ router[p].moved < PerLead
  /\ \E d \in router[p].crowd :
       Moves(p, [router[p] EXCEPT !.pc = "route", !.holder = d,
                                  !.inbox = Oldest(Backlog(d), PerLead - router[p].moved)])
  /\ UNCHANGED <<life, mail>>

RelieveDelegate(p) ==
  /\ At(p, "crowd")
  /\ router[p].moved < PerLead
  /\ \E d \in router[p].crowd :
       Moves(p, [router[p] EXCEPT !.pc = "route", !.crowd = @ \ {d}, !.holder = d,
                                  !.inbox = Oldest(Backlog(d), PerLead - router[p].moved)])
  /\ UNCHANGED <<life, mail>>

\* The list is used up, or rebalancing finds that the room has gone meanwhile.
LeaveInbox(p) ==
  /\ At(p, "route")
  /\ \/ router[p].inbox = {}
     \/ router[p].pass = "rebalance" /\ ~HasRoom(router[p].lead)
  /\ Moves(p, IF router[p].pass = "dispatch"
              THEN [router[p] EXCEPT !.pc = "teams", !.lead = NoSession, !.holder = NoSession]
              ELSE [router[p] EXCEPT !.pc = "crowd", !.holder = NoSession, !.inbox = {}])
  /\ UNCHANGED <<life, mail>>

\* Mutant of LeavesAlone: the sender is not compared.
LeavesNothingAlone(p, i) == FALSE

\* A handoff that did not come from the lead stays where it is.
LeavesAlone(p, i) ==
  router[p].pass = "rebalance" /\ mail[i].from # router[p].lead

\* Mutant of TakeHandoff: the handoff is marked read when it is taken.
TakeHandoffMarked(p) ==
  /\ At(p, "route")
  /\ router[p].pass = "dispatch"
  /\ \E i \in router[p].inbox :
       /\ mail' = [mail EXCEPT ![i].read = "routed"]
       /\ Moves(p, [router[p] EXCEPT !.pc = "assign", !.inbox = @ \ {i}, !.msg = i])
  /\ UNCHANGED life

TakeHandoff(p) ==
  /\ At(p, "route")
  /\ router[p].pass = "rebalance" => HasRoom(router[p].lead)
  /\ \E i \in router[p].inbox :
       /\ \A j \in router[p].inbox : i <= j
       /\ Moves(p, IF LeavesAlone(p, i)
                   THEN [router[p] EXCEPT !.inbox = @ \ {i}]
                   ELSE [router[p] EXCEPT !.pc = "assign", !.inbox = @ \ {i}, !.msg = i])
  /\ UNCHANGED <<life, mail>>

-----------------------------------------------------------------------------
(* assign_session_in_dir_with_runner_program, on behalf of the lead.       *)

\* Mutant of AssignToNew: the handoff is sent before the session is queued.
AssignToNewUnqueued(p) ==
  /\ At(p, "assign")
  /\ HasRoom(router[p].lead)
  /\ Moves(p, [router[p] EXCEPT !.pc = "send"])
  /\ UNCHANGED <<life, mail>>

AssignToNew(p) ==
  /\ At(p, "assign")
  /\ HasRoom(router[p].lead)
  /\ Moves(p, [router[p] EXCEPT !.pc = "spawn"])
  /\ UNCHANGED <<life, mail>>

\* The best delegate is the one whose recorded context matches the task best,
\* which may be any: it gets the handoff if its own backlog is empty.
ReuseActive(p) ==
  /\ At(p, "assign")
  /\ ~HasRoom(router[p].lead)
  /\ \E d \in Team(router[p].lead) :
       /\ Backlog(d) = {}
       /\ Moves(p, [router[p] EXCEPT !.pc = "send", !.to = d])
  /\ UNCHANGED <<life, mail>>

\* DeferredSaturated.  drain_inbox leaves the handoff unread; rebalancing only
\* compares the session in the outcome, the lead, with the holder.
DeferSaturated(p) ==
  /\ At(p, "assign")
  /\ ~HasRoom(router[p].lead)
  /\ \E d \in Team(router[p].lead) : Backlog(d) # {}
  /\ Moves(p, IF router[p].pass = "dispatch"
              THEN [router[p] EXCEPT !.pc = "route", !.msg = 0, !.deferred = @ + 1]
              ELSE [router[p] EXCEPT !.pc = "mark", !.to = router[p].lead])
  /\ UNCHANGED <<life, mail>>

SpawnDelegate(p) ==
  /\ At(p, "spawn")
  /\ \E s \in Sessions :
       /\ life[s] = "absent"
       /\ life' = [life EXCEPT ![s] = "active"]
       /\ Moves(p, [router[p] EXCEPT !.pc = "send", !.to = s])
  /\ UNCHANGED mail

SendHandoff(p) ==
  /\ At(p, "send")
  /\ Len(mail) < MaxMail
  /\ mail' = Append(mail, [from |-> router[p].lead, to |-> router[p].to,
                           via |-> router[p].msg, read |-> "unread"])
  /\ Moves(p, IF router[p].pass = "rebalance" /\ router[p].to = router[p].holder
              THEN [router[p] EXCEPT !.pc = "route", !.msg = 0, !.to = NoSession]
              ELSE [router[p] EXCEPT !.pc = "mark"])
  /\ UNCHANGED life

\* Mutant of MarkRead: the handoff is left unread.
MarkReadNot(p) ==
  /\ At(p, "mark")
  /\ Moves(p, [router[p] EXCEPT !.pc = "route", !.msg = 0, !.to = NoSession,
                                !.done = @ + 1,
                                !.moved = IF router[p].pass = "dispatch" THEN @ ELSE @ + 1])
  /\ UNCHANGED <<life, mail>>

\* mark_message_read: only an unread row changes.
MarkRead(p) ==
  /\ At(p, "mark")
  /\ mail' = [mail EXCEPT ![router[p].msg].read =
       IF @ # "unread" THEN @
       ELSE IF router[p].pass = "dispatch" THEN "routed" ELSE "moved"]
  /\ Moves(p, [router[p] EXCEPT !.pc = "route", !.msg = 0, !.to = NoSession,
                                !.done = @ + 1,
                                !.moved = IF router[p].pass = "dispatch" THEN @ ELSE @ + 1])
  /\ UNCHANGED life

\* An error ends the whole pass, and so does the death of the process.  A send
\* beyond the bound MaxMail fails, and a spawn beyond the bound Sessions.
GiveUp(p) ==
  /\ \/ At(p, "spawn") /\ (MayFail \/ \A s \in Sessions : life[s] # "absent")
     \/ At(p, "send") /\ Len(mail) = MaxMail
     \/ MayCrash /\ ~At(p, "idle")
  /\ Moves(p, Idle("dispatch", 0, 0))
  /\ UNCHANGED <<life, mail>>

-----------------------------------------------------------------------------
(* Sessions, users and dashboards.                                         *)

\* ecc messages send --kind handoff
UserSends(f, t) ==
  /\ "send" \in Events
  /\ f # t
  /\ "absent" \notin {life[f], life[t]}
  /\ Len(mail) < MaxMail
  /\ Cardinality({i \in DOMAIN mail : mail[i].via = 0}) < UserMail
  /\ mail' = Append(mail, [from |-> f, to |-> t, via |-> 0, read |-> "unread"])
  /\ UNCHANGED <<life, router>>

\* mark_messages_read: somebody looks at the session's messages.
Seen(s) ==
  /\ "seen" \in Events
  /\ Backlog(s) # {}
  /\ mail' = [i \in DOMAIN mail |->
       IF i \in Backlog(s) THEN [mail[i] EXCEPT !.read = "seen"] ELSE mail[i]]
  /\ UNCHANGED <<life, router>>

SessionEnds(s) ==
  /\ "end" \in Events
  /\ life[s] = "active"
  /\ life' = [life EXCEPT ![s] = "ended"]
  /\ UNCHANGED <<mail, router>>

SessionResumes(s) ==
  /\ "resume" \in Events
  /\ life[s] = "ended"
  /\ life' = [life EXCEPT ![s] = "active"]
  /\ UNCHANGED <<mail, router>>

RouterStep(p) ==
  \/ EndPass(p) \/ DrainLead(p) \/ RelieveTeam(p) \/ LeaveTeam(p)
  \/ RelieveDelegate(p) \/ LeaveInbox(p) \/ TakeHandoff(p)
  \/ AssignToNew(p) \/ ReuseActive(p) \/ DeferSaturated(p)
  \/ SpawnDelegate(p) \/ SendHandoff(p) \/ MarkRead(p)

Others ==
  \/ \E f, t \in Sessions : UserSends(f, t)
  \/ \E s \in Sessions : Seen(s) \/ SessionEnds(s) \/ SessionResumes(s)

RoutingNext ==
  \/ \E p \in Routers :
       \/ \E pass \in Passes : BeginPass(p, pass)
       \/ RouterStep(p)
       \/ GiveUp(p)
  \/ Others

RoutingSpec == RoutingInit /\ [][RoutingNext]_routingVars

-----------------------------------------------------------------------------
(* Properties.                                                             *)

SuccessorsOf(i) == {j \in DOMAIN mail : mail[j].via = i}

\* A handoff that drain_inbox has marked read has been passed on: whatever other
\* routers do and wherever they crash, dispatching forgets no work.
DispatchLosesNothing ==
  \A i \in DOMAIN mail : mail[i].read = "routed" => SuccessorsOf(i) # {}

\* While one process routes and does not crash, no handoff is passed on twice,
\* neither by two passes nor by dispatching and rebalancing.
RoutedOnce ==
  \A i \in DOMAIN mail : Cardinality(SuccessorsOf(i)) <= 1

\* rebalance_team_backlog moves a handoff inside one team: the lead that sent it
\* sends it again, to another session.
RebalanceStaysInTeam ==
  \A i \in DOMAIN mail : mail[i].read = "moved" =>
    \A j \in SuccessorsOf(i) : mail[j].from = mail[i].from /\ mail[j].to # mail[i].to

=============================================================================

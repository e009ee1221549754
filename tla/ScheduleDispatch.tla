-------------------------- MODULE ScheduleDispatch --------------------------
(***************************************************************************)
(* Work that ECC2 starts by itself: the rows of scheduled_tasks, each with *)
(* the time of its next run, and the rows of remote_dispatch_requests.     *)
(* The daemon runs a pass over what is due and then a pass over what is    *)
(* pending, in every cycle; `ecc schedule run-due' and `ecc remote run'    *)
(* run the same passes beside it.                                          *)
(*                                                                         *)
(* A pass lists its rows once.  For each row it first starts a session,    *)
(* which it awaits, and then records that in the row, in a statement of    *)
(* its own: another dispatcher may list the row in between, or the         *)
(* dispatcher may die there.                                               *)
(***************************************************************************)
EXTENDS FiniteSets, Integers

CONSTANTS
  Schedules,   \* ids of schedules
  Requests,    \* ids of remote requests
  Leads,       \* sessions that requests may be aimed at
  Dispatchers, \* processes that run passes
  Daemons,     \* those that go round for ever; bound: the others run one pass each
  Mortal,      \* those that may die, or fail to write a row
  Cron,        \* the times at which each schedule is to run
  Fragile,     \* schedules whose session may fail to start
  Limit,       \* the limit of a pass: Config::max_parallel_sessions
  MaxTime,     \* bound: the last time of the clock
  MaxRows,     \* bound: schedules and requests that users make in all
  NoLead, NoSchedule, NoRequest

ASSUME DispatchAssumption ==
  /\ Schedules \subseteq Nat /\ Requests \subseteq Nat
  /\ NoSchedule \notin Schedules /\ NoSchedule \in Int
  /\ NoRequest \notin Requests /\ NoRequest \in Int
  /\ NoLead \notin Leads
  /\ Daemons \subseteq Dispatchers /\ Mortal \subseteq Dispatchers
  /\ Cron \in [Schedules -> SUBSET Nat]
  /\ Fragile \subseteq Schedules
  /\ Limit \in Nat \ {0}
  /\ MaxTime \in Nat /\ MaxRows \in Nat

VARIABLES
  clock,
  schedule,    \* the table scheduled_tasks
  request,     \* the table remote_dispatch_requests
  lead,        \* can the lead's team take one more task?
  dispatcher,  \* what each dispatcher has listed and is doing
  runs,        \* sessions started for each schedule and time (history)
  starts,      \* sessions started for each request (history)
  disturbed    \* rows a pass was cut short on, or that two passes held (history)

vars == <<clock, schedule, request, lead, dispatcher, runs, starts, disturbed>>

\* A schedule and a time it is to be run at; 0 comes before the first.
Times == {0} \cup UNION {Cron[s] : s \in Schedules}
Occurrence == Schedules \X Times

Dispatcher ==
  [pc : {"idle", "schedules", "recordRun", "requests", "recordSuccess", "recordFailure"},
   turn : {"schedules", "requests", "any", "none"}, \* what it may begin next
   now : Nat,                              \* the time at which the pass began
   due : SUBSET Occurrence,                \* listed and not yet handled
   pending : SUBSET Requests,
   run : (Schedules \cup {NoSchedule}) \X Times,
   serving : Requests \cup {NoRequest}]

Idle(turn) ==
  [pc |-> "idle", turn |-> turn, now |-> 0, due |-> {}, pending |-> {},
   run |-> <<NoSchedule, 0>>, serving |-> NoRequest]

\* None, one, or more than one.
Count == 0 .. 2
OneMore(n) == IF n = 2 THEN 2 ELSE n + 1

TypeOK ==
  /\ clock \in 0 .. MaxTime
  /\ schedule \in [Schedules -> [row : {"new", "there", "deleted"}, next : Times]]
  /\ request \in [Requests -> [status : {"new", "pending", "dispatched", "failed"},
                               target : Leads \cup {NoLead},
                               urgent : BOOLEAN]]
  /\ lead \in [Leads -> {"free", "full"}]
  /\ dispatcher \in [Dispatchers -> Dispatcher]
  /\ runs \in [Occurrence -> Count]
  /\ starts \in [Requests -> Count]
  /\ disturbed \in [schedules : SUBSET Schedules, requests : SUBSET Requests]

Init ==
  /\ clock = 0
  /\ schedule = [s \in Schedules |-> [row |-> "new", next |-> 0]]
  /\ request = [r \in Requests |->
                  [status |-> "new", target |-> NoLead, urgent |-> FALSE]]
  /\ lead = [l \in Leads |-> "free"]
  /\ dispatcher = [p \in Dispatchers |->
                     Idle(IF p \in Daemons THEN "schedules" ELSE "any")]
  /\ runs = [o \in Occurrence |-> 0]
  /\ starts = [r \in Requests |-> 0]
  /\ disturbed = [schedules |-> {}, requests |-> {}]

-----------------------------------------------------------------------------
(* What the statements read.                                               *)

\* Mutant of Later: the time itself counts.
LaterOrNow(s, t) == {u \in Cron[s] : u >= t}

\* next_schedule_run_at: cron times strictly after t; there may be no more.
Later(s, t) == {u \in Cron[s] : u > t}
IsLeast(u, S) == u \in S /\ \A v \in S : u <= v

Due(s, t) == schedule[s].row = "there" /\ schedule[s].next <= t

\* ORDER BY next_run_at, id: occurrences a and b as listed.
RunsBefore(a, b) == a[2] < b[2] \/ (a[2] = b[2] /\ a[1] < b[1])

\* ORDER BY priority DESC, created_at, id.
ServedBefore(q, r) ==
  \/ request[q].urgent /\ ~request[r].urgent
  \/ request[q].urgent = request[r].urgent /\ q < r

\* The first Limit elements of S in the order Before.
FirstOf(S, Before(_, _)) ==
  {x \in S : Cardinality({y \in S : Before(y, x)}) < Limit}

\* Mutant of DueNow: the latest first.
DueNowLatest(t) ==
  FirstOf({<<s, schedule[s].next>> : s \in {x \in Schedules : Due(x, t)}},
          LAMBDA a, b : RunsBefore(b, a))

DueNow(t) ==
  FirstOf({<<s, schedule[s].next>> : s \in {x \in Schedules : Due(x, t)}}, RunsBefore)

\* Mutant of PendingNow: requests that are done take up places in the list.
PendingAndDone ==
  {r \in FirstOf({q \in Requests : request[q].status # "new"}, ServedBefore) :
     request[r].status = "pending"}

\* Mutant of PendingNow: requests that have failed are tried again.
PendingOrFailed ==
  FirstOf({r \in Requests : request[r].status \in {"pending", "failed"}}, ServedBefore)

PendingNow ==
  FirstOf({r \in Requests : request[r].status = "pending"}, ServedBefore)

-----------------------------------------------------------------------------
(* Users and sessions.                                                     *)

Tick ==
  /\ clock < MaxTime
  /\ clock' = clock + 1
  /\ UNCHANGED <<schedule, request, lead, dispatcher, runs, starts, disturbed>>

RowsMade ==
  Cardinality({s \in Schedules : schedule[s].row # "new"})
    + Cardinality({r \in Requests : request[r].status # "new"})

\* create_scheduled_task: an expression without a time to come is refused.
CreateSchedule(s) ==
  /\ schedule[s].row = "new"
  /\ RowsMade < MaxRows
  /\ \E next \in Later(s, clock) :
       /\ IsLeast(next, Later(s, clock))
       /\ schedule' = [schedule EXCEPT ![s] = [row |-> "there", next |-> next]]
  /\ UNCHANGED <<clock, request, lead, dispatcher, runs, starts, disturbed>>

DeleteSchedule(s) ==
  /\ schedule[s].row = "there"
  /\ schedule' = [schedule EXCEPT ![s].row = "deleted"]
  /\ UNCHANGED <<clock, request, lead, dispatcher, runs, starts, disturbed>>

\* create_remote_dispatch_request.  Ids are given in the order of creation.
CreateRequest(r, target, urgent) ==
  /\ request[r].status = "new"
  /\ RowsMade < MaxRows
  /\ \A q \in Requests : q < r => request[q].status # "new"
  /\ request' = [request EXCEPT ![r] =
       [status |-> "pending", target |-> target, urgent |-> urgent]]
  /\ UNCHANGED <<clock, schedule, lead, dispatcher, runs, starts, disturbed>>

\* Delegates of the lead start and end.
LeadChanges(l) ==
  /\ \E state \in {"free", "full"} \ {lead[l]} : lead' = [lead EXCEPT ![l] = state]
  /\ UNCHANGED <<clock, schedule, request, dispatcher, runs, starts, disturbed>>

-----------------------------------------------------------------------------
(* A pass over the schedules.                                              *)

At(p, pc) == dispatcher[p].pc = pc
Moves(p, d) == dispatcher' = [dispatcher EXCEPT ![p] = d]

MayBegin(p, pass) == At(p, "idle") /\ dispatcher[p].turn \in {pass, "any"}

\* The pass is over; a daemon goes on with the turn.
Rests(p, turn) == Moves(p, Idle(IF p \in Daemons THEN turn ELSE "none"))

HoldsSchedule(p, s) ==
  dispatcher[p].run[1] = s \/ \E o \in dispatcher[p].due : o[1] = s
HoldsRequest(p, r) ==
  dispatcher[p].serving = r \/ r \in dispatcher[p].pending

\* Mutant of BeginSchedules: the time of the pass is not kept.
BeginSchedulesTimeless(p) ==
  /\ MayBegin(p, "schedules")
  /\ Moves(p, [Idle("none") EXCEPT !.pc = "schedules", !.due = DueNow(clock)])
  /\ UNCHANGED <<clock, schedule, request, lead, runs, starts, disturbed>>

BeginSchedules(p) ==
  /\ MayBegin(p, "schedules")
  /\ Moves(p, [Idle("none") EXCEPT !.pc = "schedules", !.now = clock,
                                        !.due = DueNow(clock)])
  /\ disturbed' = [disturbed EXCEPT !.schedules = @ \cup
       {s \in Schedules : /\ \E o \in DueNow(clock) : o[1] = s
                          /\ \E q \in Dispatchers \ {p} : HoldsSchedule(q, s)}]
  /\ UNCHANGED <<clock, schedule, request, lead, runs, starts>>

\* The next of the list, in the order of the list.
NextRun(p, o) ==
  /\ At(p, "schedules")
  /\ o \in dispatcher[p].due
  /\ \A u \in dispatcher[p].due : o = u \/ RunsBefore(o, u)

StartRun(p, o) ==
  /\ NextRun(p, o)
  /\ runs' = [runs EXCEPT ![o] = OneMore(@)]
  /\ Moves(p, [dispatcher[p] EXCEPT !.pc = "recordRun", !.due = @ \ {o}, !.run = o])
  /\ UNCHANGED <<clock, schedule, request, lead, starts, disturbed>>

\* The error of one schedule ends the pass for all behind it.
StartRunFails(p, o) ==
  /\ NextRun(p, o)
  /\ o[1] \in Fragile
  /\ Rests(p, "requests")
  /\ UNCHANGED <<clock, schedule, request, lead, runs, starts, disturbed>>

RecordRun(p) ==
  /\ At(p, "recordRun")
  /\ LET s == dispatcher[p].run[1]
     IN  \E next \in Later(s, dispatcher[p].now) :
           /\ IsLeast(next, Later(s, dispatcher[p].now))
           /\ schedule' = IF schedule[s].row = "there"
                          THEN [schedule EXCEPT ![s].next = next]
                          ELSE schedule
  /\ Moves(p, [dispatcher[p] EXCEPT !.pc = "schedules", !.run = <<NoSchedule, 0>>])
  /\ UNCHANGED <<clock, request, lead, runs, starts, disturbed>>

\* next_schedule_run_at finds no time: the session runs, the row stays due.
NoNextRun(p) ==
  /\ At(p, "recordRun")
  /\ LET s == dispatcher[p].run[1]
     IN  /\ Later(s, dispatcher[p].now) = {}
         /\ disturbed' = [disturbed EXCEPT !.schedules = @ \cup {s}]
  /\ Rests(p, "requests")
  /\ UNCHANGED <<clock, schedule, request, lead, runs, starts>>

EndSchedules(p) ==
  /\ At(p, "schedules")
  /\ dispatcher[p].due = {}
  /\ Rests(p, "requests")
  /\ UNCHANGED <<clock, schedule, request, lead, runs, starts, disturbed>>

-----------------------------------------------------------------------------
(* A pass over the remote requests.                                        *)

BeginRequests(p) ==
  /\ MayBegin(p, "requests")
  /\ Moves(p, [Idle("none") EXCEPT !.pc = "requests", !.pending = PendingNow])
  /\ disturbed' = [disturbed EXCEPT !.requests = @ \cup
       {r \in PendingNow : \E q \in Dispatchers \ {p} : HoldsRequest(q, r)}]
  /\ UNCHANGED <<clock, schedule, request, lead, runs, starts>>

NextRequest(p, r) ==
  /\ At(p, "requests")
  /\ r \in dispatcher[p].pending
  /\ \A q \in dispatcher[p].pending : r = q \/ ServedBefore(r, q)

Handles(p, r, pc) ==
  Moves(p, [dispatcher[p] EXCEPT !.pc = pc, !.pending = @ \ {r}, !.serving = r])

\* A session of its own, or a delegate of the target.
StartRequest(p, r) ==
  /\ NextRequest(p, r)
  /\ request[r].target \in Leads => lead[request[r].target] = "free"
  /\ starts' = [starts EXCEPT ![r] = OneMore(@)]
  /\ Handles(p, r, "recordSuccess")
  /\ UNCHANGED <<clock, schedule, request, lead, runs, disturbed>>

\* The target has been deleted, or the session cannot be started.
StartRequestFails(p, r) ==
  /\ NextRequest(p, r)
  /\ Handles(p, r, "recordFailure")
  /\ UNCHANGED <<clock, schedule, request, lead, runs, starts, disturbed>>

\* assign_session has started a delegate and then cannot send it the handoff.
StartRequestHalf(p, r) ==
  /\ NextRequest(p, r)
  /\ p \in Mortal
  /\ request[r].target \in Leads /\ lead[request[r].target] = "free"
  /\ starts' = [starts EXCEPT ![r] = OneMore(@)]
  /\ disturbed' = [disturbed EXCEPT !.requests = @ \cup {r}]
  /\ Handles(p, r, "recordFailure")
  /\ UNCHANGED <<clock, schedule, request, lead, runs>>

\* Mutant of DeferRequest: the row is set aside.
DeferRequestAside(p, r) ==
  /\ NextRequest(p, r)
  /\ request[r].target \in Leads /\ lead[request[r].target] = "full"
  /\ request' = [request EXCEPT ![r].status = "deferred"]
  /\ Moves(p, [dispatcher[p] EXCEPT !.pending = @ \ {r}])
  /\ UNCHANGED <<clock, schedule, lead, runs, starts, disturbed>>

\* DeferredSaturated: the request stays pending.
DeferRequest(p, r) ==
  /\ NextRequest(p, r)
  /\ request[r].target \in Leads /\ lead[request[r].target] = "full"
  /\ Moves(p, [dispatcher[p] EXCEPT !.pending = @ \ {r}])
  /\ UNCHANGED <<clock, schedule, request, lead, runs, starts, disturbed>>

Records(p, status) ==
  /\ request' = [request EXCEPT ![dispatcher[p].serving].status = status]
  /\ Moves(p, [dispatcher[p] EXCEPT !.pc = "requests", !.serving = NoRequest])
  /\ UNCHANGED <<clock, schedule, lead, runs, starts, disturbed>>

RecordSuccess(p) == At(p, "recordSuccess") /\ Records(p, "dispatched")

RecordFailure(p) == At(p, "recordFailure") /\ Records(p, "failed")

\* The daemon goes through the rest of its cycle and sleeps.
EndRequests(p) ==
  /\ At(p, "requests")
  /\ dispatcher[p].pending = {}
  /\ Rests(p, "schedules")
  /\ UNCHANGED <<clock, schedule, request, lead, runs, starts, disturbed>>

\* The process dies, or a write fails and the error ends the pass.
Dies(p) ==
  /\ p \in Mortal
  /\ ~At(p, "idle")
  /\ Rests(p, "schedules")
  /\ disturbed' =
       [schedules |-> disturbed.schedules \cup ({dispatcher[p].run[1]} \ {NoSchedule}),
        requests |-> disturbed.requests \cup ({dispatcher[p].serving} \ {NoRequest})]
  /\ UNCHANGED <<clock, schedule, request, lead, runs, starts>>

-----------------------------------------------------------------------------
ScheduleStep(p) ==
  \/ \E o \in Occurrence : StartRun(p, o) \/ StartRunFails(p, o)
  \/ RecordRun(p) \/ NoNextRun(p) \/ EndSchedules(p)

RequestStep(p) ==
  \/ \E r \in Requests : StartRequest(p, r) \/ StartRequestFails(p, r)
                         \/ StartRequestHalf(p, r) \/ DeferRequest(p, r)
  \/ RecordSuccess(p) \/ RecordFailure(p) \/ EndRequests(p)

Step(p) ==
  BeginSchedules(p) \/ ScheduleStep(p) \/ BeginRequests(p) \/ RequestStep(p)

Others ==
  \/ Tick
  \/ \E s \in Schedules : CreateSchedule(s) \/ DeleteSchedule(s)
  \/ \E r \in Requests, t \in Leads \cup {NoLead}, u \in BOOLEAN : CreateRequest(r, t, u)
  \/ \E l \in Leads : LeadChanges(l)

Next ==
  \/ \E p \in Dispatchers : Step(p) \/ Dies(p)
  \/ Others

Spec == Init /\ [][Next]_vars

\* The daemon goes on as long as it lives; users and sessions owe nothing.
FairSpec == Spec /\ \A p \in Daemons : WF_vars(Step(p))

-----------------------------------------------------------------------------
(* Properties.                                                             *)

\* A schedule starts one session for each of its times, unless a pass was cut
\* short between starting the session and recording the run, another dispatcher
\* had listed the schedule at the same time, or its expression has no time left.
RunsOnce ==
  \A o \in Occurrence : runs[o] > 1 => o[1] \in disturbed.schedules

\* next_run_at only moves on, also when a schedule is recorded by a pass that
\* began long ago, unless two passes held it.
NextRunAdvances ==
  [][\A s \in Schedules :
       schedule'[s].next < schedule[s].next => s \in disturbed.schedules]_vars

\* The status of a request says what became of it: a pending one has not been
\* started (or its success is being recorded), a dispatched one has been started
\* once and a failed one never, unless the record was lost or made twice.  (The
\* refinement below says as much and more; its proof rests on this invariant.)
StatusIsHonest ==
  \A r \in Requests \ disturbed.requests :
    /\ request[r].status = "dispatched" => starts[r] = 1
    /\ request[r].status = "failed" => starts[r] = 0
    /\ request[r].status = "pending" /\ starts[r] > 0 =>
         \E p \in Dispatchers : At(p, "recordSuccess") /\ dispatcher[p].serving = r

\* A due schedule is run and moves on, unless one that is due before it cannot be
\* started or moved on: then every pass ends there.
Blocks(b, s) ==
  /\ Due(b, clock)
  /\ b \in Fragile \/ Later(b, clock) = {}
  /\ b = s \/ RunsBefore(<<b, schedule[b].next>>, <<s, schedule[s].next>>)

DueSchedulesRun ==
  \A s \in Schedules :
    Due(s, clock) ~> (~Due(s, clock) \/ \E b \in Schedules : Blocks(b, s))

\* A pending request is served, unless its own lead takes no more or as many as a
\* pass lists wait for such leads before it.
Waiting(r) ==
  /\ request[r].status = "pending"
  /\ request[r].target \in Leads /\ lead[request[r].target] = "full"

PendingRequestsServed ==
  \A r \in Requests :
    request[r].status = "pending" ~>
      \/ request[r].status # "pending"
      \/ Waiting(r)
      \/ Cardinality({q \in Requests : Waiting(q) /\ ServedBefore(q, r)}) >= Limit

-----------------------------------------------------------------------------
(* The requests as those who make them see them.                           *)

Phase(r) ==
  IF r \in disturbed.requests THEN "lost"
  ELSE CASE request[r].status = "new" /\ starts[r] = 0 -> "unmade"
         [] request[r].status = "pending" /\ starts[r] = 0 -> "open"
         [] request[r].status = "pending" /\ starts[r] = 1 -> "started"
         [] request[r].status = "dispatched" /\ starts[r] = 1 -> "done"
         [] request[r].status = "failed" /\ starts[r] = 0 -> "refused"
         [] OTHER -> "wrong"

Service == INSTANCE RequestService WITH phase <- [r \in Requests |-> Phase(r)]

\* Whatever dispatchers, users and leads do, each request goes through the phases
\* of RequestService in their order, and an answer is never taken back: the
\* dispatchers implement that service.
DispatchServes == Service!Spec
=============================================================================

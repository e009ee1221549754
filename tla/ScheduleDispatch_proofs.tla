----------------------- MODULE ScheduleDispatch_proofs ----------------------
(***************************************************************************)
(* Proofs about ScheduleDispatch, for any number of schedules, requests    *)
(* and dispatchers, any cron expressions and any deaths.                   *)
(***************************************************************************)
EXTENDS ScheduleDispatch, TLAPS

(* The times of an expression are times.                                   *)
LEMMA CronTimes ==
  \A s \in Schedules, t \in Int : Later(s, t) \subseteq Times /\ Times \subseteq Nat
BY DispatchAssumption, SMT DEF Later, Times, DispatchAssumption

(* The lists of a pass: rows that are due, with their times, and requests  *)
(* that are pending.                                                       *)
LEMMA Listed ==
  /\ \A t : \A o \in DueNow(t) :
       \E s \in Schedules : Due(s, t) /\ o = <<s, schedule[s].next>>
  /\ \A r \in PendingNow : r \in Requests /\ request[r].status = "pending"
BY SMT DEF DueNow, PendingNow, FirstOf

LEMMA CountStep == \A n \in Count : OneMore(n) \in Count
BY SMT DEF Count, OneMore

-----------------------------------------------------------------------------
(* Types.                                                                  *)

LEMMA IdleType ==
  \A d \in {"schedules", "requests", "any", "none"} : Idle(d) \in Dispatcher
<1>1. 0 \in Times
      BY DEF Times
<1> QED
    BY <1>1 DEF Idle, Dispatcher

LEMMA TypeInit == Init => TypeOK
<1>1. 0 \in Times
      BY DEF Times
<1> QED
    BY <1>1, IdleType, DispatchAssumption DEF Init, TypeOK, Count, DispatchAssumption

LEMMA DispatcherType == TypeOK => \A p \in Dispatchers : dispatcher[p] \in Dispatcher
BY DEF TypeOK

(* The changes a pass makes to its own record keep its type.               *)
LEMMA Changes ==
  ASSUME NEW d \in Dispatcher
  PROVE  /\ \A o \in Occurrence :
              [d EXCEPT !.pc = "recordRun", !.due = @ \ {o}, !.run = o] \in Dispatcher
         /\ [d EXCEPT !.pc = "schedules", !.run = <<NoSchedule, 0>>] \in Dispatcher
         /\ \A r \in Requests, pc \in {"recordSuccess", "recordFailure"} :
              [d EXCEPT !.pc = pc, !.pending = @ \ {r}, !.serving = r] \in Dispatcher
         /\ \A r \in Requests : [d EXCEPT !.pending = @ \ {r}] \in Dispatcher
         /\ [d EXCEPT !.pc = "requests", !.serving = NoRequest] \in Dispatcher
<1> DEFINE Runs == (Schedules \cup {NoSchedule}) \X Times
<1>1. <<NoSchedule, 0>> \in Runs /\ Occurrence \subseteq Runs
      BY DEF Times, Occurrence
<1>2. Dispatcher =
        [pc : {"idle", "schedules", "recordRun", "requests", "recordSuccess", "recordFailure"},
         turn : {"schedules", "requests", "any", "none"}, now : Nat,
         due : SUBSET Occurrence, pending : SUBSET Requests, run : Runs,
         serving : Requests \cup {NoRequest}]
      BY DEF Dispatcher
<1> HIDE DEF Runs
<1> QED
    BY <1>1, <1>2

(* What a dispatcher holds in each place of a pass.                        *)
PositionAt(p) ==
  /\ IF At(p, "recordRun") THEN dispatcher[p].run[1] \in Schedules
                            ELSE dispatcher[p].run[1] = NoSchedule
  /\ dispatcher[p].pc \notin {"schedules", "recordRun"} => dispatcher[p].due = {}
  /\ IF dispatcher[p].pc \in {"recordSuccess", "recordFailure"}
       THEN dispatcher[p].serving \in Requests
       ELSE dispatcher[p].serving = NoRequest
  /\ dispatcher[p].pc \notin {"requests", "recordSuccess", "recordFailure"} =>
       dispatcher[p].pending = {}

Position == \A p \in Dispatchers : PositionAt(p)

LEMMA MovesType ==
  ASSUME TypeOK, NEW p \in Dispatchers, NEW d \in Dispatcher, Moves(p, d)
  PROVE  dispatcher' \in [Dispatchers -> Dispatcher]
BY DEF Moves, TypeOK

LEMMA RestsType ==
  ASSUME TypeOK, NEW p \in Dispatchers, NEW turn \in {"schedules", "requests"},
         Rests(p, turn)
  PROVE  dispatcher' \in [Dispatchers -> Dispatcher]
BY IdleType, MovesType DEF Rests

LEMMA TypeStep == TypeOK /\ Position /\ [Next]_vars => TypeOK'
<1> SUFFICES ASSUME TypeOK, Position, [Next]_vars PROVE TypeOK'
    OBVIOUS
<1>1. CASE UNCHANGED vars
      BY <1>1 DEF TypeOK, vars
<1>2. CASE Tick
      BY <1>2, DispatchAssumption DEF TypeOK, Tick, DispatchAssumption
<1>3. ASSUME NEW s \in Schedules, CreateSchedule(s) PROVE TypeOK'
      <2>1. PICK next \in Later(s, clock) :
              schedule' = [schedule EXCEPT ![s] = [row |-> "there", next |-> next]]
            BY <1>3 DEF CreateSchedule
      <2>2. next \in Times
            BY <2>1, CronTimes DEF TypeOK
      <2> QED
          BY <1>3, <2>1, <2>2 DEF TypeOK, CreateSchedule
<1>4. ASSUME NEW s \in Schedules, DeleteSchedule(s) PROVE TypeOK'
      BY <1>4 DEF TypeOK, DeleteSchedule
<1>5. ASSUME NEW r \in Requests, NEW t \in Leads \cup {NoLead}, NEW u \in BOOLEAN,
             CreateRequest(r, t, u)
      PROVE  TypeOK'
      BY <1>5 DEF TypeOK, CreateRequest
<1>6. ASSUME NEW l \in Leads, LeadChanges(l) PROVE TypeOK'
      BY <1>6 DEF TypeOK, LeadChanges
<1>7. ASSUME NEW p \in Dispatchers, BeginSchedules(p) PROVE TypeOK'
      <2>1. DueNow(clock) \subseteq Occurrence
            BY Listed DEF Occurrence, TypeOK
      <2>2. 0 \in Times /\ clock \in Nat
            BY DispatchAssumption DEF Times, TypeOK, DispatchAssumption
      <2>3. [Idle("none") EXCEPT !.pc = "schedules", !.now = clock,
                                 !.due = DueNow(clock)] \in Dispatcher
            BY <2>1, <2>2 DEF Dispatcher, Idle
      <2>4. dispatcher' \in [Dispatchers -> Dispatcher]
            BY <1>7, <2>3, MovesType DEF BeginSchedules
      <2> QED
          BY <1>7, <2>4 DEF TypeOK, BeginSchedules
<1>8. ASSUME NEW p \in Dispatchers, NEW o \in Occurrence, StartRun(p, o) PROVE TypeOK'
      <2>1. [dispatcher[p] EXCEPT !.pc = "recordRun", !.due = @ \ {o}, !.run = o]
              \in Dispatcher
            BY Changes, DispatcherType
      <2>2. dispatcher' \in [Dispatchers -> Dispatcher]
            BY <1>8, <2>1, MovesType DEF StartRun
      <2>3. runs' \in [Occurrence -> Count]
            BY <1>8, CountStep DEF StartRun, TypeOK
      <2> QED
          BY <1>8, <2>2, <2>3 DEF TypeOK, StartRun
<1>9. ASSUME NEW p \in Dispatchers, NEW o \in Occurrence, StartRunFails(p, o)
      PROVE  TypeOK'
      BY <1>9, RestsType DEF TypeOK, StartRunFails
<1>10. ASSUME NEW p \in Dispatchers, RecordRun(p) PROVE TypeOK'
      <2> DEFINE s == dispatcher[p].run[1]
      <2>1. PICK next \in Later(s, dispatcher[p].now) :
              schedule' = IF schedule[s].row = "there"
                          THEN [schedule EXCEPT ![s].next = next]
                          ELSE schedule
            BY <1>10 DEF RecordRun
      <2>2. s \in Schedules /\ dispatcher[p].now \in Nat
            BY <1>10 DEF RecordRun, Position, PositionAt, TypeOK, Dispatcher
      <2>3. next \in Times
            BY <2>1, <2>2, CronTimes
      <2>4. schedule' \in [Schedules -> [row : {"new", "there", "deleted"}, next : Times]]
            BY <2>1, <2>2, <2>3 DEF TypeOK
      <2>5. [dispatcher[p] EXCEPT !.pc = "schedules", !.run = <<NoSchedule, 0>>] \in Dispatcher
            BY Changes, DispatcherType
      <2>6. dispatcher' \in [Dispatchers -> Dispatcher]
            BY <1>10, <2>5, MovesType DEF RecordRun
      <2> QED
          BY <1>10, <2>4, <2>6 DEF TypeOK, RecordRun
<1>11. ASSUME NEW p \in Dispatchers, NoNextRun(p) PROVE TypeOK'
      <2>1. dispatcher[p].run[1] \in Schedules
            BY <1>11 DEF NoNextRun, Position, PositionAt
      <2>2. dispatcher' \in [Dispatchers -> Dispatcher]
            BY <1>11, RestsType DEF NoNextRun
      <2> QED
          BY <1>11, <2>1, <2>2 DEF TypeOK, NoNextRun
<1>12. ASSUME NEW p \in Dispatchers, EndSchedules(p) PROVE TypeOK'
      BY <1>12, RestsType DEF TypeOK, EndSchedules
<1>13. ASSUME NEW p \in Dispatchers, BeginRequests(p) PROVE TypeOK'
      <2>1. PendingNow \subseteq Requests /\ 0 \in Times
            BY Listed DEF Times
      <2>2. [Idle("none") EXCEPT !.pc = "requests", !.pending = PendingNow] \in Dispatcher
            BY <2>1 DEF Dispatcher, Idle
      <2>3. dispatcher' \in [Dispatchers -> Dispatcher]
            BY <1>13, <2>2, MovesType DEF BeginRequests
      <2> QED
          BY <1>13, <2>1, <2>3 DEF TypeOK, BeginRequests
<1>14. ASSUME NEW p \in Dispatchers, NEW r \in Requests,
              NEW pc \in {"recordSuccess", "recordFailure"}, Handles(p, r, pc)
       PROVE  dispatcher' \in [Dispatchers -> Dispatcher]
      <2>1. [dispatcher[p] EXCEPT !.pc = pc, !.pending = @ \ {r}, !.serving = r] \in Dispatcher
            BY Changes, DispatcherType
      <2> QED
          BY <1>14, <2>1, MovesType DEF Handles
<1>15. ASSUME NEW p \in Dispatchers, NEW r \in Requests, StartRequest(p, r) PROVE TypeOK'
      BY <1>14, <1>15, CountStep DEF TypeOK, StartRequest
<1>16. ASSUME NEW p \in Dispatchers, NEW r \in Requests, StartRequestFails(p, r)
       PROVE  TypeOK'
      BY <1>14, <1>16 DEF TypeOK, StartRequestFails
<1>17. ASSUME NEW p \in Dispatchers, NEW r \in Requests, StartRequestHalf(p, r)
       PROVE  TypeOK'
      BY <1>14, <1>17, CountStep DEF TypeOK, StartRequestHalf
<1>18. ASSUME NEW p \in Dispatchers, NEW r \in Requests, DeferRequest(p, r) PROVE TypeOK'
      <2>1. [dispatcher[p] EXCEPT !.pending = @ \ {r}] \in Dispatcher
            BY Changes, DispatcherType
      <2>2. dispatcher' \in [Dispatchers -> Dispatcher]
            BY <1>18, <2>1, MovesType DEF DeferRequest
      <2> QED
          BY <1>18, <2>2 DEF TypeOK, DeferRequest
<1>19. ASSUME NEW p \in Dispatchers, RecordSuccess(p) \/ RecordFailure(p) PROVE TypeOK'
      <2>1. PICK status \in {"dispatched", "failed"} : Records(p, status)
            BY <1>19 DEF RecordSuccess, RecordFailure
      <2>2. dispatcher[p].serving \in Requests
            BY <1>19 DEF RecordSuccess, RecordFailure, At, Position, PositionAt
      <2>3. [dispatcher[p] EXCEPT !.pc = "requests", !.serving = NoRequest] \in Dispatcher
            BY Changes, DispatcherType
      <2>4. dispatcher' \in [Dispatchers -> Dispatcher]
            BY <2>1, <2>3, MovesType DEF Records
      <2> QED
          BY <2>1, <2>2, <2>4 DEF TypeOK, Records
<1>20. ASSUME NEW p \in Dispatchers, EndRequests(p) PROVE TypeOK'
      BY <1>20, RestsType DEF TypeOK, EndRequests
<1>21. ASSUME NEW p \in Dispatchers, Dies(p) PROVE TypeOK'
      <2>1. /\ dispatcher[p].run[1] \in Schedules \cup {NoSchedule}
            /\ dispatcher[p].serving \in Requests \cup {NoRequest}
            BY DEF TypeOK, Dispatcher
      <2>2. dispatcher' \in [Dispatchers -> Dispatcher]
            BY <1>21, RestsType DEF Dies
      <2> QED
          BY <1>21, <2>1, <2>2 DEF TypeOK, Dies
<1> QED
    BY <1>1, <1>2, <1>3, <1>4, <1>5, <1>6, <1>7, <1>8, <1>9, <1>10, <1>11, <1>12,
       <1>13, <1>15, <1>16, <1>17, <1>18, <1>19, <1>20, <1>21
    DEF Next, Others, Step, ScheduleStep, RequestStep

-----------------------------------------------------------------------------
(* Positions.                                                              *)

LEMMA MovesOnly ==
  ASSUME TypeOK, NEW p \in Dispatchers, NEW d, Moves(p, d)
  PROVE  /\ dispatcher'[p] = d
         /\ \A q \in Dispatchers : q # p => dispatcher'[q] = dispatcher[q]
BY DEF TypeOK, Moves

(* A dispatcher that rests holds nothing.                                  *)
LEMMA RestsOnly ==
  ASSUME TypeOK, NEW p \in Dispatchers, NEW turn, Rests(p, turn)
  PROVE  /\ dispatcher'[p].pc = "idle" /\ dispatcher'[p].due = {}
         /\ dispatcher'[p].pending = {} /\ dispatcher'[p].run[1] = NoSchedule
         /\ dispatcher'[p].serving = NoRequest
         /\ \A q \in Dispatchers : q # p => dispatcher'[q] = dispatcher[q]
BY MovesOnly DEF Rests, Idle

LEMMA PositionInit == Init => Position
BY DEF Init, Position, PositionAt, Idle, At

(* What the changes of a pass make of a record.                            *)
LEMMA Fields ==
  ASSUME NEW d \in Dispatcher
  PROVE  /\ \A o : LET e == [d EXCEPT !.pc = "recordRun", !.due = @ \ {o}, !.run = o]
                  IN  /\ e.pc = "recordRun" /\ e.due = d.due \ {o} /\ e.run = o
                      /\ e.pending = d.pending /\ e.serving = d.serving /\ e.now = d.now
         /\ LET e == [d EXCEPT !.pc = "schedules", !.run = <<NoSchedule, 0>>]
            IN  /\ e.pc = "schedules" /\ e.run[1] = NoSchedule /\ e.due = d.due
                /\ e.pending = d.pending /\ e.serving = d.serving /\ e.now = d.now
         /\ \A r, pc : LET e == [d EXCEPT !.pc = pc, !.pending = @ \ {r}, !.serving = r]
                      IN  /\ e.pc = pc /\ e.pending = d.pending \ {r} /\ e.serving = r
                          /\ e.due = d.due /\ e.run = d.run /\ e.now = d.now
         /\ \A r : LET e == [d EXCEPT !.pending = @ \ {r}]
                  IN  /\ e.pending = d.pending \ {r} /\ e.pc = d.pc
                      /\ e.serving = d.serving /\ e.due = d.due
                      /\ e.run = d.run /\ e.now = d.now
         /\ LET e == [d EXCEPT !.pc = "requests", !.serving = NoRequest]
            IN  /\ e.pc = "requests" /\ e.serving = NoRequest /\ e.pending = d.pending
                /\ e.due = d.due /\ e.run = d.run /\ e.now = d.now
BY DEF Dispatcher

(* A dispatcher that begins a pass has listed it and holds nothing else.   *)
LEMMA Begins ==
  \A t, L : /\ LET e == [Idle("none") EXCEPT !.pc = "schedules", !.now = t, !.due = L]
               IN  /\ e.pc = "schedules" /\ e.due = L /\ e.now = t
                   /\ e.run[1] = NoSchedule /\ e.pending = {} /\ e.serving = NoRequest
            /\ LET e == [Idle("none") EXCEPT !.pc = "requests", !.pending = L]
               IN  /\ e.pc = "requests" /\ e.pending = L /\ e.due = {}
                   /\ e.run[1] = NoSchedule /\ e.serving = NoRequest
BY DEF Idle

LEMMA PositionOf ==
  ASSUME TypeOK, Position, NEW p \in Dispatchers, PositionAt(p)',
         \A q \in Dispatchers : q # p => dispatcher'[q] = dispatcher[q]
  PROVE  Position'
BY DEF Position, PositionAt, At

(* What each action makes of the dispatchers.                              *)
LEMMA BeginsSchedules ==
  ASSUME TypeOK, NEW p \in Dispatchers, BeginSchedules(p)
  PROVE  /\ dispatcher'[p].pc = "schedules" /\ dispatcher'[p].due = DueNow(clock)
         /\ dispatcher'[p].now = clock /\ dispatcher'[p].run[1] = NoSchedule
         /\ dispatcher'[p].pending = {} /\ dispatcher'[p].serving = NoRequest
         /\ \A q \in Dispatchers : q # p => dispatcher'[q] = dispatcher[q]
<1> DEFINE d == [Idle("none") EXCEPT !.pc = "schedules", !.now = clock,
                                       !.due = DueNow(clock)]
<1>1. Moves(p, d)
      BY DEF BeginSchedules
<1>2. /\ d.pc = "schedules" /\ d.due = DueNow(clock)
      /\ d.now = clock /\ d.run[1] = NoSchedule
      /\ d.pending = {} /\ d.serving = NoRequest
      BY Begins
<1> HIDE DEF d
<1>3. /\ dispatcher'[p] = d
      /\ \A q \in Dispatchers : q # p => dispatcher'[q] = dispatcher[q]
      BY <1>1, MovesOnly
<1> QED
    BY <1>2, <1>3

LEMMA StartsRun ==
  ASSUME TypeOK, NEW p \in Dispatchers, NEW o \in Occurrence, StartRun(p, o)
  PROVE  /\ dispatcher'[p].pc = "recordRun" /\ dispatcher'[p].due = dispatcher[p].due \ {o}
         /\ dispatcher'[p].run = o /\ dispatcher'[p].now = dispatcher[p].now
         /\ dispatcher'[p].pending = dispatcher[p].pending /\ dispatcher'[p].serving = dispatcher[p].serving
         /\ \A q \in Dispatchers : q # p => dispatcher'[q] = dispatcher[q]
<1> DEFINE d == [dispatcher[p] EXCEPT !.pc = "recordRun", !.due = @ \ {o}, !.run = o]
<1>1. Moves(p, d)
      BY DEF StartRun
<1>2. /\ d.pc = "recordRun" /\ d.due = dispatcher[p].due \ {o}
      /\ d.run = o /\ d.now = dispatcher[p].now
      /\ d.pending = dispatcher[p].pending /\ d.serving = dispatcher[p].serving
      BY DispatcherType, Fields
<1> HIDE DEF d
<1>3. /\ dispatcher'[p] = d
      /\ \A q \in Dispatchers : q # p => dispatcher'[q] = dispatcher[q]
      BY <1>1, MovesOnly
<1> QED
    BY <1>2, <1>3

LEMMA RecordsRun ==
  ASSUME TypeOK, NEW p \in Dispatchers, RecordRun(p)
  PROVE  /\ dispatcher'[p].pc = "schedules" /\ dispatcher'[p].run[1] = NoSchedule
         /\ dispatcher'[p].due = dispatcher[p].due /\ dispatcher'[p].now = dispatcher[p].now
         /\ dispatcher'[p].pending = dispatcher[p].pending /\ dispatcher'[p].serving = dispatcher[p].serving
         /\ \A q \in Dispatchers : q # p => dispatcher'[q] = dispatcher[q]
<1> DEFINE d == [dispatcher[p] EXCEPT !.pc = "schedules", !.run = <<NoSchedule, 0>>]
<1>1. Moves(p, d)
      BY DEF RecordRun
<1>2. /\ d.pc = "schedules" /\ d.run[1] = NoSchedule
      /\ d.due = dispatcher[p].due /\ d.now = dispatcher[p].now
      /\ d.pending = dispatcher[p].pending /\ d.serving = dispatcher[p].serving
      BY DispatcherType, Fields
<1> HIDE DEF d
<1>3. /\ dispatcher'[p] = d
      /\ \A q \in Dispatchers : q # p => dispatcher'[q] = dispatcher[q]
      BY <1>1, MovesOnly
<1> QED
    BY <1>2, <1>3

LEMMA BeginsRequests ==
  ASSUME TypeOK, NEW p \in Dispatchers, BeginRequests(p)
  PROVE  /\ dispatcher'[p].pc = "requests" /\ dispatcher'[p].pending = PendingNow
         /\ dispatcher'[p].run[1] = NoSchedule /\ dispatcher'[p].due = {}
         /\ dispatcher'[p].serving = NoRequest
         /\ \A q \in Dispatchers : q # p => dispatcher'[q] = dispatcher[q]
<1> DEFINE d == [Idle("none") EXCEPT !.pc = "requests", !.pending = PendingNow]
<1>1. Moves(p, d)
      BY DEF BeginRequests
<1>2. /\ d.pc = "requests" /\ d.pending = PendingNow
      /\ d.run[1] = NoSchedule /\ d.due = {}
      /\ d.serving = NoRequest
      BY Begins
<1> HIDE DEF d
<1>3. /\ dispatcher'[p] = d
      /\ \A q \in Dispatchers : q # p => dispatcher'[q] = dispatcher[q]
      BY <1>1, MovesOnly
<1> QED
    BY <1>2, <1>3

LEMMA HandlesRequest ==
  ASSUME TypeOK, NEW p \in Dispatchers, NEW r, NEW pc, Handles(p, r, pc)
  PROVE  /\ dispatcher'[p].pc = pc /\ dispatcher'[p].pending = dispatcher[p].pending \ {r}
         /\ dispatcher'[p].serving = r /\ dispatcher'[p].run = dispatcher[p].run
         /\ dispatcher'[p].due = dispatcher[p].due /\ dispatcher'[p].now = dispatcher[p].now
         /\ \A q \in Dispatchers : q # p => dispatcher'[q] = dispatcher[q]
<1> DEFINE d == [dispatcher[p] EXCEPT !.pc = pc, !.pending = @ \ {r}, !.serving = r]
<1>1. Moves(p, d)
      BY DEF Handles
<1>2. /\ d.pc = pc /\ d.pending = dispatcher[p].pending \ {r}
      /\ d.serving = r /\ d.run = dispatcher[p].run
      /\ d.due = dispatcher[p].due /\ d.now = dispatcher[p].now
      BY DispatcherType, Fields
<1> HIDE DEF d
<1>3. /\ dispatcher'[p] = d
      /\ \A q \in Dispatchers : q # p => dispatcher'[q] = dispatcher[q]
      BY <1>1, MovesOnly
<1> QED
    BY <1>2, <1>3

LEMMA Defers ==
  ASSUME TypeOK, NEW p \in Dispatchers, NEW r, DeferRequest(p, r)
  PROVE  /\ dispatcher'[p].pc = dispatcher[p].pc /\ dispatcher'[p].pending = dispatcher[p].pending \ {r}
         /\ dispatcher'[p].serving = dispatcher[p].serving /\ dispatcher'[p].run = dispatcher[p].run
         /\ dispatcher'[p].due = dispatcher[p].due /\ dispatcher'[p].now = dispatcher[p].now
         /\ \A q \in Dispatchers : q # p => dispatcher'[q] = dispatcher[q]
<1> DEFINE d == [dispatcher[p] EXCEPT !.pending = @ \ {r}]
<1>1. Moves(p, d)
      BY DEF DeferRequest
<1>2. /\ d.pc = dispatcher[p].pc /\ d.pending = dispatcher[p].pending \ {r}
      /\ d.serving = dispatcher[p].serving /\ d.run = dispatcher[p].run
      /\ d.due = dispatcher[p].due /\ d.now = dispatcher[p].now
      BY DispatcherType, Fields
<1> HIDE DEF d
<1>3. /\ dispatcher'[p] = d
      /\ \A q \in Dispatchers : q # p => dispatcher'[q] = dispatcher[q]
      BY <1>1, MovesOnly
<1> QED
    BY <1>2, <1>3

LEMMA RecordsRequest ==
  ASSUME TypeOK, NEW p \in Dispatchers, NEW status, Records(p, status)
  PROVE  /\ dispatcher'[p].pc = "requests" /\ dispatcher'[p].serving = NoRequest
         /\ dispatcher'[p].pending = dispatcher[p].pending /\ dispatcher'[p].run = dispatcher[p].run
         /\ dispatcher'[p].due = dispatcher[p].due /\ dispatcher'[p].now = dispatcher[p].now
         /\ \A q \in Dispatchers : q # p => dispatcher'[q] = dispatcher[q]
<1> DEFINE d == [dispatcher[p] EXCEPT !.pc = "requests", !.serving = NoRequest]
<1>1. Moves(p, d)
      BY DEF Records
<1>2. /\ d.pc = "requests" /\ d.serving = NoRequest
      /\ d.pending = dispatcher[p].pending /\ d.run = dispatcher[p].run
      /\ d.due = dispatcher[p].due /\ d.now = dispatcher[p].now
      BY DispatcherType, Fields
<1> HIDE DEF d
<1>3. /\ dispatcher'[p] = d
      /\ \A q \in Dispatchers : q # p => dispatcher'[q] = dispatcher[q]
      BY <1>1, MovesOnly
<1> QED
    BY <1>2, <1>3

LEMMA PositionStep == TypeOK /\ Position /\ [Next]_vars => Position'
<1> SUFFICES ASSUME TypeOK, Position, [Next]_vars PROVE Position'
    OBVIOUS
<1>1. CASE UNCHANGED vars \/ Others
      BY <1>1 DEF Position, PositionAt, At, vars, Others, Tick, CreateSchedule,
                  DeleteSchedule, CreateRequest, LeadChanges
<1>2. ASSUME NEW p \in Dispatchers, BeginSchedules(p) PROVE Position'
      <2>1. PositionAt(p)'
            BY <1>2, BeginsSchedules DEF PositionAt, At
      <2> QED
          BY <1>2, <2>1, BeginsSchedules, PositionOf
<1>3. ASSUME NEW p \in Dispatchers, NEW o \in Occurrence, StartRun(p, o) PROVE Position'
      <2>1. o[1] \in Schedules
            BY DEF Occurrence
      <2>2. PositionAt(p)'
            BY <1>3, <2>1, StartsRun DEF StartRun, NextRun, Position, PositionAt, At
      <2> QED
          BY <1>3, <2>2, StartsRun, PositionOf
<1>4. ASSUME NEW p \in Dispatchers, NEW turn, Rests(p, turn) PROVE Position'
      <2>1. PositionAt(p)'
            BY <1>4, RestsOnly DEF PositionAt, At
      <2> QED
          BY <1>4, <2>1, RestsOnly, PositionOf
<1>5. ASSUME NEW p \in Dispatchers, RecordRun(p) PROVE Position'
      <2>1. PositionAt(p)'
            BY <1>5, RecordsRun DEF RecordRun, Position, PositionAt, At
      <2> QED
          BY <1>5, <2>1, RecordsRun, PositionOf
<1>6. ASSUME NEW p \in Dispatchers, BeginRequests(p) PROVE Position'
      <2>1. PositionAt(p)'
            BY <1>6, BeginsRequests DEF PositionAt, At
      <2> QED
          BY <1>6, <2>1, BeginsRequests, PositionOf
<1>7. ASSUME NEW p \in Dispatchers, NEW r \in Requests,
             StartRequest(p, r) \/ StartRequestFails(p, r) \/ StartRequestHalf(p, r)
      PROVE  Position'
      <2>1. PICK pc \in {"recordSuccess", "recordFailure"} : Handles(p, r, pc)
            BY <1>7 DEF StartRequest, StartRequestFails, StartRequestHalf
      <2>2. At(p, "requests")
            BY <1>7 DEF StartRequest, StartRequestFails, StartRequestHalf, NextRequest
      <2>3. PositionAt(p)'
            BY <2>1, <2>2, HandlesRequest DEF Position, PositionAt, At
      <2> QED
          BY <2>1, <2>3, HandlesRequest, PositionOf
<1>8. ASSUME NEW p \in Dispatchers, NEW r \in Requests, DeferRequest(p, r) PROVE Position'
      <2>1. PositionAt(p)'
            BY <1>8, Defers DEF DeferRequest, NextRequest, Position, PositionAt, At
      <2> QED
          BY <1>8, <2>1, Defers, PositionOf
<1>9. ASSUME NEW p \in Dispatchers, RecordSuccess(p) \/ RecordFailure(p) PROVE Position'
      <2>1. PICK status : Records(p, status)
            BY <1>9 DEF RecordSuccess, RecordFailure
      <2>2. PositionAt(p)'
            BY <1>9, <2>1, RecordsRequest
            DEF RecordSuccess, RecordFailure, Position, PositionAt, At
      <2> QED
          BY <2>1, <2>2, RecordsRequest, PositionOf
<1>10. ASSUME NEW p \in Dispatchers, NEW o \in Occurrence, StartRunFails(p, o)
       PROVE  Position'
       BY <1>4, <1>10 DEF StartRunFails
<1>11. ASSUME NEW p \in Dispatchers,
              NoNextRun(p) \/ EndSchedules(p) \/ EndRequests(p) \/ Dies(p)
       PROVE  Position'
       BY <1>4, <1>11 DEF NoNextRun, EndSchedules, EndRequests, Dies
<1> QED
    BY <1>1, <1>2, <1>3, <1>5, <1>6, <1>7, <1>8, <1>9, <1>10, <1>11
    DEF Next, Step, ScheduleStep, RequestStep

(* Every variable keeps its type, whatever the dispatchers do and wherever *)
(* they die.                                                               *)
THEOREM DispatchTypeCorrect == Spec => []TypeOK
<1>1. Init => TypeOK /\ Position
      BY TypeInit, PositionInit
<1>2. TypeOK /\ Position /\ [Next]_vars => (TypeOK /\ Position)'
      BY TypeStep, PositionStep
<1> QED
    BY <1>1, <1>2, PTL DEF Spec

-----------------------------------------------------------------------------
(* Schedules.  While nothing disturbs a schedule, at most one dispatcher   *)
(* holds it, for the time that stands in the row and no earlier than that  *)
(* time; and no session has been started for that time or a later one,     *)
(* except by a dispatcher that is about to record it, or one that had      *)
(* listed the schedule before it was deleted.                              *)

HeldOnce(s) ==
  \A p, q \in Dispatchers : HoldsSchedule(p, s) /\ HoldsSchedule(q, s) => p = q

HeldForNext(s) ==
  \A p \in Dispatchers :
    /\ HoldsSchedule(p, s) => schedule[s].row # "new"
    /\ \A o \in dispatcher[p].due : o[1] = s =>
         o[2] = schedule[s].next /\ o[2] <= dispatcher[p].now /\ dispatcher[p].run[1] # s
    /\ dispatcher[p].run[1] = s =>
         dispatcher[p].run[2] = schedule[s].next /\ dispatcher[p].run[2] <= dispatcher[p].now

RunsSoFar(s) ==
  /\ schedule[s].row = "new" => schedule[s].next = 0
  /\ \A t \in Times :
       /\ runs[<<s, t>>] \in {0, 1}
       /\ t > schedule[s].next => runs[<<s, t>>] = 0
       /\ t = schedule[s].next /\ runs[<<s, t>>] = 1 =>
            \/ \E p \in Dispatchers : dispatcher[p].run[1] = s
            \/ /\ schedule[s].row = "deleted"
               /\ \A p \in Dispatchers : ~HoldsSchedule(p, s)

ScheduleInv ==
  \A s \in Schedules : s \notin disturbed.schedules =>
    HeldOnce(s) /\ HeldForNext(s) /\ RunsSoFar(s)

LEMMA ScheduleInit == Init => ScheduleInv
<1> SUFFICES ASSUME Init, NEW s \in Schedules
             PROVE  HeldOnce(s) /\ HeldForNext(s) /\ RunsSoFar(s)
    BY DEF ScheduleInv
<1>1. \A p \in Dispatchers : dispatcher[p].run[1] = NoSchedule /\ dispatcher[p].due = {}
      BY DEF Init, Idle
<1>2. \A t \in Times : runs[<<s, t>>] = 0
      BY DEF Init, Occurrence
<1>3. s # NoSchedule /\ schedule[s].next = 0
      BY DispatchAssumption DEF DispatchAssumption, Init
<1> QED
    BY <1>1, <1>2, <1>3 DEF HeldOnce, HeldForNext, RunsSoFar, HoldsSchedule

(* A step that starts nothing and lets dispatchers only drop what they     *)
(* hold keeps the invariant of a schedule whose row it leaves alone.       *)
LEMMA Drops ==
  ASSUME TypeOK, NEW s \in Schedules,
         HeldOnce(s), HeldForNext(s), RunsSoFar(s),
         schedule'[s].next = schedule[s].next,
         \/ schedule'[s].row = schedule[s].row
         \/ schedule[s].row = "there" /\ schedule'[s].row = "deleted",
         \A t \in Times : runs'[<<s, t>>] = runs[<<s, t>>],
         \A p \in Dispatchers :
           /\ dispatcher'[p].run[1] = s <=> dispatcher[p].run[1] = s
           /\ dispatcher'[p].run[1] = s => dispatcher'[p].run[2] = dispatcher[p].run[2]
           /\ dispatcher'[p].due \subseteq dispatcher[p].due
           /\ \/ dispatcher'[p].now = dispatcher[p].now
              \/ dispatcher'[p].due = {} /\ dispatcher'[p].run[1] # s
  PROVE  (HeldOnce(s) /\ HeldForNext(s) /\ RunsSoFar(s))'
<1>1. \A p \in Dispatchers : HoldsSchedule(p, s)' => HoldsSchedule(p, s)
      BY DEF HoldsSchedule
<1>2. HeldOnce(s)'
      BY <1>1 DEF HeldOnce
<1>3. HeldForNext(s)'
      BY <1>1 DEF HeldForNext
<1>4. RunsSoFar(s)'
      BY <1>1 DEF RunsSoFar
<1> QED
    BY <1>2, <1>3, <1>4

(* A pass that stops while it records nothing for s.                       *)
LEMMA RestsKeeps ==
  ASSUME TypeOK, NEW s \in Schedules, HeldOnce(s), HeldForNext(s), RunsSoFar(s),
         NEW p \in Dispatchers, NEW turn, Rests(p, turn), dispatcher[p].run[1] # s,
         UNCHANGED <<schedule, runs>>
  PROVE  (HeldOnce(s) /\ HeldForNext(s) /\ RunsSoFar(s))'
<1>1. s # NoSchedule
      BY DispatchAssumption DEF DispatchAssumption
<1> QED
    BY <1>1, RestsOnly, Drops

(* What was disturbed stays disturbed.                                     *)
LEMMA DisturbedGrows ==
  TypeOK /\ [Next]_vars =>
    /\ disturbed.schedules \subseteq disturbed'.schedules
    /\ disturbed.requests \subseteq disturbed'.requests
<1> DEFINE Grows == /\ disturbed.schedules \subseteq disturbed'.schedules
                    /\ disturbed.requests \subseteq disturbed'.requests
<1> SUFFICES ASSUME TypeOK, [Next]_vars PROVE Grows
    OBVIOUS
<1>1. CASE UNCHANGED disturbed
      BY <1>1
<1>2. ASSUME NEW S, \/ disturbed' = [disturbed EXCEPT !.schedules = @ \cup S]
                    \/ disturbed' = [disturbed EXCEPT !.requests = @ \cup S]
      PROVE  Grows
      BY <1>2 DEF TypeOK
<1>3. ASSUME NEW p \in Dispatchers, BeginSchedules(p) PROVE Grows
      BY <1>2, <1>3 DEF BeginSchedules
<1>4. ASSUME NEW p \in Dispatchers, NoNextRun(p) PROVE Grows
      BY <1>2, <1>4 DEF NoNextRun
<1>5. ASSUME NEW p \in Dispatchers, BeginRequests(p) PROVE Grows
      BY <1>2, <1>5 DEF BeginRequests
<1>6. ASSUME NEW p \in Dispatchers, NEW r \in Requests, StartRequestHalf(p, r) PROVE Grows
      BY <1>2, <1>6 DEF StartRequestHalf
<1>7. ASSUME NEW p \in Dispatchers, Dies(p) PROVE Grows
      BY <1>7 DEF Dies
<1> HIDE DEF Grows
<1> QED
    BY <1>1, <1>3, <1>4, <1>5, <1>6, <1>7
    DEF Next, Others, Step, ScheduleStep, RequestStep, vars, Tick,
        CreateSchedule, DeleteSchedule, CreateRequest, LeadChanges,
        StartRun, StartRunFails, RecordRun, EndSchedules, StartRequest,
        StartRequestFails, DeferRequest, RecordSuccess, RecordFailure, Records, EndRequests

LEMMA ScheduleInvStep ==
  TypeOK /\ Position /\ ScheduleInv /\ [Next]_vars => ScheduleInv'
<1> SUFFICES ASSUME TypeOK, Position, ScheduleInv, [Next]_vars,
                    NEW s \in Schedules, s \notin disturbed'.schedules
             PROVE  (HeldOnce(s) /\ HeldForNext(s) /\ RunsSoFar(s))'
    BY DEF ScheduleInv
<1> DEFINE Goal == (HeldOnce(s) /\ HeldForNext(s) /\ RunsSoFar(s))'
<1>1. disturbed.schedules \subseteq disturbed'.schedules
      BY DisturbedGrows
<1>2. HeldOnce(s) /\ HeldForNext(s) /\ RunsSoFar(s)
      BY <1>1 DEF ScheduleInv
<1>3. s # NoSchedule
      BY DispatchAssumption DEF DispatchAssumption
<1>4. CASE UNCHANGED <<schedule, dispatcher, runs>>
      BY <1>2, <1>4, Drops
<1>5. ASSUME NEW x \in Schedules, CreateSchedule(x) PROVE Goal
      <2>1. PICK next \in Later(x, clock) :
              schedule' = [schedule EXCEPT ![x] = [row |-> "there", next |-> next]]
            BY <1>5 DEF CreateSchedule
      <2>2. CASE x # s
            <3>1. schedule'[s] = schedule[s]
                  BY <2>1, <2>2 DEF TypeOK
            <3> QED
                BY <1>2, <1>5, <3>1, Drops DEF CreateSchedule
      <2>3. CASE x = s
            <3>1. next \in Nat /\ next > clock /\ clock \in Nat
                  BY DispatchAssumption DEF Later, TypeOK, DispatchAssumption
            <3>2. schedule'[s].row = "there" /\ schedule'[s].next = next
                  BY <2>1, <2>3 DEF TypeOK
            <3>3. schedule[s].row = "new" /\ schedule[s].next = 0
                  BY <1>2, <1>5, <2>3 DEF CreateSchedule, RunsSoFar
            <3>4. \A p \in Dispatchers : ~HoldsSchedule(p, s)
                  BY <1>2, <3>3 DEF HeldForNext
            <3>5. \A p \in Dispatchers : ~HoldsSchedule(p, s)'
                  BY <1>5, <3>4 DEF CreateSchedule, HoldsSchedule
            <3>6. \A t \in Times : t \in Nat /\ (t >= next => runs[<<s, t>>] = 0)
                  BY <1>2, <3>1, <3>3, CronTimes DEF RunsSoFar
            <3>7. RunsSoFar(s)'
                  BY <1>2, <1>5, <3>2, <3>6, <3>1 DEF RunsSoFar, CreateSchedule
            <3> QED
                BY <3>5, <3>7 DEF HeldOnce, HeldForNext, HoldsSchedule
      <2> QED
          BY <2>2, <2>3
<1>6. ASSUME NEW x \in Schedules, DeleteSchedule(x) PROVE Goal
      <2>1. /\ schedule'[s].next = schedule[s].next
            /\ \/ schedule'[s].row = schedule[s].row
               \/ schedule[s].row = "there" /\ schedule'[s].row = "deleted"
            BY <1>6 DEF DeleteSchedule, TypeOK
      <2> QED
          BY <1>2, <1>6, <2>1, Drops DEF DeleteSchedule
<1>7. ASSUME NEW p \in Dispatchers, BeginSchedules(p) PROVE Goal
      <2>1. dispatcher[p].run[1] = NoSchedule
            BY <1>7 DEF BeginSchedules, MayBegin, Position, PositionAt, At
      <2>2. \A o \in DueNow(clock) : o[1] = s =>
              o[2] = schedule[s].next /\ o[2] <= clock /\ schedule[s].row = "there"
            BY Listed DEF Due
      <2>3. \A q \in Dispatchers : HoldsSchedule(q, s)' =>
              \/ q # p /\ HoldsSchedule(q, s)
              \/ q = p /\ \E o \in DueNow(clock) : o[1] = s
            BY <1>3, <1>7, BeginsSchedules DEF HoldsSchedule
      <2>4. (\E o \in DueNow(clock) : o[1] = s) =>
              \A q \in Dispatchers : q # p => ~HoldsSchedule(q, s)
            <3> DEFINE S == {x \in Schedules : /\ \E o \in DueNow(clock) : o[1] = x
                                             /\ \E q \in Dispatchers \ {p} : HoldsSchedule(q, x)}
            <3>1. disturbed'.schedules = disturbed.schedules \cup S
                  BY <1>7 DEF BeginSchedules, TypeOK
            <3> QED
                BY <3>1
      <2>5. HeldOnce(s)'
            BY <1>2, <2>3, <2>4 DEF HeldOnce
      <2>6. HeldForNext(s)'
            <3> SUFFICES ASSUME NEW q \in Dispatchers
                         PROVE  /\ HoldsSchedule(q, s)' => schedule[s].row # "new"
                                /\ \A o \in dispatcher'[q].due : o[1] = s =>
                                     /\ o[2] = schedule[s].next
                                     /\ o[2] <= dispatcher'[q].now
                                     /\ dispatcher'[q].run[1] # s
                                /\ dispatcher'[q].run[1] = s =>
                                     /\ dispatcher'[q].run[2] = schedule[s].next
                                     /\ dispatcher'[q].run[2] <= dispatcher'[q].now
                BY <1>7 DEF HeldForNext, BeginSchedules
            <3>1. CASE q = p
                  BY <1>3, <1>7, <2>2, <2>3, <3>1, BeginsSchedules
            <3>2. CASE q # p
                  BY <1>2, <1>7, <2>3, <3>2, BeginsSchedules DEF HeldForNext
            <3> QED
                BY <3>1, <3>2
      <2>7. RunsSoFar(s)'
            <3>1. \A q \in Dispatchers : dispatcher[q].run[1] = s => dispatcher'[q].run[1] = s
                  BY <1>3, <1>7, <2>1, BeginsSchedules
            <3>2. schedule[s].row = "deleted" /\ (\A q \in Dispatchers : ~HoldsSchedule(q, s))
                    => \A q \in Dispatchers : ~HoldsSchedule(q, s)'
                  BY <2>2, <2>3
            <3> QED
                BY <1>2, <1>7, <3>1, <3>2 DEF RunsSoFar, BeginSchedules
      <2> QED
          BY <2>5, <2>6, <2>7
<1>8. ASSUME NEW p \in Dispatchers, NEW o \in Occurrence, StartRun(p, o) PROVE Goal
      <2>1. dispatcher[p].run[1] = NoSchedule
            BY <1>8 DEF StartRun, NextRun, Position, PositionAt, At
      <2>2. CASE o[1] # s
            <3>1. \A t \in Times : runs'[<<s, t>>] = runs[<<s, t>>]
                  BY <1>8, <2>2 DEF StartRun, TypeOK, Occurrence
            <3>2. \A q \in Dispatchers :
                    /\ dispatcher'[q].run[1] = s <=> dispatcher[q].run[1] = s
                    /\ dispatcher'[q].run[1] = s => dispatcher'[q].run[2] = dispatcher[q].run[2]
                    /\ dispatcher'[q].due \subseteq dispatcher[q].due
                    /\ dispatcher'[q].now = dispatcher[q].now
                  BY <1>3, <1>8, <2>1, <2>2, StartsRun
            <3> QED
                BY <1>2, <1>8, <3>1, <3>2, Drops DEF StartRun
      <2>3. CASE o[1] = s
            <3>1. /\ o \in dispatcher[p].due /\ HoldsSchedule(p, s)
                  /\ o[2] = schedule[s].next /\ o[2] <= dispatcher[p].now
                  /\ o = <<s, schedule[s].next>> /\ schedule[s].next \in Times
                  BY <1>2, <1>8, <2>3
                  DEF StartRun, NextRun, HoldsSchedule, HeldForNext, Occurrence
            <3>2. \A q \in Dispatchers : q # p => ~HoldsSchedule(q, s)
                  BY <1>2, <3>1 DEF HeldOnce
            <3>3. \A q \in Dispatchers : dispatcher[q].run[1] # s
                  BY <1>3, <2>1, <3>2 DEF HoldsSchedule
            <3>4. runs[o] = 0
                  BY <1>2, <3>1, <3>3 DEF RunsSoFar
            <3>5. /\ runs'[<<s, schedule[s].next>>] = 1
                  /\ \A t \in Times : t # schedule[s].next => runs'[<<s, t>>] = runs[<<s, t>>]
                  BY <1>8, <3>1, <3>4 DEF StartRun, TypeOK, Occurrence, OneMore
            <3>6. \A q \in Dispatchers : q # p => ~HoldsSchedule(q, s)'
                  BY <1>8, <3>2, StartsRun DEF HoldsSchedule
            <3>7. \A u \in dispatcher'[p].due : u[1] # s
                  <4> SUFFICES ASSUME NEW u \in dispatcher[p].due, u # o, u[1] = s PROVE FALSE
                      BY <1>8, StartsRun
                  <4>1. u[2] = schedule[s].next /\ u \in Occurrence
                        BY <1>2 DEF HeldForNext, TypeOK, Dispatcher
                  <4> QED
                      BY <3>1, <4>1 DEF Occurrence
            <3>8. HeldOnce(s)'
                  BY <3>6 DEF HeldOnce
            <3>9. HeldForNext(s)'
                  <4>1. schedule[s].row # "new"
                        BY <1>2, <3>1 DEF HeldForNext
                  <4> SUFFICES ASSUME NEW q \in Dispatchers
                               PROVE  /\ \A u \in dispatcher'[q].due : u[1] # s \/ q # p
                                      /\ q # p => ~HoldsSchedule(q, s)'
                                      /\ dispatcher'[p].run[2] = schedule[s].next
                                      /\ dispatcher'[p].run[2] <= dispatcher'[p].now
                      BY <1>8, <4>1 DEF HeldForNext, HoldsSchedule, StartRun
                  <4> QED
                      BY <1>8, <3>1, <3>6, <3>7, StartsRun
            <3>10. dispatcher'[p].run[1] = s
                   BY <1>8, <2>3, StartsRun
            <3>11. RunsSoFar(s)'
                   <4>1. /\ schedule' = schedule
                         /\ \E q \in Dispatchers : dispatcher'[q].run[1] = s
                         BY <1>8, <3>10 DEF StartRun
                   <4>2. \A t \in Times : /\ runs'[<<s, t>>] \in {0, 1}
                                          /\ t > schedule[s].next => runs'[<<s, t>>] = 0
                         BY <1>2, <3>1, <3>5, CronTimes DEF RunsSoFar
                   <4> QED
                       BY <1>2, <4>1, <4>2 DEF RunsSoFar
            <3> QED
                BY <3>8, <3>9, <3>11
      <2> QED
          BY <2>2, <2>3
<1>9. ASSUME NEW p \in Dispatchers, NEW o \in Occurrence, StartRunFails(p, o) PROVE Goal
      <2>1. dispatcher[p].run[1] # s
            BY <1>3, <1>9 DEF StartRunFails, NextRun, Position, PositionAt, At
      <2> QED
          BY <1>2, <1>9, <2>1, RestsKeeps DEF StartRunFails
<1>10. ASSUME NEW p \in Dispatchers, RecordRun(p) PROVE Goal
      <2> DEFINE x == dispatcher[p].run[1]
      <2>1. PICK next \in Later(x, dispatcher[p].now) :
              schedule' = IF schedule[x].row = "there"
                          THEN [schedule EXCEPT ![x].next = next]
                          ELSE schedule
            BY <1>10 DEF RecordRun
      <2>2. x \in Schedules /\ dispatcher[p].now \in Nat /\ runs' = runs
            BY <1>10 DEF RecordRun, Position, PositionAt, TypeOK, Dispatcher
      <2>3. CASE x # s
            <3>1. schedule'[s] = schedule[s]
                  BY <2>1, <2>2, <2>3 DEF TypeOK
            <3> QED
                BY <1>2, <1>3, <1>10, <2>2, <2>3, <3>1, RecordsRun, Drops
      <2>4. CASE x = s
            <3>1. /\ HoldsSchedule(p, s) /\ schedule[s].row # "new"
                  /\ schedule[s].next <= dispatcher[p].now
                  /\ \A o \in dispatcher[p].due : o[1] # s
                  BY <1>2, <2>4 DEF HeldForNext, HoldsSchedule
            <3>2. \A q \in Dispatchers : ~HoldsSchedule(q, s)'
                  <4>1. \A q \in Dispatchers : q # p => ~HoldsSchedule(q, s)'
                        BY <1>2, <1>10, <3>1, RecordsRun DEF HeldOnce, HoldsSchedule
                  <4>2. ~HoldsSchedule(p, s)'
                        BY <1>3, <1>10, <3>1, RecordsRun DEF HoldsSchedule
                  <4> QED
                      BY <4>1, <4>2
            <3>3. HeldOnce(s)' /\ HeldForNext(s)'
                  BY <3>2 DEF HeldOnce, HeldForNext, HoldsSchedule
            <3>4. next \in Times /\ next > dispatcher[p].now
                  BY <2>2, CronTimes DEF Later
            <3>5. CASE schedule[s].row = "there"
                  <4>1. schedule'[s].row = "there" /\ schedule'[s].next = next
                        BY <2>1, <2>4, <3>5 DEF TypeOK
                  <4>2. \A t \in Times : t >= next => t > schedule[s].next
                        BY <2>2, <3>1, <3>4, CronTimes DEF TypeOK
                  <4>3. \A t \in Times : t >= next => runs[<<s, t>>] = 0
                        BY <1>2, <4>2 DEF RunsSoFar
                  <4> QED
                      BY <1>2, <2>2, <3>3, <3>4, <4>1, <4>3, CronTimes DEF RunsSoFar
            <3>6. CASE schedule[s].row = "deleted"
                  <4>1. schedule'[s] = schedule[s]
                        BY <2>1, <2>4, <3>6
                  <4> QED
                      BY <1>2, <2>2, <3>2, <3>3, <3>6, <4>1 DEF RunsSoFar
            <3> QED
                BY <3>1, <3>5, <3>6 DEF TypeOK
      <2> QED
          BY <2>3, <2>4
<1>11. ASSUME NEW p \in Dispatchers, NoNextRun(p) \/ Dies(p) PROVE Goal
      <2>1. dispatcher[p].run[1] # s
            BY <1>3, <1>11 DEF NoNextRun, Dies, TypeOK
      <2> QED
          BY <1>2, <1>11, <2>1, RestsKeeps DEF NoNextRun, Dies
<1>12. ASSUME NEW p \in Dispatchers, EndSchedules(p) \/ EndRequests(p) PROVE Goal
      <2>1. dispatcher[p].run[1] # s
            BY <1>3, <1>12 DEF EndSchedules, EndRequests, Position, PositionAt, At
      <2> QED
          BY <1>2, <1>12, <2>1, RestsKeeps DEF EndSchedules, EndRequests
<1>13. ASSUME NEW p \in Dispatchers, BeginRequests(p) PROVE Goal
      <2>1. dispatcher[p].run[1] # s
            BY <1>3, <1>13 DEF BeginRequests, MayBegin, Position, PositionAt, At
      <2> QED
          BY <1>2, <1>3, <1>13, <2>1, BeginsRequests, Drops DEF BeginRequests
<1>14. ASSUME NEW p \in Dispatchers, NEW r \in Requests,
              StartRequest(p, r) \/ StartRequestFails(p, r) \/ StartRequestHalf(p, r)
       PROVE  Goal
      <2>1. PICK pc : Handles(p, r, pc)
            BY <1>14 DEF StartRequest, StartRequestFails, StartRequestHalf
      <2> QED
          BY <1>2, <1>14, <2>1, HandlesRequest, Drops
          DEF StartRequest, StartRequestFails, StartRequestHalf
<1>15. ASSUME NEW p \in Dispatchers, NEW r \in Requests, DeferRequest(p, r) PROVE Goal
      BY <1>2, <1>15, Defers, Drops DEF DeferRequest
<1>16. ASSUME NEW p \in Dispatchers, RecordSuccess(p) \/ RecordFailure(p) PROVE Goal
      <2>1. PICK status : Records(p, status)
            BY <1>16 DEF RecordSuccess, RecordFailure
      <2> QED
          BY <1>2, <2>1, RecordsRequest, Drops DEF Records
<1> QED
    BY <1>4, <1>5, <1>6, <1>7, <1>8, <1>9, <1>10, <1>11, <1>12, <1>13, <1>14, <1>15, <1>16
    DEF Next, Others, Step, ScheduleStep, RequestStep, vars, Tick, CreateRequest, LeadChanges

DispatchInv == TypeOK /\ Position /\ ScheduleInv

LEMMA DispatchInvariant == Spec => []DispatchInv
<1>1. Init => DispatchInv
      BY TypeInit, PositionInit, ScheduleInit DEF DispatchInv
<1>2. DispatchInv /\ [Next]_vars => DispatchInv'
      BY TypeStep, PositionStep, ScheduleInvStep DEF DispatchInv
<1> QED
    BY <1>1, <1>2, PTL DEF Spec

(* No time of a schedule is run twice, except where a pass was cut short   *)
(* between the session and its record, or two passes held the schedule.    *)
THEOREM SchedulesRunOnce == Spec => []RunsOnce
<1>1. DispatchInv => RunsOnce
      <2> SUFFICES ASSUME DispatchInv, NEW o \in Occurrence, o[1] \notin disturbed.schedules
                   PROVE  ~(runs[o] > 1)
          BY DEF RunsOnce
      <2>1. o[1] \in Schedules /\ o[2] \in Times /\ o = <<o[1], o[2]>>
            BY DEF Occurrence
      <2>2. runs[<<o[1], o[2]>>] \in {0, 1}
            BY <2>1 DEF DispatchInv, ScheduleInv, RunsSoFar
      <2> QED
          BY <2>1, <2>2
<1> QED
    BY <1>1, DispatchInvariant, PTL

(* The next run of a schedule only moves on, whatever the age of the pass  *)
(* that records it.                                                        *)
THEOREM NextRunsAdvance == Spec => NextRunAdvances
<1>1. ASSUME DispatchInv, [Next]_vars, NEW s \in Schedules, s \notin disturbed.schedules
      PROVE  ~(schedule'[s].next < schedule[s].next)
      <2> DEFINE Goal == ~(schedule'[s].next < schedule[s].next)
      <2>1. HeldForNext(s) /\ RunsSoFar(s) /\ schedule[s].next \in Nat
            BY <1>1, CronTimes DEF DispatchInv, ScheduleInv, TypeOK
      <2>2. CASE schedule'[s].next = schedule[s].next
            BY <2>1, <2>2
      <2>3. ASSUME NEW x \in Schedules, CreateSchedule(x) PROVE Goal
            <3>1. CASE x = s
                  <4>1. schedule[s].next = 0 /\ clock \in Nat
                        BY <1>1, <2>1, <2>3, <3>1, DispatchAssumption
                        DEF CreateSchedule, RunsSoFar, DispatchInv, TypeOK, DispatchAssumption
                  <4>2. schedule'[s].next \in Nat
                        BY <1>1, CronTimes, TypeStep DEF DispatchInv, TypeOK
                  <4> QED
                      BY <4>1, <4>2
            <3>2. CASE x # s
                  BY <1>1, <2>2, <2>3, <3>2 DEF CreateSchedule, DispatchInv, TypeOK
            <3> QED
                BY <3>1, <3>2
      <2>4. ASSUME NEW x \in Schedules, DeleteSchedule(x) PROVE Goal
            BY <1>1, <2>2, <2>4 DEF DeleteSchedule, DispatchInv, TypeOK
      <2>5. ASSUME NEW p \in Dispatchers, RecordRun(p) PROVE Goal
            <3> DEFINE x == dispatcher[p].run[1]
            <3>1. PICK next \in Later(x, dispatcher[p].now) :
                    schedule' = IF schedule[x].row = "there"
                                THEN [schedule EXCEPT ![x].next = next]
                                ELSE schedule
                  BY <2>5 DEF RecordRun
            <3>2. x \in Schedules /\ dispatcher[p].now \in Nat
                  BY <1>1, <2>5
                  DEF RecordRun, DispatchInv, Position, PositionAt, TypeOK, Dispatcher
            <3>3. next \in Nat /\ next > dispatcher[p].now
                  BY <3>2, CronTimes DEF Later
            <3>4. x = s => schedule[s].next <= dispatcher[p].now
                  BY <2>1 DEF HeldForNext
            <3>5. schedule'[s].next = schedule[s].next \/ (x = s /\ schedule'[s].next = next)
                  BY <1>1, <3>1, <3>2 DEF DispatchInv, TypeOK
            <3> QED
                BY <2>1, <3>2, <3>3, <3>4, <3>5
      <2> HIDE DEF Goal
      <2> QED
          BY <1>1, <2>2, <2>3, <2>4, <2>5
          DEF Goal, Next, Others, Step, ScheduleStep, RequestStep, vars, Tick, CreateRequest,
              LeadChanges, BeginSchedules, StartRun, StartRunFails, NoNextRun, EndSchedules,
              BeginRequests, StartRequest, StartRequestFails, StartRequestHalf, DeferRequest,
              RecordSuccess, RecordFailure, Records, EndRequests, Dies
<1>2. DispatchInv /\ [Next]_vars =>
        [\A s \in Schedules :
           schedule'[s].next < schedule[s].next => s \in disturbed.schedules]_vars
      BY <1>1
<1> QED
    BY <1>2, DispatchInvariant, PTL DEF Spec, NextRunAdvances

-----------------------------------------------------------------------------
(* Requests.  While nothing disturbs a request, at most one dispatcher     *)
(* holds it, it is pending while it is held, and its status and the place  *)
(* of its dispatcher say how many sessions have been started for it.       *)

RequestHeldOnce(r) ==
  \A p, q \in Dispatchers : HoldsRequest(p, r) /\ HoldsRequest(q, r) => p = q

HeldWhilePending(r) ==
  \A p \in Dispatchers :
    /\ HoldsRequest(p, r) => request[r].status = "pending"
    /\ r \in dispatcher[p].pending => dispatcher[p].serving # r

Recording(p, r) == dispatcher[p].pc = "recordSuccess" /\ dispatcher[p].serving = r

StartsSoFar(r) ==
  /\ request[r].status \in {"new", "failed"} => starts[r] = 0
  /\ request[r].status = "dispatched" => starts[r] = 1
  /\ request[r].status = "pending" =>
       \/ starts[r] = 0 /\ \A p \in Dispatchers : ~Recording(p, r)
       \/ starts[r] = 1 /\ \E p \in Dispatchers : Recording(p, r)

RequestInv ==
  \A r \in Requests : r \notin disturbed.requests =>
    RequestHeldOnce(r) /\ HeldWhilePending(r) /\ StartsSoFar(r)

LEMMA RequestInit == Init => RequestInv
<1> SUFFICES ASSUME Init, NEW r \in Requests
             PROVE  RequestHeldOnce(r) /\ HeldWhilePending(r) /\ StartsSoFar(r)
    BY DEF RequestInv
<1>1. \A p \in Dispatchers :
        dispatcher[p].serving = NoRequest /\ dispatcher[p].pending = {}
      BY DEF Init, Idle
<1>2. starts[r] = 0 /\ request[r].status = "new" /\ r # NoRequest
      BY DispatchAssumption DEF Init, DispatchAssumption
<1> QED
    BY <1>1, <1>2 DEF RequestHeldOnce, HeldWhilePending, StartsSoFar, HoldsRequest

(* A step that starts nothing and lets dispatchers only drop what they     *)
(* hold keeps the invariant of a request whose status it leaves alone.     *)
LEMMA DropsRequest ==
  ASSUME NEW r \in Requests,
         RequestHeldOnce(r), HeldWhilePending(r), StartsSoFar(r),
         request'[r].status = request[r].status, starts'[r] = starts[r],
         \A p \in Dispatchers :
           /\ dispatcher'[p].serving = r <=> dispatcher[p].serving = r
           /\ dispatcher[p].serving = r => dispatcher'[p].pc = dispatcher[p].pc
           /\ dispatcher'[p].pending \subseteq dispatcher[p].pending
  PROVE  (RequestHeldOnce(r) /\ HeldWhilePending(r) /\ StartsSoFar(r))'
<1>1. \A p \in Dispatchers : HoldsRequest(p, r)' => HoldsRequest(p, r)
      BY DEF HoldsRequest
<1>2. \A p \in Dispatchers : Recording(p, r)' <=> Recording(p, r)
      BY DEF Recording
<1>3. RequestHeldOnce(r)'
      BY <1>1 DEF RequestHeldOnce
<1>4. HeldWhilePending(r)'
      BY <1>1 DEF HeldWhilePending
<1>5. StartsSoFar(r)'
      BY <1>2 DEF StartsSoFar
<1> QED
    BY <1>3, <1>4, <1>5

LEMMA RestsKeepsRequest ==
  ASSUME TypeOK, NEW r \in Requests,
         RequestHeldOnce(r), HeldWhilePending(r), StartsSoFar(r),
         NEW p \in Dispatchers, NEW turn, Rests(p, turn), dispatcher[p].serving # r,
         UNCHANGED <<request, starts>>
  PROVE  (RequestHeldOnce(r) /\ HeldWhilePending(r) /\ StartsSoFar(r))'
<1>1. r # NoRequest
      BY DispatchAssumption DEF DispatchAssumption
<1>2. \A q \in Dispatchers :
        /\ dispatcher'[q].serving = r <=> dispatcher[q].serving = r
        /\ dispatcher[q].serving = r => dispatcher'[q].pc = dispatcher[q].pc
        /\ dispatcher'[q].pending \subseteq dispatcher[q].pending
      BY <1>1, RestsOnly
<1> QED
    BY <1>2, DropsRequest

LEMMA RequestInvStep ==
  TypeOK /\ Position /\ RequestInv /\ [Next]_vars => RequestInv'
<1> SUFFICES ASSUME TypeOK, Position, RequestInv, [Next]_vars,
                    NEW r \in Requests, r \notin disturbed'.requests
             PROVE  (RequestHeldOnce(r) /\ HeldWhilePending(r) /\ StartsSoFar(r))'
    BY DEF RequestInv
<1> DEFINE Goal == (RequestHeldOnce(r) /\ HeldWhilePending(r) /\ StartsSoFar(r))'
<1>1. RequestHeldOnce(r) /\ HeldWhilePending(r) /\ StartsSoFar(r)
      BY DisturbedGrows DEF RequestInv
<1>2. r # NoRequest
      BY DispatchAssumption DEF DispatchAssumption
<1>3. CASE UNCHANGED <<request, dispatcher, starts>>
      BY <1>1, <1>3, DropsRequest
<1>4. ASSUME NEW x \in Requests, NEW t \in Leads \cup {NoLead}, NEW u \in BOOLEAN,
             CreateRequest(x, t, u)
      PROVE  Goal
      <2>1. CASE x # r
            <3>1. request'[r] = request[r]
                  BY <1>4, <2>1 DEF CreateRequest, TypeOK
            <3> QED
                BY <1>1, <1>4, <3>1, DropsRequest DEF CreateRequest
      <2>2. CASE x = r
            <3>1. request[r].status = "new" /\ request'[r].status = "pending"
                  BY <1>4, <2>2 DEF CreateRequest, TypeOK
            <3>2. \A p \in Dispatchers : ~HoldsRequest(p, r)
                  BY <1>1, <3>1 DEF HeldWhilePending
            <3>3. starts[r] = 0 /\ UNCHANGED <<starts, dispatcher>>
                  BY <1>1, <1>4, <3>1 DEF StartsSoFar, CreateRequest
            <3> QED
                BY <3>1, <3>2, <3>3
                DEF RequestHeldOnce, HeldWhilePending, StartsSoFar, HoldsRequest, Recording
      <2> QED
          BY <2>1, <2>2
<1>5. ASSUME NEW p \in Dispatchers, BeginSchedules(p) PROVE Goal
      <2>1. dispatcher[p].serving # r
            BY <1>2, <1>5 DEF BeginSchedules, MayBegin, Position, PositionAt, At
      <2>2. \A q \in Dispatchers :
              /\ dispatcher'[q].serving = r <=> dispatcher[q].serving = r
              /\ dispatcher[q].serving = r => dispatcher'[q].pc = dispatcher[q].pc
              /\ dispatcher'[q].pending \subseteq dispatcher[q].pending
            BY <1>2, <1>5, <2>1, BeginsSchedules
      <2> QED
          BY <1>1, <1>5, <2>2, DropsRequest DEF BeginSchedules
<1>6. ASSUME NEW p \in Dispatchers, NEW o \in Occurrence, StartRun(p, o) PROVE Goal
      <2>1. dispatcher[p].serving # r
            BY <1>2, <1>6 DEF StartRun, NextRun, Position, PositionAt, At
      <2>2. \A q \in Dispatchers :
              /\ dispatcher'[q].serving = r <=> dispatcher[q].serving = r
              /\ dispatcher[q].serving = r => dispatcher'[q].pc = dispatcher[q].pc
              /\ dispatcher'[q].pending \subseteq dispatcher[q].pending
            BY <1>6, <2>1, StartsRun
      <2> QED
          BY <1>1, <1>6, <2>2, DropsRequest DEF StartRun
<1>7. ASSUME NEW p \in Dispatchers, RecordRun(p) PROVE Goal
      <2>1. dispatcher[p].serving # r
            BY <1>2, <1>7 DEF RecordRun, Position, PositionAt, At
      <2>2. \A q \in Dispatchers :
              /\ dispatcher'[q].serving = r <=> dispatcher[q].serving = r
              /\ dispatcher[q].serving = r => dispatcher'[q].pc = dispatcher[q].pc
              /\ dispatcher'[q].pending \subseteq dispatcher[q].pending
            BY <1>7, <2>1, RecordsRun
      <2> QED
          BY <1>1, <1>7, <2>2, DropsRequest DEF RecordRun
<1>8. ASSUME NEW p \in Dispatchers, NEW o \in Occurrence, StartRunFails(p, o) PROVE Goal
      <2>1. dispatcher[p].serving # r
            BY <1>2, <1>8 DEF StartRunFails, NextRun, Position, PositionAt, At
      <2> QED
          BY <1>1, <1>8, <2>1, RestsKeepsRequest DEF StartRunFails
<1>9. ASSUME NEW p \in Dispatchers, NoNextRun(p) \/ EndSchedules(p) \/ EndRequests(p)
      PROVE  Goal
      <2>1. dispatcher[p].serving # r
            BY <1>2, <1>9 DEF NoNextRun, EndSchedules, EndRequests, Position, PositionAt, At
      <2> QED
          BY <1>1, <1>9, <2>1, RestsKeepsRequest DEF NoNextRun, EndSchedules, EndRequests
<1>10. ASSUME NEW p \in Dispatchers, Dies(p) PROVE Goal
      <2>1. dispatcher[p].serving # r
            BY <1>2, <1>10 DEF Dies, TypeOK
      <2> QED
          BY <1>1, <1>10, <2>1, RestsKeepsRequest DEF Dies
<1>11. ASSUME NEW p \in Dispatchers, BeginRequests(p) PROVE Goal
      <2>1. dispatcher[p].serving # r
            BY <1>2, <1>11 DEF BeginRequests, MayBegin, Position, PositionAt, At
      <2>2. CASE r \notin PendingNow
            <3>1. \A q \in Dispatchers :
                    /\ dispatcher'[q].serving = r <=> dispatcher[q].serving = r
                    /\ dispatcher[q].serving = r => dispatcher'[q].pc = dispatcher[q].pc
                    /\ HoldsRequest(q, r)' => HoldsRequest(q, r)
                    /\ r \in dispatcher'[q].pending => r \in dispatcher[q].pending
                  BY <1>2, <1>11, <2>1, <2>2, BeginsRequests DEF HoldsRequest
            <3>2. request' = request /\ starts' = starts
                  BY <1>11 DEF BeginRequests
            <3> QED
                BY <1>1, <3>1, <3>2
                DEF RequestHeldOnce, HeldWhilePending, StartsSoFar, Recording
      <2>3. CASE r \in PendingNow
            <3>1. request[r].status = "pending"
                  BY <2>3, Listed
            <3>2. \A q \in Dispatchers : q # p => ~HoldsRequest(q, r)
                  <4> DEFINE S == {x \in PendingNow :
                                     \E q \in Dispatchers \ {p} : HoldsRequest(q, x)}
                  <4>1. disturbed'.requests = disturbed.requests \cup S
                        BY <1>11 DEF BeginRequests, TypeOK
                  <4> QED
                      BY <2>3, <4>1
            <3>3. \A q \in Dispatchers :
                    /\ dispatcher[q].serving # r /\ dispatcher'[q].serving # r
                    /\ q # p => ~HoldsRequest(q, r)'
                  BY <1>2, <1>11, <2>1, <3>2, BeginsRequests DEF HoldsRequest
            <3>4. request' = request /\ starts' = starts /\ starts[r] = 0
                  BY <1>1, <1>11, <3>1, <3>3 DEF BeginRequests, StartsSoFar, Recording
            <3> QED
                BY <3>1, <3>3, <3>4
                DEF RequestHeldOnce, HeldWhilePending, StartsSoFar, Recording
      <2> QED
          BY <2>2, <2>3
<1>12. ASSUME NEW p \in Dispatchers, NEW x \in Requests,
              StartRequest(p, x) \/ StartRequestFails(p, x) \/ StartRequestHalf(p, x)
       PROVE  Goal
      <2>1. PICK pc \in {"recordSuccess", "recordFailure"} : Handles(p, x, pc)
            BY <1>12 DEF StartRequest, StartRequestFails, StartRequestHalf
      <2>2. /\ At(p, "requests") /\ x \in dispatcher[p].pending /\ request' = request
            /\ dispatcher[p].serving = NoRequest
            BY <1>12 DEF StartRequest, StartRequestFails, StartRequestHalf, NextRequest,
                         Position, PositionAt, At
      <2>3. CASE x # r
            <3>1. starts'[r] = starts[r]
                  BY <1>12, <2>3 DEF StartRequest, StartRequestFails, StartRequestHalf, TypeOK
            <3>2. \A q \in Dispatchers :
                    /\ dispatcher'[q].serving = r <=> dispatcher[q].serving = r
                    /\ dispatcher[q].serving = r => dispatcher'[q].pc = dispatcher[q].pc
                    /\ dispatcher'[q].pending \subseteq dispatcher[q].pending
                  BY <1>2, <2>1, <2>2, <2>3, HandlesRequest
            <3> QED
                BY <1>1, <2>2, <3>1, <3>2, DropsRequest
      <2>4. CASE x = r
            <3>1. HoldsRequest(p, r) /\ request[r].status = "pending"
                  BY <1>1, <2>2, <2>4 DEF HoldsRequest, HeldWhilePending
            <3>2. \A q \in Dispatchers : q # p => ~HoldsRequest(q, r)
                  BY <1>1, <3>1 DEF RequestHeldOnce
            <3>3. \A q \in Dispatchers : q # p => ~HoldsRequest(q, r)'
                  BY <2>1, <3>2, HandlesRequest DEF HoldsRequest
            <3>4. starts[r] = 0
                  BY <1>1, <1>2, <2>2, <3>1, <3>2 DEF StartsSoFar, Recording, HoldsRequest
            <3>5. RequestHeldOnce(r)' /\ HeldWhilePending(r)'
                  BY <2>1, <2>2, <2>4, <3>1, <3>3, HandlesRequest
                  DEF RequestHeldOnce, HeldWhilePending, HoldsRequest
            <3>6. CASE StartRequest(p, r)
                  <4>1. starts'[r] = 1 /\ Handles(p, r, "recordSuccess")
                        BY <3>4, <3>6 DEF StartRequest, TypeOK, OneMore
                  <4>2. Recording(p, r)'
                        BY <4>1, HandlesRequest DEF Recording
                  <4> QED
                      BY <2>2, <3>1, <3>5, <4>1, <4>2 DEF StartsSoFar
            <3>7. CASE StartRequestFails(p, r)
                  <4>1. starts'[r] = 0 /\ Handles(p, r, "recordFailure")
                        BY <3>4, <3>7 DEF StartRequestFails
                  <4>2. \A q \in Dispatchers : ~Recording(q, r)'
                        BY <3>3, <4>1, HandlesRequest DEF Recording, HoldsRequest
                  <4> QED
                      BY <2>2, <3>1, <3>5, <4>1, <4>2 DEF StartsSoFar
            <3>8. CASE StartRequestHalf(p, r)
                  BY <3>8 DEF StartRequestHalf, TypeOK
            <3> QED
                BY <1>12, <2>4, <3>6, <3>7, <3>8
      <2> QED
          BY <2>3, <2>4
<1>13. ASSUME NEW p \in Dispatchers, NEW x \in Requests, DeferRequest(p, x) PROVE Goal
      <2>1. \A q \in Dispatchers :
              /\ dispatcher'[q].serving = r <=> dispatcher[q].serving = r
              /\ dispatcher[q].serving = r => dispatcher'[q].pc = dispatcher[q].pc
              /\ dispatcher'[q].pending \subseteq dispatcher[q].pending
            BY <1>13, Defers
      <2> QED
          BY <1>1, <1>13, <2>1, DropsRequest DEF DeferRequest
<1>14. ASSUME NEW p \in Dispatchers, NEW status \in {"dispatched", "failed"},
              Records(p, status),
              At(p, IF status = "dispatched" THEN "recordSuccess" ELSE "recordFailure")
       PROVE  Goal
      <2> DEFINE x == dispatcher[p].serving
      <2>1. x \in Requests /\ starts' = starts
            BY <1>14 DEF Records, Position, PositionAt, At
      <2>2. CASE x # r
            <3>1. request'[r] = request[r]
                  BY <1>14, <2>1, <2>2 DEF Records, TypeOK
            <3>2. \A q \in Dispatchers :
                    /\ dispatcher'[q].serving = r <=> dispatcher[q].serving = r
                    /\ dispatcher[q].serving = r => dispatcher'[q].pc = dispatcher[q].pc
                    /\ dispatcher'[q].pending \subseteq dispatcher[q].pending
                  BY <1>2, <1>14, <2>2, RecordsRequest
            <3> QED
                BY <1>1, <2>1, <3>1, <3>2, DropsRequest
      <2>3. CASE x = r
            <3>1. request'[r].status = status
                  BY <1>14, <2>3 DEF Records, TypeOK
            <3>2. HoldsRequest(p, r) /\ request[r].status = "pending"
                  BY <1>1, <2>3 DEF HoldsRequest, HeldWhilePending
            <3>3. \A q \in Dispatchers : q # p => ~HoldsRequest(q, r)
                  BY <1>1, <3>2 DEF RequestHeldOnce
            <3>4. \A q \in Dispatchers : ~HoldsRequest(q, r)'
                  <4>1. \A q \in Dispatchers : q # p => ~HoldsRequest(q, r)'
                        BY <1>14, <3>3, RecordsRequest DEF HoldsRequest
                  <4>2. ~HoldsRequest(p, r)'
                        BY <1>1, <1>2, <1>14, <2>3, RecordsRequest
                        DEF HoldsRequest, HeldWhilePending
                  <4> QED
                      BY <4>1, <4>2
            <3>5. status = "dispatched" => starts[r] = 1
                  BY <1>1, <1>14, <2>3, <3>2 DEF StartsSoFar, Recording, At
            <3>6. status = "failed" => starts[r] = 0
                  <4>1. status = "failed" => \A q \in Dispatchers : ~Recording(q, r)
                        BY <1>14, <3>3 DEF Recording, At, HoldsRequest
                  <4> QED
                      BY <1>1, <3>2, <4>1 DEF StartsSoFar
            <3> QED
                BY <2>1, <3>1, <3>4, <3>5, <3>6
                DEF RequestHeldOnce, HeldWhilePending, StartsSoFar, HoldsRequest
      <2> QED
          BY <2>2, <2>3
<1>15. ASSUME NEW p \in Dispatchers, RecordSuccess(p) \/ RecordFailure(p) PROVE Goal
       BY <1>14, <1>15 DEF RecordSuccess, RecordFailure
<1> QED
    BY <1>3, <1>4, <1>5, <1>6, <1>7, <1>8, <1>9, <1>10, <1>11, <1>12, <1>13, <1>15
    DEF Next, Others, Step, ScheduleStep, RequestStep, vars, Tick, CreateSchedule,
        DeleteSchedule, LeadChanges

(* The status of a request says what became of it, for any number of       *)
(* dispatchers, wherever they die.                                         *)
THEOREM RequestStatusHonest == Spec => []StatusIsHonest
<1>1. Init => TypeOK /\ Position /\ RequestInv
      BY TypeInit, PositionInit, RequestInit
<1>2. TypeOK /\ Position /\ RequestInv /\ [Next]_vars => (TypeOK /\ Position /\ RequestInv)'
      BY TypeStep, PositionStep, RequestInvStep
<1>3. TypeOK /\ RequestInv => StatusIsHonest
      <2> SUFFICES ASSUME TypeOK, RequestInv, NEW r \in Requests \ disturbed.requests
                   PROVE  /\ request[r].status = "dispatched" => starts[r] = 1
                          /\ request[r].status = "failed" => starts[r] = 0
                          /\ request[r].status = "pending" /\ starts[r] > 0 =>
                               \E p \in Dispatchers :
                                 At(p, "recordSuccess") /\ dispatcher[p].serving = r
          BY DEF StatusIsHonest
      <2> QED
          BY DEF RequestInv, StartsSoFar, Recording, At
<1> QED
    BY <1>1, <1>2, <1>3, PTL DEF Spec

-----------------------------------------------------------------------------
(* The dispatchers implement RequestService.                               *)

Phased == [r \in Requests |-> Phase(r)]

(* What the invariant leaves of the phases.                                *)
LEMMA PhaseIs ==
  ASSUME RequestInv, NEW r \in Requests, r \notin disturbed.requests, TypeOK
  PROVE  /\ request[r].status = "new" => Phase(r) = "unmade"
         /\ request[r].status = "pending" =>
              Phase(r) = IF starts[r] = 0 THEN "open" ELSE "started"
         /\ request[r].status = "dispatched" => Phase(r) = "done"
         /\ request[r].status = "failed" => Phase(r) = "refused"
<1>1. StartsSoFar(r)
      BY DEF RequestInv
<1> QED
    BY <1>1 DEF StartsSoFar, Phase

LEMMA PhaseStays ==
  ASSUME NEW r \in Requests, request'[r].status = request[r].status, starts'[r] = starts[r],
         r \in disturbed'.requests <=> r \in disturbed.requests
  PROVE  Phase(r)' = Phase(r)
BY DEF Phase

LEMMA OneComes ==
  ASSUME NEW r \in Requests, NEW from, NEW to, Phase(r) = from, Phase(r)' = to,
         \A q \in Requests : q # r => Phase(q)' = Phase(q)
  PROVE  Service!Comes(r, from, to)
<1>1. Phased' = [Phased EXCEPT ![r] = to]
      BY DEF Phased
<1> QED
    BY <1>1 DEF Phased, Service!Comes

(* A step that only disturbs requests, pending ones, loses them.           *)
LEMMA LosesSome ==
  ASSUME TypeOK, RequestInv, UNCHANGED <<request, starts>>,
         disturbed.requests \subseteq disturbed'.requests,
         disturbed'.requests \subseteq Requests,
         \A r \in disturbed'.requests \ disturbed.requests : request[r].status = "pending"
  PROVE  Service!Next
<1> DEFINE R == disturbed'.requests \ disturbed.requests
<1>1. \A r \in R : Phase(r) \in {"open", "started"} /\ Phase(r)' = "lost"
      <2> SUFFICES ASSUME NEW r \in R
                   PROVE  Phase(r) \in {"open", "started"} /\ Phase(r)' = "lost"
          OBVIOUS
      <2>1. Phase(r) = IF starts[r] = 0 THEN "open" ELSE "started"
            BY PhaseIs
      <2> QED
          BY <2>1 DEF Phase
<1>2. \A r \in Requests \ R : Phase(r)' = Phase(r)
      BY PhaseStays
<1>3. Service!Lose(R)
      BY <1>1, <1>2 DEF Service!Lose
<1> QED
    BY <1>3 DEF Service!Next

LEMMA ServiceStep ==
  TypeOK /\ Position /\ RequestInv /\ TypeOK' /\ RequestInv' /\ [Next]_vars
    => [Service!Next]_Phased
<1> SUFFICES ASSUME TypeOK, Position, RequestInv, TypeOK', RequestInv', [Next]_vars
             PROVE  Service!Next \/ Phased' = Phased
    BY DEF Phased
<1> DEFINE Goal == Service!Next \/ Phased' = Phased
<1>1. CASE UNCHANGED <<request, starts>> /\ disturbed'.requests = disturbed.requests
      BY <1>1, PhaseStays DEF Phased
<1>2. ASSUME NEW x \in Requests, NEW t \in Leads \cup {NoLead}, NEW u \in BOOLEAN,
             CreateRequest(x, t, u)
      PROVE  Goal
      <2>1. /\ \A q \in Requests : q # x => request'[q] = request[q]
            /\ request[x].status = "new" /\ request'[x].status = "pending"
            /\ starts' = starts /\ disturbed' = disturbed
            BY <1>2 DEF CreateRequest, TypeOK
      <2>2. \A q \in Requests : q # x => Phase(q)' = Phase(q)
            BY <2>1, PhaseStays
      <2>3. CASE x \in disturbed.requests
            BY <2>1, <2>2, <2>3 DEF Phased, Phase
      <2>4. CASE x \notin disturbed.requests
            <3>1. starts[x] = 0
                  BY <2>1, <2>4 DEF RequestInv, StartsSoFar
            <3>2. Phase(x) = "unmade" /\ Phase(x)' = "open"
                  BY <2>1, <2>4, <3>1 DEF Phase
            <3> QED
                BY <2>2, <3>2, OneComes DEF Service!Next, Service!Make
      <2> QED
          BY <2>3, <2>4
<1>3. ASSUME NEW p \in Dispatchers, NEW x \in Requests, StartRequest(p, x) PROVE Goal
      <2>1. /\ \A q \in Requests : q # x => starts'[q] = starts[q]
            /\ starts'[x] = OneMore(starts[x]) /\ starts[x] \in Count
            /\ request' = request /\ disturbed' = disturbed
            BY <1>3 DEF StartRequest, TypeOK
      <2>2. \A q \in Requests : q # x => Phase(q)' = Phase(q)
            BY <2>1, PhaseStays
      <2>3. CASE x \in disturbed.requests
            BY <2>1, <2>2, <2>3 DEF Phased, Phase
      <2>4. CASE x \notin disturbed.requests
            <3>1. request[x].status = "pending"
                  BY <1>3, <2>4 DEF StartRequest, NextRequest, RequestInv, HeldWhilePending,
                                    HoldsRequest
            <3>2. starts'[x] \in {0, 1}
                  BY <2>1, <2>4, <3>1 DEF RequestInv, StartsSoFar
            <3>3. starts[x] = 0 /\ starts'[x] = 1
                  BY <2>1, <3>2 DEF OneMore, Count
            <3>4. Phase(x) = "open" /\ Phase(x)' = "started"
                  BY <2>1, <2>4, <3>1, <3>3 DEF Phase
            <3> QED
                BY <2>2, <3>4, OneComes DEF Service!Next, Service!Start
      <2> QED
          BY <2>3, <2>4
<1>4. ASSUME NEW p \in Dispatchers, NEW x \in Requests, StartRequestHalf(p, x) PROVE Goal
      <2>1. /\ \A q \in Requests : q # x => starts'[q] = starts[q]
            /\ disturbed'.requests = disturbed.requests \cup {x} /\ request' = request
            BY <1>4 DEF StartRequestHalf, TypeOK
      <2>2. \A q \in Requests : q # x => Phase(q)' = Phase(q)
            BY <2>1, PhaseStays
      <2>3. CASE x \in disturbed.requests
            BY <2>1, <2>2, <2>3 DEF Phased, Phase
      <2>4. CASE x \notin disturbed.requests
            <3>1. request[x].status = "pending"
                  BY <1>4, <2>4 DEF StartRequestHalf, NextRequest, RequestInv, HeldWhilePending,
                                    HoldsRequest
            <3>2. Phase(x) \in {"open", "started"}
                  BY <2>4, <3>1, PhaseIs
            <3>3. \A q \in Requests : Phase(q)' = IF q \in {x} THEN "lost" ELSE Phase(q)
                  BY <2>1, <2>2 DEF Phase
            <3>4. Service!Lose({x})
                  BY <3>2, <3>3 DEF Service!Lose
            <3> QED
                BY <3>4 DEF Service!Next
      <2> QED
          BY <2>3, <2>4
<1>5. ASSUME NEW p \in Dispatchers, BeginRequests(p) PROVE Goal
      <2> DEFINE S == {x \in PendingNow : \E q \in Dispatchers \ {p} : HoldsRequest(q, x)}
      <2>1. disturbed'.requests = disturbed.requests \cup S /\ UNCHANGED <<request, starts>>
            BY <1>5 DEF BeginRequests, TypeOK
      <2>2. \A x \in S : x \in Requests /\ request[x].status = "pending"
            BY Listed
      <2>3. disturbed'.requests \subseteq Requests
            BY DEF TypeOK
      <2> QED
          BY <2>1, <2>2, <2>3, LosesSome
<1>6. ASSUME NEW p \in Dispatchers, Dies(p) PROVE Goal
      <2>1. /\ disturbed'.requests
                 = disturbed.requests \cup ({dispatcher[p].serving} \ {NoRequest})
            /\ UNCHANGED <<request, starts>>
            BY <1>6 DEF Dies
      <2>2. ASSUME NEW r \in disturbed'.requests \ disturbed.requests
            PROVE  request[r].status = "pending"
            <3>1. r \in Requests /\ HoldsRequest(p, r)
                  BY <2>1, <2>2 DEF HoldsRequest, TypeOK
            <3> QED
                BY <2>2, <3>1 DEF RequestInv, HeldWhilePending
      <2>3. disturbed'.requests \subseteq Requests
            BY DEF TypeOK
      <2> QED
          BY <2>1, <2>2, <2>3, LosesSome
<1>7. ASSUME NEW p \in Dispatchers, NEW status \in {"dispatched", "failed"}, Records(p, status),
             At(p, IF status = "dispatched" THEN "recordSuccess" ELSE "recordFailure")
      PROVE  Goal
      <2>1. PICK x \in Requests : x = dispatcher[p].serving
            BY <1>7 DEF Position, PositionAt, At
      <2>2. /\ \A q \in Requests : q # x => request'[q] = request[q]
            /\ request'[x].status = status /\ starts' = starts /\ disturbed' = disturbed
            BY <1>7, <2>1 DEF Records, TypeOK
      <2>3. \A q \in Requests : q # x => Phase(q)' = Phase(q)
            BY <2>2, PhaseStays
      <2>4. CASE x \in disturbed.requests
            BY <2>2, <2>3, <2>4 DEF Phased, Phase
      <2>5. CASE x \notin disturbed.requests
            <3>1. request[x].status = "pending"
                  BY <2>1, <2>5 DEF RequestInv, HeldWhilePending, HoldsRequest
            <3>2. starts[x] = IF status = "dispatched" THEN 1 ELSE 0
                  BY <2>1, <2>2, <2>5 DEF RequestInv, StartsSoFar
            <3>3. CASE status = "dispatched"
                  <4>1. Phase(x) = "started" /\ Phase(x)' = "done"
                        BY <2>2, <2>5, <3>1, <3>2, <3>3 DEF Phase
                  <4> QED
                      BY <2>1, <2>3, <4>1, OneComes DEF Service!Next, Service!Finish
            <3>4. CASE status = "failed"
                  <4>1. Phase(x) = "open" /\ Phase(x)' = "refused"
                        BY <2>2, <2>5, <3>1, <3>2, <3>4 DEF Phase
                  <4> QED
                      BY <2>1, <2>3, <4>1, OneComes DEF Service!Next, Service!Refuse
            <3> QED
                BY <3>3, <3>4
      <2> QED
          BY <2>4, <2>5
<1>8. ASSUME NEW p \in Dispatchers, RecordSuccess(p) \/ RecordFailure(p) PROVE Goal
      BY <1>7, <1>8 DEF RecordSuccess, RecordFailure
<1>9. ASSUME NEW p \in Dispatchers, BeginSchedules(p) \/ NoNextRun(p)
      PROVE  UNCHANGED <<request, starts>> /\ disturbed'.requests = disturbed.requests
      BY <1>9 DEF BeginSchedules, NoNextRun, TypeOK
<1> HIDE DEF Goal
<1>10. Goal
    BY <1>1, <1>2, <1>3, <1>4, <1>5, <1>6, <1>8, <1>9
    DEF Goal, Next, Others, Step, ScheduleStep, RequestStep, vars, Tick, CreateSchedule,
        DeleteSchedule, LeadChanges, StartRun, StartRunFails, RecordRun, EndSchedules,
        StartRequestFails, DeferRequest, EndRequests
<1> QED
    BY <1>10 DEF Goal

(* The dispatchers implement the service: every request goes through its   *)
(* phases in order, for any number of dispatchers, requests and leads,     *)
(* wherever a dispatcher dies.                                             *)
THEOREM DispatchImplementsService == Spec => DispatchServes
<1>1. Init => Service!Init
      <2> SUFFICES ASSUME Init, NEW r \in Requests PROVE Phase(r) = "unmade"
          BY DEF Service!Init
      <2> QED
          BY DEF Init, Phase
<1>2. Init => TypeOK /\ Position /\ RequestInv
      BY TypeInit, PositionInit, RequestInit
<1>3. TypeOK /\ Position /\ RequestInv /\ [Next]_vars => (TypeOK /\ Position /\ RequestInv)'
      BY TypeStep, PositionStep, RequestInvStep
<1>4. Spec => [][Service!Next]_Phased
      BY <1>2, <1>3, ServiceStep, PTL DEF Spec
<1> QED
    BY <1>1, <1>4, PTL DEF Spec, Phased, DispatchServes, Service!Spec
=============================================================================

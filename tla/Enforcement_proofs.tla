-------------------------- MODULE Enforcement_proofs -------------------------
(***************************************************************************)
(* Proofs about Enforcement, for any number of sessions, paths and         *)
(* enforcers, any strategies and budgets, and any deaths.                  *)
(***************************************************************************)
EXTENDS Enforcement, TLAPS

-----------------------------------------------------------------------------
(* Types.                                                                  *)

LEMMA PidsType == 1 \in Pids /\ 0 \notin Pids
BY EnforcementAssumption DEF Pids

(* The record of an enforcer, with the sets that are large to expand.      *)
Saws == [Sessions -> {0} \cup Pids]

LEMMA EnforcerIs ==
  Enforcer =
    [pc : {"idle", "stop", "list", "resolve", "open", "kill", "record", "tell", "done"},
     saw : Saws, todo : SUBSET Sessions, planned : SUBSET Conflict, plan : SUBSET Conflict,
     strategy : Strategies, conflict : Conflict \cup {NoConflict},
     serving : Sessions \cup {NoSession}, paused : SUBSET Sessions, overtaken : SUBSET Sessions]
BY DEF Enforcer, Saws

LEMMA RestsType ==
  \A pc \in {"idle", "list", "done"}, how \in Strategies : Rests(pc, how) \in Enforcer
<1>1. [s \in Sessions |-> 0] \in Saws
      BY DEF Saws
<1> QED
    BY <1>1, EnforcerIs DEF Rests

LEMMA EnforcerType == TypeOK => \A e \in Enforcers : enforcer[e] \in Enforcer
BY DEF TypeOK

LEMMA MovesType ==
  ASSUME TypeOK, NEW e \in Enforcers, NEW d \in Enforcer, Moves(e, d)
  PROVE  enforcer' \in [Enforcers -> Enforcer]
BY DEF Moves, TypeOK

LEMMA MovesOnly ==
  ASSUME TypeOK, NEW e \in Enforcers, NEW d, Moves(e, d)
  PROVE  enforcer'[e] = d /\ \A f \in Enforcers : f # e => enforcer'[f] = enforcer[f]
BY DEF TypeOK, Moves

LEMMA OverType ==
  ASSUME TypeOK, NEW e \in Enforcers, Over(e)
  PROVE  enforcer' \in [Enforcers -> Enforcer]
BY MovesType, RestsType DEF Over

LEMMA OvertakesType ==
  ASSUME TypeOK, NEW s \in Sessions, Overtakes(s)
  PROVE  enforcer' \in [Enforcers -> Enforcer]
<1>1. ASSUME NEW e \in Enforcers
      PROVE  [enforcer[e] EXCEPT !.overtaken = @ \cup {s}] \in Enforcer
      BY EnforcerType, EnforcerIs
<1> QED
    BY <1>1, EnforcerType DEF Overtakes

LEMMA ListType ==
  TypeOK => \A S \in SUBSET Sessions : PidsOf(S) \in Saws
BY DEF PidsOf, Saws, TypeOK, SessionRow

LEMMA SidesType == \A C \in SUBSET Conflict : Sides(C) \subseteq Sessions
BY DEF Sides, Conflict

LEMMA ChoiceType ==
  ASSUME NEW how, NEW c \in Conflict
  PROVE  /\ Choice(how, c) \in Incident
         /\ Choice(how, c).path = c.path
         /\ Choice(how, c).paused = IF how = "last_write_wins" THEN c.other ELSE c.latest
BY DEF Choice, Incident, Conflict
LEMMA ChosenType ==
  ASSUME TypeOK, NEW e \in Enforcers, enforcer[e].conflict # NoConflict
  PROVE  Chosen(e) \in Incident
BY ChoiceType, EnforcerType, EnforcerIs DEF Chosen

(* An enforcer at work has something in hand.                              *)
InHand(x) ==
  /\ x.pc \in {"open", "tell"} => x.conflict # NoConflict
  /\ x.pc \in {"idle", "stop", "list", "resolve", "done"} => x.conflict = NoConflict
  /\ x.pc \in {"kill", "record"} => x.serving \in Sessions /\ x.saw[x.serving] # 0

LEMMA BrokenType ==
  ASSUME TypeOK, NEW e \in Enforcers
  PROVE  Broken(e) \subseteq Incident
BY ChosenType DEF Broken

(* The changes an enforcer makes to its own record keep its type.          *)
LEMMA Changes ==
  ASSUME NEW x \in Enforcer
  PROVE  /\ \A saw \in Saws, S \in SUBSET Sessions :
              [x EXCEPT !.pc = "stop", !.saw = saw, !.todo = S] \in Enforcer
         /\ \A s \in Sessions :
              [x EXCEPT !.pc = "kill", !.serving = s, !.todo = @ \ {s}] \in Enforcer
         /\ \A saw \in Saws, C \in SUBSET Conflict :
              [x EXCEPT !.pc = "resolve", !.saw = saw, !.plan = C, !.planned = C] \in Enforcer
         /\ \A c \in Conflict : [x EXCEPT !.plan = @ \ {c}] \in Enforcer
         /\ \A c \in Conflict :
              [[x EXCEPT !.plan = @ \ {c}] EXCEPT !.pc = "open", !.conflict = c] \in Enforcer
         /\ \A s \in Sessions :
              [x EXCEPT !.pc = "kill", !.serving = s, !.paused = @ \cup {s}] \in Enforcer
         /\ \A pc \in {"tell", "record"} : [x EXCEPT !.pc = pc] \in Enforcer
         /\ \A pc \in {"stop", "tell"} :
              [x EXCEPT !.serving = NoSession, !.pc = pc] \in Enforcer
         /\ [x EXCEPT !.pc = "resolve", !.conflict = NoConflict] \in Enforcer
BY EnforcerIs

LEMMA TypeInit == Init => TypeOK
<1> SUFFICES ASSUME Init PROVE TypeOK
    OBVIOUS
<1>1. enforcer \in [Enforcers -> Enforcer]
      BY RestsType DEF Init
<1>2. written \in [Paths -> Written]
      BY DEF Init, Written
<1>3. session \in [Sessions -> SessionRow]
      BY PidsType DEF Init, SessionRow
<1> QED
    BY <1>1, <1>2, <1>3, PidsType, EnforcementAssumption DEF Init, TypeOK

LEMMA TypeStep ==
  TypeOK /\ (\A e \in Enforcers : InHand(enforcer[e])) /\ [Next]_vars => TypeOK'
<1> SUFFICES ASSUME TypeOK, \A e \in Enforcers : InHand(enforcer[e]), [Next]_vars PROVE TypeOK'
    OBVIOUS
<1>1. CASE UNCHANGED vars
      BY <1>1 DEF TypeOK, vars
<1>2. ASSUME NEW s \in Sessions, Spend(s) PROVE TypeOK'
      BY <1>2 DEF TypeOK, Spend, record
<1>3. ASSUME NEW s \in Sessions, NEW p \in Paths, NEW write \in BOOLEAN, Touch(s, p, write)
      PROVE  TypeOK'
      <2>1. written' \in [Paths -> Written]
            BY <1>3 DEF Touch, TypeOK, Written
      <2> QED
          BY <1>3, <2>1 DEF TypeOK, Touch, record
<1>4. ASSUME NEW s \in Sessions, Silent(s) \/ Beats(s) PROVE TypeOK'
      <2>1. session' \in [Sessions -> SessionRow]
            BY <1>4 DEF Silent, Beats, TypeOK, SessionRow
      <2> QED
          BY <1>4, <2>1 DEF TypeOK, Silent, Beats, record, work
<1>5. ASSUME NEW s \in Sessions, Ends(s) PROVE TypeOK'
      <2>1. session' \in [Sessions -> SessionRow]
            BY <1>5 DEF Ends, TypeOK, SessionRow
      <2>2. agents' \in [Sessions -> SUBSET Pids]
            BY <1>5 DEF Ends, TypeOK
      <2>3. enforcer' \in [Enforcers -> Enforcer]
            BY <1>5, OvertakesType DEF Ends
      <2> QED
          BY <1>5, <2>1, <2>2, <2>3 DEF TypeOK, Ends, record
<1>6. ASSUME NEW s \in Sessions, Resume(s) PROVE TypeOK'
      <2>1. session' \in [Sessions -> SessionRow]
            BY <1>6 DEF Resume, TypeOK, SessionRow
      <2>2. agents' \in [Sessions -> SUBSET Pids]
            BY <1>6 DEF Resume, TypeOK
      <2>3. enforcer' \in [Enforcers -> Enforcer]
            BY <1>6, OvertakesType DEF Resume
      <2>4. raced' \subseteq Sessions /\ excused' \subseteq Incident
            BY <1>6 DEF Resume, TypeOK
      <2> QED
          BY <1>6, <2>1, <2>2, <2>3, <2>4 DEF TypeOK, Resume
<1>7. ASSUME enforcer' \in [Enforcers -> Enforcer], UNCHANGED <<session, work, record>>
      PROVE  TypeOK'
      BY <1>7 DEF TypeOK, work, record
<1>8. ASSUME NEW e \in Enforcers, Begin(e) PROVE TypeOK'
      <2>1. ToStop \subseteq Sessions
            BY DEF ToStop
      <2>2. [enforcer[e] EXCEPT !.pc = "stop", !.saw = PidsOf(ToStop), !.todo = ToStop] \in Enforcer
            BY <2>1, ListType, EnforcerType, Changes
      <2> QED
          BY <1>7, <1>8, <2>2, MovesType DEF Begin
<1>9. ASSUME NEW e \in Enforcers, NEW s \in Sessions, BeginStop(e, s) PROVE TypeOK'
      <2>1. [enforcer[e] EXCEPT !.pc = "kill", !.serving = s, !.todo = @ \ {s}] \in Enforcer
            BY EnforcerType, Changes
      <2> QED
          BY <1>7, <1>9, <2>1, MovesType DEF BeginStop
<1>10. ASSUME NEW e \in Enforcers, BudgetDone(e) PROVE TypeOK'
       <2>1. Rests("list", enforcer[e].strategy) \in Enforcer
             BY EnforcerType, EnforcerIs, RestsType
       <2> QED
           BY <1>7, <1>10, <2>1, MovesType, OverType DEF BudgetDone
<1>11. ASSUME NEW e \in Enforcers, ListsConflicts(e) PROVE TypeOK'
       <2> DEFINE found == Conflicts({s \in Sessions : Working(s)})
       <2>1. found \subseteq Conflict
             BY DEF Conflicts
       <2>2. [enforcer[e] EXCEPT !.pc = "resolve", !.saw = PidsOf(Sides(found)), !.plan = found,
                                 !.planned = found] \in Enforcer
             BY <2>1, SidesType, ListType, EnforcerType, Changes
       <2>3. Moves(e, [enforcer[e] EXCEPT !.pc = "resolve", !.saw = PidsOf(Sides(found)),
                                          !.plan = found, !.planned = found])
             BY <1>11 DEF ListsConflicts
       <2> HIDE DEF found
       <2> QED
           BY <1>7, <1>11, <2>2, <2>3, MovesType DEF ListsConflicts
<1>12. ASSUME NEW e \in Enforcers, NEW c \in Conflict, Resolve(e, c) PROVE TypeOK'
       <2>1. /\ [enforcer[e] EXCEPT !.plan = @ \ {c}] \in Enforcer
             /\ [[enforcer[e] EXCEPT !.plan = @ \ {c}] EXCEPT !.pc = "open", !.conflict = c]
                  \in Enforcer
             BY EnforcerType, Changes
       <2> QED
           BY <1>7, <1>12, <2>1, MovesType DEF Resolve
<1>13. ASSUME NEW e \in Enforcers, Opens(e) PROVE TypeOK'
       <2>1. Chosen(e) \in Incident
             BY <1>13, ChosenType DEF Opens, At, InHand
       <2>2. Chosen(e).paused \in Sessions
             BY <2>1 DEF Incident
       <2>3. /\ [enforcer[e] EXCEPT !.pc = "tell"] \in Enforcer
             /\ [enforcer[e] EXCEPT !.pc = "kill", !.serving = Chosen(e).paused,
                                    !.paused = @ \cup {Chosen(e).paused}] \in Enforcer
             BY <2>2, EnforcerType, Changes
       <2>4. enforcer' \in [Enforcers -> Enforcer]
             BY <1>13, <2>3, MovesType DEF Opens
       <2>5. incidents' \subseteq Incident /\ excused' \subseteq Incident
             BY <1>13, <2>1 DEF Opens, TypeOK
       <2> QED
           BY <1>13, <2>4, <2>5 DEF TypeOK, Opens, work
<1>14. ASSUME NEW e \in Enforcers, Kill(e) PROVE TypeOK'
       <2>1. [enforcer[e] EXCEPT !.pc = "record"] \in Enforcer
             BY EnforcerType, Changes
       <2>2. enforcer' \in [Enforcers -> Enforcer]
             BY <1>14, <2>1, MovesType DEF Kill
       <2>3. agents' \in [Sessions -> SUBSET Pids]
             BY <1>14 DEF Kill, TypeOK
       <2> QED
           BY <1>14, <2>2, <2>3 DEF TypeOK, Kill, record
<1>15. ASSUME NEW e \in Enforcers, KillFails(e) PROVE TypeOK'
       <2>1. Rests("list", enforcer[e].strategy) \in Enforcer
             BY EnforcerType, EnforcerIs, RestsType
       <2>2. enforcer' \in [Enforcers -> Enforcer]
             BY <1>15, <2>1, MovesType, OverType DEF KillFails
       <2> QED
           BY <1>15, <2>2, BrokenType DEF TypeOK, KillFails, work
<1>16. ASSUME NEW e \in Enforcers, Records(e) PROVE TypeOK'
       <2>1. enforcer[e].serving \in Sessions
             BY <1>16 DEF Records, At, InHand
       <2>2. \A pc \in {"stop", "tell"} :
               [enforcer[e] EXCEPT !.serving = NoSession, !.pc = pc] \in Enforcer
             BY EnforcerType, Changes
       <2>3. enforcer' \in [Enforcers -> Enforcer]
             BY <1>16, <2>2, MovesType DEF Records
       <2>4. session' \in [Sessions -> SessionRow]
             BY <1>16, <2>1 DEF Records, TypeOK, SessionRow
       <2> QED
           BY <1>16, <2>1, <2>3, <2>4 DEF TypeOK, Records, work
<1>17. ASSUME NEW e \in Enforcers, Tells(e) PROVE TypeOK'
       <2>1. [enforcer[e] EXCEPT !.pc = "resolve", !.conflict = NoConflict] \in Enforcer
             BY EnforcerType, Changes
       <2>2. enforcer' \in [Enforcers -> Enforcer]
             BY <1>17, <2>1, MovesType DEF Tells
       <2>3. Chosen(e) \in Incident
             BY <1>17, ChosenType DEF Tells, At, InHand
       <2> QED
           BY <1>17, <2>2, <2>3 DEF TypeOK, Tells, work
<1>18. ASSUME NEW e \in Enforcers, Return(e) PROVE TypeOK'
       BY <1>7, <1>18, OverType DEF Return
<1>19. ASSUME NEW e \in Enforcers, Dies(e) PROVE TypeOK'
       <2>1. enforcer' \in [Enforcers -> Enforcer]
             BY <1>19, OverType DEF Dies
       <2>2. deaths' \in 0 .. MaxDeaths
             BY <1>19, EnforcementAssumption DEF Dies, TypeOK
       <2> QED
           BY <1>19, <2>1, <2>2, BrokenType DEF TypeOK, Dies, work
<1> QED
    BY <1>1, <1>2, <1>3, <1>4, <1>5, <1>6, <1>8, <1>9, <1>10, <1>11, <1>12, <1>13,
       <1>14, <1>15, <1>16, <1>17, <1>18, <1>19
    DEF Next, GoesOn, Others

-----------------------------------------------------------------------------
(* The steps of an enforcer, field by field.                               *)

Same(x, y) ==
  /\ y.saw = x.saw /\ y.planned = x.planned /\ y.strategy = x.strategy
  /\ y.overtaken = x.overtaken

Fresh(x) ==
  /\ x.pc \in {"idle", "list", "done"} /\ x.conflict = NoConflict
  /\ x.todo = {} /\ x.planned = {} /\ x.plan = {} /\ x.paused = {}
  /\ \A s \in Sessions : x.saw[s] = 0

LEMMA RestsIs ==
  ASSUME NEW pc \in {"idle", "list", "done"}, NEW how
  PROVE  Fresh(Rests(pc, how))
BY DEF Rests, Fresh

LEMMA OverIs ==
  ASSUME TypeOK, NEW e \in Enforcers, Over(e)
  PROVE  Fresh(enforcer'[e]) /\ \A f \in Enforcers : f # e => enforcer'[f] = enforcer[f]
BY MovesOnly, RestsIs DEF Over

LEMMA BeginIs ==
  ASSUME TypeOK, NEW e \in Enforcers, Begin(e)
  PROVE  LET x == enforcer[e]
             y == enforcer'[e]
         IN  /\ y.pc = "stop" /\ y.saw = PidsOf(ToStop) /\ y.todo = ToStop
             /\ y.planned = x.planned /\ y.plan = x.plan /\ y.strategy = x.strategy
             /\ y.conflict = x.conflict /\ y.paused = x.paused
<1> DEFINE d == [enforcer[e] EXCEPT !.pc = "stop", !.saw = PidsOf(ToStop), !.todo = ToStop]
<1>1. enforcer'[e] = d
      BY MovesOnly DEF Begin
<1> QED
    BY <1>1, EnforcerType, EnforcerIs

LEMMA BeginStopIs ==
  ASSUME TypeOK, NEW e \in Enforcers, NEW s, BeginStop(e, s)
  PROVE  LET x == enforcer[e]
             y == enforcer'[e]
         IN  /\ Same(x, y) /\ y.pc = "kill" /\ y.serving = s /\ y.todo = x.todo \ {s}
             /\ y.plan = x.plan /\ y.conflict = x.conflict /\ y.paused = x.paused
<1> DEFINE d == [enforcer[e] EXCEPT !.pc = "kill", !.serving = s, !.todo = @ \ {s}]
<1>1. enforcer'[e] = d
      BY MovesOnly DEF BeginStop
<1> QED
    BY <1>1, EnforcerType, EnforcerIs DEF Same

LEMMA ListsIs ==
  ASSUME TypeOK, NEW e \in Enforcers, ListsConflicts(e)
  PROVE  LET x == enforcer[e]
             y == enforcer'[e]
             found == Conflicts({s \in Sessions : Working(s)})
         IN  /\ y.pc = "resolve" /\ y.saw = PidsOf(Sides(found)) /\ y.todo = x.todo
             /\ y.planned = found /\ y.plan = found /\ y.conflict = x.conflict
             /\ y.paused = x.paused
<1> DEFINE found == Conflicts({s \in Sessions : Working(s)})
           d == [enforcer[e] EXCEPT !.pc = "resolve", !.saw = PidsOf(Sides(found)),
                                    !.plan = found, !.planned = found]
<1>1. enforcer'[e] = d
      BY MovesOnly DEF ListsConflicts
<1> HIDE DEF found
<1> QED
    BY <1>1, EnforcerType, EnforcerIs DEF found

LEMMA ResolveIs ==
  ASSUME TypeOK, NEW e \in Enforcers, NEW c, Resolve(e, c)
  PROVE  LET x == enforcer[e]
             y == enforcer'[e]
         IN  /\ Same(x, y) /\ y.todo = x.todo /\ y.plan = x.plan \ {c} /\ y.paused = x.paused
             /\ IF IsOpen(c) THEN y.pc = x.pc /\ y.conflict = x.conflict
                             ELSE y.pc = "open" /\ y.conflict = c
<1> DEFINE rest == [enforcer[e] EXCEPT !.plan = @ \ {c}]
           d == [rest EXCEPT !.pc = "open", !.conflict = c]
<1>1. enforcer'[e] = IF IsOpen(c) THEN rest ELSE d
      BY MovesOnly DEF Resolve
<1> QED
    BY <1>1, EnforcerType, EnforcerIs DEF Same

LEMMA OpensIs ==
  ASSUME TypeOK, NEW e \in Enforcers, Opens(e)
  PROVE  LET x == enforcer[e]
             y == enforcer'[e]
             s == Chosen(e).paused
         IN  /\ Same(x, y) /\ y.todo = x.todo /\ y.plan = x.plan /\ y.conflict = x.conflict
             /\ IF s \in x.paused THEN y.pc = "tell" /\ y.paused = x.paused
                ELSE y.pc = "kill" /\ y.serving = s /\ y.paused = x.paused \cup {s}
<1> DEFINE s == Chosen(e).paused
           d == [enforcer[e] EXCEPT !.pc = "kill", !.serving = s, !.paused = @ \cup {s}]
<1>1. enforcer'[e] = IF s \in enforcer[e].paused THEN [enforcer[e] EXCEPT !.pc = "tell"] ELSE d
      BY MovesOnly DEF Opens
<1> HIDE DEF s
<1> QED
    BY <1>1, EnforcerType, EnforcerIs DEF Same, s

LEMMA KillIs ==
  ASSUME TypeOK, NEW e \in Enforcers, Kill(e)
  PROVE  LET x == enforcer[e]
             y == enforcer'[e]
         IN  /\ Same(x, y) /\ y.pc = "record" /\ y.serving = x.serving /\ y.todo = x.todo
             /\ y.plan = x.plan /\ y.conflict = x.conflict /\ y.paused = x.paused
<1>1. enforcer'[e] = [enforcer[e] EXCEPT !.pc = "record"]
      BY MovesOnly DEF Kill
<1> QED
    BY <1>1, EnforcerType, EnforcerIs DEF Same

LEMMA RecordsIs ==
  ASSUME TypeOK, NEW e \in Enforcers, Records(e)
  PROVE  LET x == enforcer[e]
             y == enforcer'[e]
         IN  /\ Same(x, y) /\ y.todo = x.todo /\ y.plan = x.plan /\ y.conflict = x.conflict
             /\ y.paused = x.paused
             /\ y.pc = IF x.conflict = NoConflict THEN "stop" ELSE "tell"
<1> DEFINE pc == IF enforcer[e].conflict = NoConflict THEN "stop" ELSE "tell"
<1>1. enforcer'[e] = [enforcer[e] EXCEPT !.serving = NoSession, !.pc = pc]
      BY MovesOnly DEF Records
<1> HIDE DEF pc
<1> QED
    BY <1>1, EnforcerType, EnforcerIs DEF Same, pc

LEMMA TellsIs ==
  ASSUME TypeOK, NEW e \in Enforcers, Tells(e)
  PROVE  LET x == enforcer[e]
             y == enforcer'[e]
         IN  /\ Same(x, y) /\ y.pc = "resolve" /\ y.todo = x.todo /\ y.plan = x.plan
             /\ y.conflict = NoConflict /\ y.paused = x.paused
<1>1. enforcer'[e] = [enforcer[e] EXCEPT !.pc = "resolve", !.conflict = NoConflict]
      BY MovesOnly DEF Tells
<1> QED
    BY <1>1, EnforcerType, EnforcerIs DEF Same

LEMMA PassesOver ==
  ASSUME TypeOK, NEW e \in Enforcers, BudgetDone(e) \/ KillFails(e) \/ Return(e) \/ Dies(e)
  PROVE  Fresh(enforcer'[e]) /\ \A f \in Enforcers : f # e => enforcer'[f] = enforcer[f]
BY OverIs, MovesOnly, RestsIs DEF BudgetDone, KillFails, Return, Dies

(* What a session's own step does to the records of the enforcers.         *)
LEMMA OvertakesIs ==
  ASSUME TypeOK, NEW s \in Sessions, Overtakes(s), NEW e \in Enforcers
  PROVE  LET x == enforcer[e]
             y == enforcer'[e]
         IN  /\ y.pc = x.pc /\ y.saw = x.saw /\ y.todo = x.todo /\ y.planned = x.planned
             /\ y.plan = x.plan /\ y.strategy = x.strategy /\ y.conflict = x.conflict
             /\ y.serving = x.serving /\ y.paused = x.paused
             /\ x.overtaken \subseteq y.overtaken
             /\ x.saw[s] = 0 \/ s \in y.overtaken
<1>1. enforcer'[e] = IF enforcer[e].saw[s] = 0 THEN enforcer[e]
                     ELSE [enforcer[e] EXCEPT !.overtaken = @ \cup {s}]
      BY DEF Overtakes
<1> QED
    BY <1>1, EnforcerType, EnforcerIs

-----------------------------------------------------------------------------
(* The rows, and the order of the writes.                                  *)

(* A session that works has the one process its row names, and a stopped   *)
(* one has none, unless it was raced.                                      *)
Rows ==
  \A s \in Sessions :
    /\ Working(s) => session[s].pid # 0 /\ (s \in raced \/ agents[s] \subseteq {session[s].pid})
    /\ session[s].state = "stopped" => s \in raced \/ agents[s] = {}

Orders ==
  \A p \in Paths : \A a, b \in written[p].by : a # b => Before(p, a, b) \/ Before(p, b, a)

LEMMA OrdersInit == Init => Orders
BY DEF Init, Orders

LEMMA OrdersStep == TypeOK /\ Orders /\ [Next]_vars => Orders'
<1> SUFFICES ASSUME TypeOK, Orders, [Next]_vars PROVE Orders'
    OBVIOUS
<1>1. ASSUME UNCHANGED written PROVE Orders'
      BY <1>1 DEF Orders, Before
<1>2. ASSUME NEW s \in Sessions, NEW p \in Paths, NEW write \in BOOLEAN, Touch(s, p, write)
      PROVE  Orders'
      <2> DEFINE others == written[p].by \ {s}
                 order == {o \in written[p].order : s \notin {o[1], o[2]}}
      <2>1. written' = [written EXCEPT ![p] =
              IF write THEN [by |-> others \cup {s}, order |-> order \cup (others \X {s})]
                       ELSE [by |-> others, order |-> order]]
            BY <1>2 DEF Touch
      <2>2. \A q \in Paths : q # p => written'[q] = written[q]
            BY <2>1 DEF TypeOK
      <2>3. /\ written'[p].by = IF write THEN others \cup {s} ELSE others
            /\ order \subseteq written'[p].order
            /\ write => others \X {s} \subseteq written'[p].order
            BY <2>1 DEF TypeOK
      <2>4. \A a, b \in others : a # b => <<a, b>> \in order \/ <<b, a>> \in order
            BY DEF Orders, Before
      <2>5. \A a, b \in written'[p].by : a # b =>
              <<a, b>> \in written'[p].order \/ <<b, a>> \in written'[p].order
            <3> HIDE DEF order
            <3> QED
                BY <2>3, <2>4
      <2> QED
          BY <2>2, <2>5 DEF Orders, Before
<1>3. UNCHANGED written
        \/ \E s \in Sessions, p \in Paths, write \in BOOLEAN : Touch(s, p, write)
      <2> USE DEF work
      <2>1. ASSUME NEW s \in Sessions, Spend(s) \/ Silent(s) \/ Beats(s) \/ Ends(s) \/ Resume(s)
            PROVE  UNCHANGED written
            BY <2>1 DEF Spend, Silent, Beats, Ends, Resume
      <2>2. ASSUME NEW e \in Enforcers, GoesOn(e) \/ Dies(e) PROVE UNCHANGED written
            BY <2>2 DEF GoesOn, Dies, Begin, BudgetDone, ListsConflicts, Opens, Kill, KillFails,
                        Records, Tells, Return, BeginStop, Resolve
      <2>3. CASE UNCHANGED vars
            BY <2>3 DEF vars
      <2> QED
          BY <2>1, <2>2, <2>3 DEF Next, Others
<1> QED
    BY <1>1, <1>2, <1>3

-----------------------------------------------------------------------------
(* What an enforcer has listed hangs together.                             *)

Shape(x) ==
  /\ InHand(x)
  /\ x.plan \subseteq x.planned
  /\ x.conflict # NoConflict => x.conflict \in x.planned
  /\ x.pc \in {"kill", "record"} /\ x.conflict # NoConflict =>
       x.serving = Choice(x.strategy, x.conflict).paused
  /\ \A s \in x.todo : x.saw[s] # 0
  /\ \A c \in x.planned : x.saw[c.latest] # 0 /\ x.saw[c.other] # 0
  /\ \A s \in x.paused : \E d \in x.planned : Choice(x.strategy, d).paused = s
  /\ \A c, d \in x.planned : c.path = d.path => c.latest = d.latest
  /\ x.pc \in {"idle", "list"} => x.planned = {} /\ x.paused = {} /\ x.todo = {}

Shapes == \A e \in Enforcers : Shape(enforcer[e])

LEMMA FreshShape == \A x : Fresh(x) => Shape(x)
BY DEF Fresh, Shape, InHand

LEMMA ConflictSides ==
  ASSUME NEW c \in Conflict, NEW how
  PROVE  /\ c.latest \in Sessions /\ c.other \in Sessions
         /\ Choice(how, c).paused \in {c.latest, c.other}
BY ChoiceType DEF Conflict

(* The latest writer of a path is one session.                             *)
LEMMA OneLatest ==
  ASSUME Orders, NEW S, NEW c \in Conflicts(S), NEW d \in Conflicts(S), c.path = d.path
  PROVE  c.latest = d.latest
<1>1. c.path \in Paths
      BY DEF Conflicts, Conflict
<1>2. /\ {c.latest, d.latest} \subseteq written[c.path].by \cap S
      /\ ~Before(c.path, c.latest, d.latest) /\ ~Before(c.path, d.latest, c.latest)
      BY DEF Conflicts, Conflicting
<1> QED
    BY <1>1, <1>2 DEF Orders

LEMMA ShapesInit == Init => Shapes
<1> SUFFICES ASSUME Init, NEW e \in Enforcers PROVE Shape(enforcer[e])
    BY DEF Shapes
<1>1. PICK how \in Strategies : enforcer = [f \in Enforcers |-> Rests("idle", how)]
      BY DEF Init
<1> QED
    BY <1>1, RestsIs, FreshShape

LEMMA ShapesStep ==
  TypeOK /\ Rows /\ Orders /\ Shapes /\ [Next]_vars => Shapes'
<1> SUFFICES ASSUME TypeOK, Rows, Orders, Shapes, [Next]_vars, NEW e \in Enforcers
             PROVE  Shape(enforcer'[e])
    BY DEF Shapes
<1> DEFINE x == enforcer[e]
           y == enforcer'[e]
<1>1. Shape(x) /\ x \in Enforcer
      BY EnforcerType DEF Shapes
<1>2. x.planned \subseteq Conflict
      BY <1>1, EnforcerIs
<1>3. CASE y = x
      BY <1>1, <1>3
<1>4. ASSUME NEW s \in Sessions, Overtakes(s) PROVE Shape(y)
      <2>1. /\ y.pc = x.pc /\ y.saw = x.saw /\ y.todo = x.todo /\ y.planned = x.planned
            /\ y.plan = x.plan /\ y.strategy = x.strategy /\ y.conflict = x.conflict
            /\ y.serving = x.serving /\ y.paused = x.paused
            BY <1>4, OvertakesIs
      <2> QED
          BY <1>1, <2>1 DEF Shape, InHand
<1>5. CASE Begin(e)
      <2>1. \A s \in ToStop : s \in Sessions /\ PidsOf(ToStop)[s] # 0
            BY DEF ToStop, PidsOf, Rows, Active, Working
      <2>2. x.pc = "idle"
            BY <1>5 DEF Begin, At
      <2> QED
          BY <1>1, <1>5, <2>1, <2>2, BeginIs DEF Shape, InHand
<1>6. ASSUME NEW s \in Sessions, BeginStop(e, s) PROVE Shape(y)
      <2>1. x.pc = "stop" /\ s \in x.todo
            BY <1>6 DEF BeginStop, At
      <2> QED
          BY <1>1, <1>6, <2>1, BeginStopIs DEF Shape, InHand, Same
<1>7. CASE BudgetDone(e) \/ KillFails(e) \/ Return(e) \/ Dies(e)
      BY <1>7, PassesOver, FreshShape
<1>8. CASE ListsConflicts(e)
      <2> DEFINE W == {s \in Sessions : Working(s)}
                 found == Conflicts(W)
      <2>1. x.pc = "list" /\ x.todo \subseteq Sessions
            BY <1>1, <1>8, EnforcerIs DEF ListsConflicts, At
      <2>2. \A c \in found : /\ c.latest \in Sessions /\ c.other \in Sessions
                             /\ c.latest \in W /\ c.other \in W
            BY DEF Conflicts, Conflicting, Conflict
      <2>3. \A c \in found : PidsOf(Sides(found))[c.latest] # 0 /\ PidsOf(Sides(found))[c.other] # 0
            <3> SUFFICES ASSUME NEW c \in found
                         PROVE  PidsOf(Sides(found))[c.latest] # 0 /\ PidsOf(Sides(found))[c.other] # 0
                OBVIOUS
            <3>1. c.latest \in Sides(found) /\ c.other \in Sides(found)
                  BY DEF Sides
            <3> QED
                BY <2>2, <3>1 DEF PidsOf, Rows
      <2>4. \A c, d \in found : c.path = d.path => c.latest = d.latest
            BY OneLatest
      <2>5. x.todo = {} /\ x.paused = {}
            BY <1>1, <2>1 DEF Shape
      <2>6. /\ y.pc = "resolve" /\ y.todo = {} /\ y.paused = {} /\ y.planned = found
            /\ y.plan = found /\ y.conflict = x.conflict /\ y.saw = PidsOf(Sides(found))
            BY <1>8, <2>5, ListsIs
      <2> HIDE DEF found
      <2> QED
          BY <1>1, <2>1, <2>3, <2>4, <2>6 DEF Shape, InHand
<1>9. ASSUME NEW c \in Conflict, Resolve(e, c) PROVE Shape(y)
      <2>1. x.pc = "resolve" /\ c \in x.plan
            BY <1>9 DEF Resolve, At
      <2>2. c # NoConflict
            BY ConflictAssumption
      <2> QED
          BY <1>1, <1>9, <2>1, <2>2, ResolveIs DEF Shape, InHand, Same
<1>10. CASE Opens(e)
       <2> DEFINE s == Chosen(e).paused
       <2>1. x.conflict # NoConflict /\ x.conflict \in x.planned
             BY <1>1, <1>10 DEF Opens, At, Shape, InHand
       <2>2. s = Choice(x.strategy, x.conflict).paused
             BY DEF Chosen
       <2>3. s \in {x.conflict.latest, x.conflict.other} /\ s \in Sessions
             BY <1>2, <2>1, <2>2, ConflictSides
       <2>4. x.saw[s] # 0
             BY <1>1, <2>1, <2>3 DEF Shape
       <2>5. /\ Same(x, y) /\ y.todo = x.todo /\ y.plan = x.plan /\ y.conflict = x.conflict
             /\ IF s \in x.paused THEN y.pc = "tell" /\ y.paused = x.paused
                ELSE y.pc = "kill" /\ y.serving = s /\ y.paused = x.paused \cup {s}
             BY <1>10, OpensIs
       <2> HIDE DEF s
       <2> QED
           BY <1>1, <2>1, <2>2, <2>3, <2>4, <2>5 DEF Shape, InHand, Same
<1>11. CASE Kill(e)
       <2>1. x.pc = "kill"
             BY <1>11 DEF Kill, At
       <2> QED
           BY <1>1, <1>11, <2>1, KillIs DEF Shape, InHand, Same
<1>12. CASE Records(e)
       <2>1. x.pc = "record"
             BY <1>12 DEF Records, At
       <2> QED
           BY <1>1, <1>12, <2>1, RecordsIs DEF Shape, InHand, Same
<1>13. CASE Tells(e)
       <2>1. x.pc = "tell"
             BY <1>13 DEF Tells, At
       <2> QED
           BY <1>1, <1>13, <2>1, TellsIs DEF Shape, InHand, Same
<1>14. ASSUME NEW f \in Enforcers, GoesOn(f) \/ Dies(f), f # e PROVE y = x
       BY <1>14, MovesOnly, PassesOver
       DEF GoesOn, Begin, ListsConflicts, Opens, Kill, Records, Tells, BeginStop, Resolve
<1>15. ASSUME NEW s \in Sessions, Spend(s) \/ Silent(s) \/ Beats(s)
                \/ \E p \in Paths, write \in BOOLEAN : Touch(s, p, write)
       PROVE  y = x
       BY <1>15 DEF Spend, Silent, Beats, Touch
<1>16. ASSUME NEW s \in Sessions, Ends(s) \/ Resume(s) PROVE Shape(y)
       BY <1>4, <1>16 DEF Ends, Resume
<1>17. CASE UNCHANGED vars
       BY <1>3, <1>17 DEF vars
<1>18. CASE GoesOn(e) \/ Dies(e)
       BY <1>5, <1>6, <1>7, <1>8, <1>9, <1>10, <1>11, <1>12, <1>13, <1>18 DEF GoesOn
<1> QED
    BY <1>3, <1>14, <1>15, <1>16, <1>17, <1>18 DEF Next, Others

-----------------------------------------------------------------------------
(* What an enforcer knows of a session that it has listed and that was     *)
(* neither resumed nor ended since.                                        *)

Knows(e) ==
  LET x == enforcer[e]
  IN  /\ \A s \in Sessions : x.saw[s] # 0 /\ s \notin x.overtaken =>
           /\ session[s].state # "completed"
           /\ s \in raced \/ agents[s] \subseteq {x.saw[s]}
      /\ x.pc = "record" =>
           \/ x.serving \in x.overtaken \cup raced
           \/ agents[x.serving] = {}
      /\ \A s \in x.paused :
           \/ ~Working(s)
           \/ s \in x.overtaken
           \/ x.pc \in {"kill", "record"} /\ x.serving = s

EnforcementInv ==
  Rows /\ Orders /\ Shapes /\ \A e \in Enforcers : Knows(e)

(* A session's step, seen by an enforcer that may have listed it.          *)
Calm(e, s) ==
  \/ enforcer[e].saw[s] = 0
  \/ s \in enforcer'[e].overtaken
  \/ /\ agents'[s] \subseteq agents[s]
     /\ session'[s].state = "completed" => session[s].state = "completed"
     /\ Working(s)' => Working(s)

LEMMA PausedType ==
  ASSUME TypeOK, Shapes, NEW e \in Enforcers, NEW s \in enforcer[e].paused
  PROVE  s \in Sessions /\ enforcer[e].saw[s] # 0
<1>1. PICK d \in enforcer[e].planned : Choice(enforcer[e].strategy, d).paused = s
      BY DEF Shapes, Shape
<1>2. d \in Conflict
      BY <1>1, EnforcerType, EnforcerIs
<1>3. s \in {d.latest, d.other} /\ s \in Sessions
      BY <1>1, <1>2, ConflictSides
<1> QED
    BY <1>1, <1>3 DEF Shapes, Shape

LEMMA KnowsStays ==
  ASSUME TypeOK, Shapes, NEW e \in Enforcers, Knows(e), raced \subseteq raced',
         enforcer'[e].pc = enforcer[e].pc, enforcer'[e].saw = enforcer[e].saw,
         enforcer'[e].serving = enforcer[e].serving, enforcer'[e].paused = enforcer[e].paused,
         enforcer[e].overtaken \subseteq enforcer'[e].overtaken,
         \A s \in Sessions : Calm(e, s)
  PROVE  Knows(e)'
<1> DEFINE x == enforcer[e]
           y == enforcer'[e]
<1>1. ASSUME NEW s \in Sessions, x.saw[s] # 0, s \notin y.overtaken
      PROVE  session'[s].state # "completed" /\ (s \in raced' \/ agents'[s] \subseteq {x.saw[s]})
      BY <1>1 DEF Knows, Calm
<1>2. y.pc = "record" => y.serving \in y.overtaken \cup raced' \/ agents'[y.serving] = {}
      <2> SUFFICES ASSUME x.pc = "record"
                   PROVE  x.serving \in y.overtaken \cup raced' \/ agents'[x.serving] = {}
          OBVIOUS
      <2>1. x.serving \in Sessions /\ x.saw[x.serving] # 0
            BY DEF Shapes, Shape, InHand
      <2> QED
          BY <2>1 DEF Knows, Calm
<1>3. ASSUME NEW s \in x.paused
      PROVE  ~Working(s)' \/ s \in y.overtaken \/ (x.pc \in {"kill", "record"} /\ x.serving = s)
      BY PausedType DEF Knows, Calm
<1> QED
    BY <1>1, <1>2, <1>3 DEF Knows

LEMMA KnowsInit == Init => Rows /\ \A e \in Enforcers : Knows(e)
<1> SUFFICES ASSUME Init PROVE Rows /\ \A e \in Enforcers : Knows(e)
    OBVIOUS
<1>1. Rows
      BY PidsType DEF Init, Rows
<1>2. PICK how \in Strategies : enforcer = [f \in Enforcers |-> Rests("idle", how)]
      BY DEF Init
<1>3. ASSUME NEW e \in Enforcers PROVE Knows(e)
      <2>1. Fresh(enforcer[e])
            BY <1>2, RestsIs
      <2> QED
          BY <2>1 DEF Fresh, Knows
<1> QED
    BY <1>1, <1>3

(* What each step does to the sessions.                                    *)
Gentle(s) ==
  /\ agents'[s] \subseteq agents[s]
  /\ session'[s].state = "completed" => session[s].state = "completed"
  /\ Working(s)' => Working(s) /\ session'[s].pid = session[s].pid

LEMMA SessionsStep ==
  ASSUME TypeOK, Shapes, [Next]_vars
  PROVE  /\ raced \subseteq raced'
         /\ \A s \in Sessions : Gentle(s) \/ Ends(s) \/ Resume(s)
<1>1. ASSUME UNCHANGED <<session, agents>> PROVE \A s \in Sessions : Gentle(s)
      BY <1>1 DEF Gentle, Working
<1>2. ASSUME NEW t \in Sessions, Spend(t) \/ \E p \in Paths, write \in BOOLEAN : Touch(t, p, write)
      PROVE  raced' = raced /\ \A s \in Sessions : Gentle(s)
      BY <1>1, <1>2 DEF Spend, Touch, record
<1>3. ASSUME NEW t \in Sessions, Silent(t) \/ Beats(t)
      PROVE  raced' = raced /\ \A s \in Sessions : Gentle(s)
      <2>1. agents' = agents /\ raced' = raced
            BY <1>3 DEF Silent, Beats, work, record
      <2>2. \A s \in Sessions : session'[s].pid = session[s].pid
                                  /\ (s # t => session'[s] = session[s])
            BY <1>3 DEF Silent, Beats, TypeOK, SessionRow
      <2>3. Working(t) /\ session'[t].state \in {"active", "stale"}
            BY <1>3 DEF Silent, Beats, TypeOK, SessionRow, Active, Working
      <2> QED
          BY <2>1, <2>2, <2>3 DEF Gentle, Working
<1>4. ASSUME NEW t \in Sessions, Ends(t)
      PROVE  raced' = raced /\ \A s \in Sessions : s # t => Gentle(s)
      BY <1>4 DEF Ends, Gentle, Working, TypeOK, record
<1>5. ASSUME NEW t \in Sessions, Resume(t)
      PROVE  raced \subseteq raced' /\ \A s \in Sessions : s # t => Gentle(s)
      BY <1>5 DEF Resume, Gentle, Working, TypeOK
<1>6. ASSUME NEW e \in Enforcers, Kill(e)
      PROVE  raced' = raced /\ \A s \in Sessions : Gentle(s)
      <2>1. session' = session /\ raced' = raced
            BY <1>6 DEF Kill, record
      <2>2. \A s \in Sessions : agents'[s] \subseteq agents[s]
            BY <1>6 DEF Kill, TypeOK
      <2> QED
          BY <2>1, <2>2 DEF Gentle, Working
<1>7. ASSUME NEW e \in Enforcers, Records(e)
      PROVE  raced \subseteq raced' /\ \A s \in Sessions : Gentle(s)
      <2>1. agents' = agents /\ raced \subseteq raced'
            BY <1>7 DEF Records, work
      <2>2. \A s \in Sessions : session'[s] = session[s] \/ session'[s].state = "stopped"
            BY <1>7 DEF Records, TypeOK, SessionRow
      <2> QED
          BY <2>1, <2>2 DEF Gentle, Working
<1>8. ASSUME NEW e \in Enforcers, GoesOn(e) \/ Dies(e), ~Kill(e), ~Records(e)
      PROVE  UNCHANGED <<session, agents, raced>>
      BY <1>8 DEF GoesOn, Dies, Begin, BudgetDone, ListsConflicts, Opens, KillFails,
                  Tells, Return, BeginStop, Resolve, work, record
<1>9. CASE UNCHANGED vars
      BY <1>1, <1>9 DEF vars
<1> QED
    BY <1>1, <1>2, <1>3, <1>4, <1>5, <1>6, <1>7, <1>8, <1>9 DEF Next, Others

LEMMA RowsStep ==
  ASSUME TypeOK, EnforcementInv, [Next]_vars
  PROVE  Rows'
<1> SUFFICES ASSUME NEW s \in Sessions
             PROVE  /\ Working(s)' => session'[s].pid # 0
                                      /\ (s \in raced' \/ agents'[s] \subseteq {session'[s].pid})
                    /\ session'[s].state = "stopped" => s \in raced' \/ agents'[s] = {}
    BY DEF Rows
<1>1. /\ Working(s) => session[s].pid # 0 /\ (s \in raced \/ agents[s] \subseteq {session[s].pid})
      /\ session[s].state = "stopped" => s \in raced \/ agents[s] = {}
      BY DEF EnforcementInv, Rows
<1>2. raced \subseteq raced'
      BY SessionsStep DEF EnforcementInv
<1>3. CASE Ends(s)
      <2>1. ~Working(s)' /\ agents'[s] \subseteq agents[s]
            BY <1>3 DEF Ends, Working, TypeOK, SessionRow
      <2>2. session'[s].state = "stopped" => session[s].state = "stopped"
            BY <1>3 DEF Ends, Working, TypeOK, SessionRow
      <2> QED
          BY <1>1, <1>2, <2>1, <2>2
<1>4. CASE Resume(s)
      <2>1. session'[s].state = "active" /\ session'[s].pid \in Pids
            BY <1>4 DEF Resume, TypeOK
      <2>2. s \in raced' \/ agents'[s] \subseteq {session'[s].pid}
            BY <1>4 DEF Resume, TypeOK
      <2> QED
          BY <2>1, <2>2, PidsType
<1>5. CASE Gentle(s)
      <2>1. Working(s)' => session'[s].pid # 0
                           /\ (s \in raced' \/ agents'[s] \subseteq {session'[s].pid})
            BY <1>1, <1>2, <1>5 DEF Gentle
      <2>2. ASSUME session'[s].state = "stopped", session[s].state # "stopped"
            PROVE  s \in raced' \/ agents'[s] = {}
            <3>1. \E e \in Enforcers : Records(e) /\ enforcer[e].serving = s
                  <4> USE DEF work
                  <4>1. ASSUME NEW e \in Enforcers, Records(e) PROVE enforcer[e].serving = s
                        BY <2>2, <4>1 DEF Records, TypeOK
                  <4>2. ASSUME NEW t \in Sessions,
                               Spend(t) \/ Silent(t) \/ Beats(t) \/ Ends(t) \/ Resume(t)
                                 \/ \E p \in Paths, write \in BOOLEAN : Touch(t, p, write)
                        PROVE  FALSE
                        <5>1. CASE Spend(t) \/ \E p \in Paths, write \in BOOLEAN : Touch(t, p, write)
                              BY <2>2, <5>1 DEF Spend, Touch
                        <5>2. CASE Silent(t) \/ Beats(t)
                              BY <2>2, <5>2 DEF Silent, Beats, TypeOK, SessionRow
                        <5>3. CASE Ends(t)
                              BY <2>2, <5>3 DEF Ends, TypeOK, SessionRow
                        <5>4. CASE Resume(t)
                              BY <2>2, <5>4 DEF Resume, TypeOK
                        <5> QED
                            BY <4>2, <5>1, <5>2, <5>3, <5>4
                  <4>3. ASSUME NEW e \in Enforcers, GoesOn(e) \/ Dies(e), ~Records(e)
                        PROVE  session' = session
                        BY <4>3 DEF GoesOn, Dies, Begin, BudgetDone, ListsConflicts, Opens, Kill,
                                    KillFails, Tells, Return, BeginStop, Resolve
                  <4>4. CASE UNCHANGED vars
                        BY <2>2, <4>4 DEF vars
                  <4> QED
                      BY <2>2, <4>1, <4>2, <4>3, <4>4 DEF Next, Others
            <3>2. PICK e \in Enforcers : Records(e) /\ enforcer[e].serving = s
                  BY <3>1
            <3>3. s \in enforcer[e].overtaken \/ s \in raced \/ agents[s] = {}
                  BY <3>2 DEF EnforcementInv, Knows, Records, At
            <3> QED
                BY <3>2, <3>3 DEF Records, work
      <2> QED
          BY <1>1, <1>2, <1>5, <2>1, <2>2 DEF Gentle
<1> QED
    BY <1>3, <1>4, <1>5, SessionsStep DEF EnforcementInv

LEMMA KnowsStep ==
  ASSUME TypeOK, EnforcementInv, [Next]_vars, NEW e \in Enforcers
  PROVE  Knows(e)'
<1> DEFINE x == enforcer[e]
           y == enforcer'[e]
<1>1. /\ TypeOK /\ Shapes /\ Shape(x) /\ Knows(e) /\ Rows
      /\ raced \subseteq raced'
      /\ \A s \in Sessions : Gentle(s) \/ Ends(s) \/ Resume(s)
      BY SessionsStep DEF EnforcementInv, Shapes
<1>2. CASE y = x
      <2>1. ASSUME NEW s \in Sessions PROVE Calm(e, s)
            <3>1. CASE Gentle(s)
                  BY <3>1 DEF Gentle, Calm
            <3>2. CASE Ends(s) \/ Resume(s)
                  BY <3>2, OvertakesIs DEF Ends, Resume, Calm
            <3> QED
                BY <1>1, <3>1, <3>2
      <2> QED
          BY <1>1, <1>2, <2>1, KnowsStays
<1>3. ASSUME NEW t \in Sessions, Ends(t) \/ Resume(t) PROVE Knows(e)'
      <2>1. Overtakes(t)
            BY <1>3 DEF Ends, Resume
      <2>2. /\ y.pc = x.pc /\ y.saw = x.saw /\ y.serving = x.serving /\ y.paused = x.paused
            /\ x.overtaken \subseteq y.overtaken
            BY <2>1, OvertakesIs
      <2>3. ASSUME NEW s \in Sessions PROVE Calm(e, s)
            <3>1. CASE Gentle(s)
                  BY <3>1 DEF Gentle, Calm
            <3>2. CASE Ends(s) \/ Resume(s)
                  BY <3>2, OvertakesIs DEF Ends, Resume, Calm
            <3> QED
                BY <1>1, <3>1, <3>2
      <2> QED
          BY <1>1, <2>2, <2>3, KnowsStays
(* A list that was just made names the processes there are.                *)
<1>4. ASSUME NEW S \in SUBSET Sessions, \A s \in S : Working(s), y.saw = PidsOf(S), y.paused = {},
             y.pc # "record", UNCHANGED <<session, agents, raced>>
      PROVE  Knows(e)'
      <2>1. ASSUME NEW s \in Sessions, y.saw[s] # 0
            PROVE  session[s].state # "completed" /\ (s \in raced \/ agents[s] \subseteq {y.saw[s]})
            <3>1. s \in S /\ y.saw[s] = session[s].pid
                  BY <1>4, <2>1 DEF PidsOf
            <3> QED
                BY <1>1, <1>4, <3>1 DEF Rows, Working
      <2> QED
          BY <1>4, <2>1 DEF Knows
<1>5. CASE Begin(e)
      <2>1. x.pc = "idle" /\ UNCHANGED <<session, agents, raced>>
            BY <1>5 DEF Begin, At, work, record
      <2>2. ToStop \subseteq Sessions /\ \A s \in ToStop : Working(s)
            BY DEF ToStop, Active, Working
      <2>3. x.paused = {}
            BY <1>1, <2>1 DEF Shape
      <2> QED
          BY <1>4, <1>5, <2>1, <2>2, <2>3, BeginIs
<1>6. CASE ListsConflicts(e)
      <2> DEFINE found == Conflicts({s \in Sessions : Working(s)})
      <2>1. x.pc = "list" /\ UNCHANGED <<session, agents, raced>>
            BY <1>6 DEF ListsConflicts, At, work, record
      <2>2. Sides(found) \subseteq Sessions /\ \A s \in Sides(found) : Working(s)
            BY DEF Sides, Conflicts, Conflicting, Conflict
      <2>3. x.paused = {}
            BY <1>1, <2>1 DEF Shape
      <2>4. y.saw = PidsOf(Sides(found)) /\ y.paused = {} /\ y.pc = "resolve"
            BY <1>6, <2>3, ListsIs
      <2> HIDE DEF found
      <2> QED
          BY <1>4, <2>1, <2>2, <2>4
<1>7. CASE BudgetDone(e) \/ KillFails(e) \/ Return(e) \/ Dies(e)
      BY <1>7, PassesOver DEF Fresh, Knows
(* The sessions stay, and the enforcer does not come to a record.          *)
<1>8. ASSUME UNCHANGED <<session, agents, raced>>, Same(x, y), y.pc # "record",
             \A s \in y.paused :
               s \in x.paused \/ (y.pc = "kill" /\ y.serving = s),
             x.pc \notin {"kill", "record"}
      PROVE  Knows(e)'
      <2>1. \A s \in Sessions : Working(s)' <=> Working(s)
            BY <1>8 DEF Working
      <2> QED
          BY <1>1, <1>8 DEF Knows, Same, Working
<1>9. ASSUME NEW s \in Sessions, BeginStop(e, s) PROVE Knows(e)'
      <2>1. x.pc = "stop" /\ UNCHANGED <<session, agents, raced>>
            BY <1>9 DEF BeginStop, At, work, record
      <2> QED
          BY <1>8, <1>9, <2>1, BeginStopIs
<1>10. ASSUME NEW c \in Conflict, Resolve(e, c) PROVE Knows(e)'
       <2>1. x.pc = "resolve" /\ UNCHANGED <<session, agents, raced>>
             BY <1>10 DEF Resolve, At, work, record
       <2> QED
           BY <1>8, <1>10, <2>1, ResolveIs
<1>11. CASE Opens(e)
       <2>1. x.pc = "open" /\ UNCHANGED <<session, agents, raced>>
             BY <1>11 DEF Opens, At, work
       <2> QED
           BY <1>8, <1>11, <2>1, OpensIs
<1>12. CASE Tells(e)
       <2>1. x.pc = "tell" /\ UNCHANGED <<session, agents, raced>>
             BY <1>12 DEF Tells, At, work
       <2> QED
           BY <1>8, <1>12, <2>1, TellsIs
<1>13. CASE Kill(e)
       <2> DEFINE s == x.serving
       <2>1. x.pc = "kill" /\ session' = session /\ raced' = raced
             BY <1>13 DEF Kill, At, record
       <2>2. s \in Sessions /\ x.saw[s] # 0
             BY <1>1, <2>1 DEF Shape, InHand
       <2>3. /\ agents'[s] = agents[s] \ {x.saw[s]}
             /\ \A t \in Sessions : agents'[t] \subseteq agents[t]
             BY <1>13, <2>2 DEF Kill, TypeOK
       <2>4. Same(x, y) /\ y.pc = "record" /\ y.serving = s /\ y.paused = x.paused
             BY <1>13, KillIs
       <2>5. s \in x.overtaken \cup raced \/ agents'[s] = {}
             BY <1>1, <2>2, <2>3 DEF Knows
       <2> QED
           BY <1>1, <2>1, <2>3, <2>4, <2>5 DEF Knows, Same, Working
<1>14. CASE Records(e)
       <2> DEFINE s == x.serving
       <2>1. x.pc = "record" /\ agents' = agents
             BY <1>14 DEF Records, At, work
       <2>2. s \in Sessions
             BY <1>1, <2>1 DEF Shape, InHand
       <2>3. /\ session'[s].state = "stopped"
             /\ \A t \in Sessions : t # s => session'[t] = session[t]
             BY <1>14, <2>2 DEF Records, TypeOK, SessionRow
       <2>4. Same(x, y) /\ y.pc \in {"stop", "tell"} /\ y.paused = x.paused
             BY <1>14, RecordsIs
       <2>5. \A t \in x.paused : ~Working(t)' \/ t \in x.overtaken
             BY <1>1, <2>1, <2>3, PausedType DEF Knows, Working
       <2>6. \A t \in Sessions : session'[t].state = "completed" => session[t].state = "completed"
             BY <2>3
       <2> QED
           BY <1>1, <2>1, <2>4, <2>5, <2>6 DEF Knows, Same
<1>15. ASSUME NEW f \in Enforcers, GoesOn(f) \/ Dies(f), f # e PROVE y = x
       BY <1>15, MovesOnly, PassesOver
       DEF GoesOn, Begin, ListsConflicts, Opens, Kill, Records, Tells, BeginStop, Resolve
<1>16. ASSUME NEW s \in Sessions, Spend(s) \/ Silent(s) \/ Beats(s)
                \/ \E p \in Paths, write \in BOOLEAN : Touch(s, p, write)
       PROVE  y = x
       BY <1>16 DEF Spend, Silent, Beats, Touch
<1>17. CASE UNCHANGED vars
       BY <1>2, <1>17 DEF vars
<1>18. CASE GoesOn(e) \/ Dies(e)
       BY <1>5, <1>6, <1>7, <1>9, <1>10, <1>11, <1>12, <1>13, <1>14, <1>18 DEF GoesOn
<1> QED
    BY <1>2, <1>3, <1>15, <1>16, <1>17, <1>18 DEF Next, Others

LEMMA EnforcementInvariant == Spec => [](TypeOK /\ EnforcementInv)
<1>1. Init => TypeOK /\ EnforcementInv
      BY TypeInit, OrdersInit, ShapesInit, KnowsInit DEF EnforcementInv
<1>2. TypeOK /\ EnforcementInv /\ [Next]_vars => TypeOK'
      BY TypeStep DEF EnforcementInv, Shapes, Shape
<1>3. TypeOK /\ EnforcementInv /\ [Next]_vars => EnforcementInv'
      <2> SUFFICES ASSUME TypeOK, EnforcementInv, [Next]_vars PROVE EnforcementInv'
          OBVIOUS
      <2>1. Rows' /\ \A e \in Enforcers : Knows(e)'
            BY RowsStep, KnowsStep
      <2>2. Orders' /\ Shapes'
            BY OrdersStep, ShapesStep DEF EnforcementInv
      <2> QED
          BY <2>1, <2>2 DEF EnforcementInv
<1> QED
    BY <1>1, <1>2, <1>3, PTL DEF Spec

(* Every variable keeps its type.                                          *)
THEOREM EnforcementTypeCorrect == Spec => []TypeOK
BY EnforcementInvariant, PTL

(* A process outlives the stop of its session only through a race with a   *)
(* resume.                                                                 *)
THEOREM StoppedAgentsRaced == Spec => []StoppedAgentsWereRaced
<1>1. EnforcementInv => StoppedAgentsWereRaced
      BY DEF EnforcementInv, Rows, StoppedAgentsWereRaced
<1> QED
    BY <1>1, EnforcementInvariant, PTL

(* A pass pauses both sides of a conflict only for a conflict on another   *)
(* path, where the other side's turn came.                                 *)
THEOREM OneSideIsKept == Spec => []OneSideGoesOn
<1>1. ASSUME TypeOK, EnforcementInv, NEW e \in Enforcers, NEW c \in enforcer[e].planned,
             c \in Conflict, c.latest \in enforcer[e].paused, c.other \in enforcer[e].paused
      PROVE  \E d \in enforcer[e].planned :
               d.path # c.path /\ (d.latest = c.other \/ d.other = c.latest)
      <2> DEFINE x == enforcer[e]
      <2>1. /\ \A s \in x.paused : \E d \in x.planned : Choice(x.strategy, d).paused = s
            /\ \A d \in x.planned : c.path = d.path => c.latest = d.latest
            /\ x.planned \subseteq Conflict
            BY <1>1, EnforcerType, EnforcerIs DEF EnforcementInv, Shapes, Shape
      <2>2. c.latest # c.other /\ \A d \in Conflict : d.latest # d.other
            BY <1>1 DEF Conflict
      <2>3. CASE x.strategy = "last_write_wins"
            <3>1. PICK d \in x.planned : Choice(x.strategy, d).paused = c.latest
                  BY <1>1, <2>1
            <3>2. d.other = c.latest
                  BY <2>1, <2>3, <3>1, ChoiceType
            <3> QED
                BY <2>1, <2>2, <3>2
      <2>4. CASE x.strategy # "last_write_wins"
            <3>1. PICK d \in x.planned : Choice(x.strategy, d).paused = c.other
                  BY <1>1, <2>1
            <3>2. d.latest = c.other
                  BY <2>1, <2>4, <3>1, ChoiceType
            <3> QED
                BY <2>1, <2>2, <3>2
      <2> QED
          BY <2>3, <2>4
<1>2. TypeOK /\ EnforcementInv => OneSideGoesOn
      BY <1>1 DEF OneSideGoesOn
<1> QED
    BY <1>2, EnforcementInvariant, PTL

(* That a session has completed is overwritten only by an enforcer that    *)
(* listed it before.                                                       *)
THEOREM OutcomesKept == Spec => OutcomeKept
<1> DEFINE Overwritten ==
      \A s \in Sessions :
        session[s].state = "completed" /\ session'[s].state # "completed" =>
          \E e \in Enforcers : /\ enforcer[e].pc = "record" /\ enforcer[e].serving = s
                               /\ s \in enforcer[e].overtaken
<1>1. ASSUME TypeOK, EnforcementInv, [Next]_vars PROVE Overwritten
      <2> SUFFICES ASSUME NEW s \in Sessions, session[s].state = "completed",
                          session'[s].state # "completed"
                   PROVE  \E e \in Enforcers : /\ enforcer[e].pc = "record"
                                               /\ enforcer[e].serving = s
                                               /\ s \in enforcer[e].overtaken
          OBVIOUS
      <2>1. ASSUME NEW e \in Enforcers, Records(e)
            PROVE  /\ enforcer[e].pc = "record" /\ enforcer[e].serving = s
                   /\ s \in enforcer[e].overtaken
            <3>1. enforcer[e].pc = "record" /\ enforcer[e].serving = s
                  BY <1>1, <2>1 DEF Records, At, TypeOK
            <3>2. enforcer[e].saw[s] # 0
                  BY <1>1, <3>1 DEF EnforcementInv, Shapes, Shape, InHand
            <3>3. s \in enforcer[e].overtaken
                  BY <1>1, <3>2 DEF EnforcementInv, Knows
            <3> QED
                BY <3>1, <3>3
      <2>2. ASSUME NEW t \in Sessions, Spend(t) \/ \E p \in Paths, write \in BOOLEAN : Touch(t, p, write)
            PROVE  FALSE
            BY <2>2 DEF Spend, Touch
      <2>3. ASSUME NEW t \in Sessions, Silent(t) \/ Beats(t) PROVE FALSE
            BY <1>1, <2>3 DEF Silent, Beats, Active, TypeOK, SessionRow
      <2>4. ASSUME NEW t \in Sessions, Ends(t) PROVE FALSE
            BY <1>1, <2>4 DEF Ends, Working, TypeOK, SessionRow
      <2>5. ASSUME NEW t \in Sessions, Resume(t) PROVE FALSE
            BY <1>1, <2>5 DEF Resume, TypeOK
      <2>6. ASSUME NEW e \in Enforcers, GoesOn(e) \/ Dies(e), ~Records(e)
            PROVE  session' = session
            BY <2>6 DEF GoesOn, Dies, Begin, BudgetDone, ListsConflicts, Opens, Kill,
                        KillFails, Tells, Return, BeginStop, Resolve
      <2>7. CASE UNCHANGED vars
            BY <2>7 DEF vars
      <2> QED
          BY <1>1, <2>1, <2>2, <2>3, <2>4, <2>5, <2>6, <2>7 DEF Next, Others
<1>2. TypeOK /\ EnforcementInv /\ [Next]_vars => [Overwritten]_vars
      BY <1>1
<1>3. Spec => [][Overwritten]_vars
      BY <1>2, EnforcementInvariant, PTL DEF Spec
<1> QED
    BY <1>3 DEF OutcomeKept

-----------------------------------------------------------------------------
(* Incidents.                                                              *)

(* The session of an open incident does not work, or the enforcer that     *)
(* opened it is about to stop it; and somebody has told, or will.          *)
Stopping(e, i) == enforcer[e].pc \in {"kill", "record"} /\ Carries(e, i)

Settled(i) ==
  /\ \/ ~Working(i.paused)
     \/ i \in excused
     \/ \E e \in Enforcers : Stopping(e, i)
  /\ \/ i \in told
     \/ i \in excused
     \/ \E e \in Enforcers : Carries(e, i)

IncidentsSettled == \A i \in incidents : Settled(i)

LEMMA SettledIs == IncidentsSettled => IncidentsCarriedOut
BY DEF IncidentsSettled, Settled, Stopping, IncidentsCarriedOut

(* An incident that is open stays settled, if no session begins to work    *)
(* and nobody lets go of what it carries.                                  *)
LEMMA StaysSettled ==
  ASSUME NEW i, Settled(i), excused \subseteq excused', told \subseteq told',
         i \in excused' \/ ~Working(i.paused)' \/ Working(i.paused),
         \A e \in Enforcers : Carries(e, i) =>
           \/ Carries(e, i)' /\ (enforcer'[e].pc = enforcer[e].pc \/ Stopping(e, i)')
           \/ Carries(e, i)' /\ ~Working(i.paused)'
           \/ i \in excused'
           \/ i \in told' /\ ~Stopping(e, i)
  PROVE  Settled(i)'
BY DEF Settled, Stopping, Carries

LEMMA HistoryGrows ==
  ASSUME TypeOK, [Next]_vars
  PROVE  excused \subseteq excused' /\ told \subseteq told'
<1> USE DEF record
<1>1. ASSUME NEW e \in Enforcers, GoesOn(e) \/ Dies(e)
      PROVE  excused \subseteq excused' /\ told \subseteq told'
      BY <1>1 DEF GoesOn, Dies, Begin, BudgetDone, ListsConflicts, Opens, Kill, KillFails,
                  Records, Tells, Return, BeginStop, Resolve
<1>2. ASSUME NEW s \in Sessions, Spend(s) \/ Silent(s) \/ Beats(s) \/ Ends(s) \/ Resume(s)
               \/ \E p \in Paths, write \in BOOLEAN : Touch(s, p, write)
      PROVE  excused \subseteq excused' /\ told \subseteq told'
      BY <1>2 DEF Spend, Silent, Beats, Ends, Resume, Touch
<1>3. CASE UNCHANGED vars
      BY <1>3 DEF vars
<1> QED
    BY <1>1, <1>2, <1>3 DEF Next, Others

(* Who carries an incident goes on with it, or has told, or breaks off.    *)
LEMMA CarriesOn ==
  ASSUME TypeOK, EnforcementInv, [Next]_vars, NEW e \in Enforcers, NEW i, Carries(e, i)
  PROVE  \/ Carries(e, i)' /\ (enforcer'[e].pc = enforcer[e].pc \/ Stopping(e, i)')
         \/ Carries(e, i)' /\ ~Working(i.paused)'
         \/ i \in excused'
         \/ i \in told' /\ ~Stopping(e, i)
<1> DEFINE x == enforcer[e]
           y == enforcer'[e]
<1>1. /\ x.pc \in {"kill", "record", "tell"} /\ x.conflict # NoConflict
      /\ i = Choice(x.strategy, x.conflict) /\ i = Chosen(e)
      BY DEF Carries, Chosen
<1>2. ASSUME y.pc = x.pc, y.strategy = x.strategy, y.conflict = x.conflict
      PROVE  Carries(e, i)' /\ y.pc = x.pc
      BY <1>1, <1>2 DEF Carries, Chosen
<1>3. ASSUME NEW s \in Sessions, Ends(s) \/ Resume(s)
      PROVE  y.pc = x.pc /\ y.strategy = x.strategy /\ y.conflict = x.conflict
      BY <1>3, OvertakesIs DEF Ends, Resume
<1>4. ASSUME NEW f \in Enforcers, GoesOn(f) \/ Dies(f), f # e PROVE y = x
      BY <1>4, MovesOnly, PassesOver
      DEF GoesOn, Begin, ListsConflicts, Opens, Kill, Records, Tells, BeginStop, Resolve
<1>5. ASSUME NEW s \in Sessions, Spend(s) \/ Silent(s) \/ Beats(s)
               \/ \E p \in Paths, write \in BOOLEAN : Touch(s, p, write)
      PROVE  y = x
      BY <1>5 DEF Spend, Silent, Beats, Touch
<1>6. CASE Kill(e)
      BY <1>1, <1>6, KillIs DEF Same, Stopping, Carries, Chosen
<1>7. CASE Records(e)
      <2>1. x.pc = "record" /\ x.serving = i.paused /\ x.serving \in Sessions
            BY <1>1, <1>7 DEF Records, At, EnforcementInv, Shapes, Shape, InHand
      <2>2. session'[x.serving].state = "stopped"
            BY <1>7, <2>1 DEF Records, TypeOK, SessionRow
      <2>3. Same(x, y) /\ y.conflict = x.conflict /\ y.pc = "tell"
            BY <1>1, <1>7, RecordsIs
      <2>4. Carries(e, i)'
            BY <1>1, <2>3 DEF Carries, Chosen, Same
      <2> QED
          BY <2>1, <2>2, <2>4 DEF Working
<1>8. CASE KillFails(e) \/ Dies(e)
      BY <1>1, <1>8 DEF KillFails, Dies, Broken
<1>9. CASE Tells(e)
      BY <1>1, <1>9 DEF Tells, At, Stopping
<1>10. CASE Begin(e) \/ BudgetDone(e) \/ ListsConflicts(e) \/ Opens(e) \/ Return(e)
              \/ (\E s \in Sessions : BeginStop(e, s)) \/ (\E c \in Conflict : Resolve(e, c))
       BY <1>1, <1>10
       DEF Begin, BudgetDone, ListsConflicts, Opens, Return, BeginStop, Resolve, At
<1>11. CASE UNCHANGED vars
       BY <1>2, <1>11 DEF vars
<1>12. CASE GoesOn(e)
       BY <1>6, <1>7, <1>8, <1>9, <1>10, <1>12 DEF GoesOn
<1> QED
    BY <1>2, <1>3, <1>4, <1>5, <1>8, <1>11, <1>12 DEF Next, Others

LEMMA IncidentsStep ==
  TypeOK /\ EnforcementInv /\ IncidentsSettled /\ [Next]_vars => IncidentsSettled'
<1> SUFFICES ASSUME TypeOK, EnforcementInv, IncidentsSettled, [Next]_vars, NEW i \in incidents'
             PROVE  Settled(i)'
    BY DEF IncidentsSettled
<1>1. excused \subseteq excused' /\ told \subseteq told'
      BY HistoryGrows
<1>2. CASE i \in incidents
      <2>1. Settled(i) /\ i.paused \in Sessions
            BY <1>2 DEF IncidentsSettled, TypeOK, Incident
      <2>2. i \in excused' \/ ~Working(i.paused)' \/ Working(i.paused)
            <3>1. CASE Gentle(i.paused)
                  BY <3>1 DEF Gentle
            <3>2. CASE Ends(i.paused)
                  BY <2>1, <3>2 DEF Ends, Working, TypeOK, SessionRow
            <3>3. CASE Resume(i.paused)
                  BY <1>2, <3>3 DEF Resume
            <3> QED
                BY <2>1, <3>1, <3>2, <3>3, SessionsStep DEF EnforcementInv
      <2>3. \A e \in Enforcers : Carries(e, i) =>
              \/ Carries(e, i)' /\ (enforcer'[e].pc = enforcer[e].pc \/ Stopping(e, i)')
              \/ Carries(e, i)' /\ ~Working(i.paused)'
              \/ i \in excused'
              \/ i \in told' /\ ~Stopping(e, i)
            BY CarriesOn
      <2> QED
          BY <1>1, <2>1, <2>2, <2>3, StaysSettled
<1>3. CASE i \notin incidents
      <2>1. \E e \in Enforcers : Opens(e) /\ i = Chosen(e)
            <3> USE DEF record
            <3>1. ASSUME NEW e \in Enforcers, GoesOn(e) \/ Dies(e), ~Opens(e)
                  PROVE  incidents' = incidents
                  BY <3>1 DEF GoesOn, Dies, Begin, BudgetDone, ListsConflicts, Kill, KillFails,
                              Records, Tells, Return, BeginStop, Resolve
            <3>2. ASSUME NEW s \in Sessions,
                         Spend(s) \/ Silent(s) \/ Beats(s) \/ Ends(s) \/ Resume(s)
                           \/ \E p \in Paths, write \in BOOLEAN : Touch(s, p, write)
                  PROVE  incidents' = incidents
                  BY <3>2 DEF Spend, Silent, Beats, Ends, Resume, Touch
            <3>3. ASSUME NEW e \in Enforcers, Opens(e) PROVE i = Chosen(e)
                  BY <1>3, <3>3 DEF Opens
            <3>4. CASE UNCHANGED vars
                  BY <1>3, <3>4 DEF vars
            <3> QED
                BY <1>3, <3>1, <3>2, <3>3, <3>4 DEF Next, Others
      <2>2. PICK e \in Enforcers : Opens(e) /\ i = Chosen(e)
            BY <2>1
      <2> DEFINE x == enforcer[e]
                 y == enforcer'[e]
      <2>3. x.pc = "open" /\ x.conflict # NoConflict /\ UNCHANGED session
            BY <2>2 DEF Opens, At, EnforcementInv, Shapes, Shape, InHand
      <2>4. y.strategy = x.strategy /\ y.conflict = x.conflict
            BY <2>2, OpensIs DEF Same
      <2>5. i = Chosen(e)'
            BY <2>2, <2>4 DEF Chosen
      <2>6. CASE i.paused \notin x.paused
            <3>1. y.pc = "kill"
                  BY <2>2, <2>6, OpensIs
            <3> QED
                BY <2>3, <2>4, <2>5, <3>1 DEF Settled, Stopping, Carries
      <2>7. CASE i.paused \in x.paused
            <3>1. y.pc = "tell"
                  BY <2>2, <2>7, OpensIs
            <3>2. ~Working(i.paused)' \/ i \in excused'
                  BY <2>2, <2>3, <2>7 DEF EnforcementInv, Knows, Opens, Working
            <3> QED
                BY <2>3, <2>4, <2>5, <3>1, <3>2 DEF Settled, Carries
      <2> QED
          BY <2>6, <2>7
<1> QED
    BY <1>2, <1>3

(* What an open incident says has been done, or its session was resumed,   *)
(* or the pass that opened it is still at it or broke off.                 *)
THEOREM IncidentsAreCarriedOut == Spec => []IncidentsCarriedOut
<1>1. Init => IncidentsSettled
      BY DEF Init, IncidentsSettled
<1>2. Spec => []IncidentsSettled
      BY <1>1, IncidentsStep, EnforcementInvariant, PTL DEF Spec
<1> QED
    BY <1>2, SettledIs, PTL
=============================================================================

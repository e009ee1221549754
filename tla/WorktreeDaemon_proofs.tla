----------------------- MODULE WorktreeDaemon_proofs -----------------------
(***************************************************************************)
(* Proofs about WorktreeSlots as a daemon alone activates its queue: what  *)
(* is on disk, and what the rows say of the agents at work.                *)
(***************************************************************************)
EXTENDS WorktreeSlots_proofs

(* Activation passes are those of one daemon.                              *)
OneActivator == "activate" \notin Operations /\ \A p, q \in Daemons : p = q

-----------------------------------------------------------------------------
(* What steps do to the process that takes them.                           *)

Turned(p, pc, s, todo) ==
  /\ \A q \in Processes \ {p} : proc'[q] = proc[q]
  /\ proc'[p].pc = pc /\ proc'[p].sess = s /\ proc'[p].todo = todo

Rested(p) == \E pc \in {"idle", "activate"} :
               Turned(p, pc, NoSession, {}) /\ (pc = "activate" => p \in Daemons)

LEMMA GotoTurns ==
  ASSUME Typed, NEW p \in Processes, NEW pc, Goto(p, pc)
  PROVE  Turned(p, pc, proc[p].sess, proc[p].todo) /\ proc'[p].cwd = proc[p].cwd
<1>1. proc[p] \in Process /\ proc \in [Processes -> Process]
      BY DEF Typed, TypeOK
<1> QED
    BY <1>1 DEF Goto, Turned, Process

LEMMA DoneRests ==
  ASSUME Typed, NEW p \in Processes, Done(p)
  PROVE  Rested(p)
BY DEF Typed, TypeOK, Done, Nothing, Rested, Turned

LEMMA EndPruneRests ==
  ASSUME Typed, NEW p \in Processes, EndPrune(p)
  PROVE  Rested(p)
<1> DEFINE d == [Nothing EXCEPT !.pc = IF p \in Daemons THEN "activate" ELSE "idle"]
<1>1. /\ d.pc \in {"activate", "idle"} /\ (d.pc = "activate" => p \in Daemons)
      /\ d.sess = NoSession /\ d.todo = {}
      BY DEF Nothing
<1> HIDE DEF d
<1>2. proc' = [proc EXCEPT ![p] = d] /\ proc \in [Processes -> Process]
      BY DEF EndPrune, d, Typed, TypeOK
<1> QED
    BY <1>1, <1>2 DEF Rested, Turned

(* The requests and passes that begin.                                     *)
LEMMA BeginsTurn ==
  ASSUME Typed, NEW p \in Processes
  PROVE  /\ \A s \in Sessions : BeginQueue(p, s) =>
              /\ Turned(p, IF FreeSlots > 0 THEN "create" ELSE "insert", s, proc[p].todo)
              /\ proc'[p].cwd = "repo"
         /\ \A s \in Sessions : BeginDelete(p, s) =>
              Turned(p, IF s \in attached THEN "discard" ELSE "delete", s, proc[p].todo)
         /\ BeginPrune(p) =>
              Turned(p, "clean", proc[p].sess, {s \in attached : state[s] \in Inactive})
         /\ BeginActivate(p) =>
              \/ Rested(p)
              \/ Turned(p, "next", NoSession,
                        {queue[i] : i \in {j \in DOMAIN queue : j <= FreeSlots}})
<1>1. proc[p] \in Process /\ proc \in [Processes -> Process] /\ Busy(proc[p])
      BY DEF Typed, TypeOK, Grounded
<1>2. ASSUME NEW s \in Sessions, BeginQueue(p, s)
      PROVE  /\ Turned(p, IF FreeSlots > 0 THEN "create" ELSE "insert", s, proc[p].todo)
             /\ proc'[p].cwd = "repo"
      BY <1>1, <1>2 DEF BeginQueue, May, Turned, Process, Busy
<1>3. ASSUME NEW s \in Sessions, BeginDelete(p, s)
      PROVE  Turned(p, IF s \in attached THEN "discard" ELSE "delete", s, proc[p].todo)
      BY <1>1, <1>3 DEF BeginDelete, Turned, Process
<1>4. ASSUME BeginPrune(p)
      PROVE  Turned(p, "clean", proc[p].sess, {s \in attached : state[s] \in Inactive})
      BY <1>1, <1>4 DEF BeginPrune, Turned, Process
<1>5. ASSUME BeginActivate(p)
      PROVE  \/ Rested(p)
             \/ Turned(p, "next", NoSession,
                       {queue[i] : i \in {j \in DOMAIN queue : j <= FreeSlots}})
      <2> DEFINE T == {queue[i] : i \in {j \in DOMAIN queue : j <= FreeSlots}}
                 d == [Nothing EXCEPT !.pc = "next", !.slots = FreeSlots, !.todo = T]
      <2>1. d.pc = "next" /\ d.sess = NoSession /\ d.todo = T
            BY DEF Nothing
      <2>2. Done(p) \/ proc' = [proc EXCEPT ![p] = d]
            BY <1>5 DEF BeginActivate
      <2> HIDE DEF d, T
      <2>3. Rested(p) \/ Turned(p, "next", NoSession, T)
            BY <1>1, <2>1, <2>2, DoneRests DEF Turned
      <2> QED
          BY <2>3 DEF T
<1> QED
    BY <1>2, <1>3, <1>4, <1>5

(* The steps that change more of a process than where it is.               *)
LEMMA StepsTurn ==
  ASSUME Typed, NEW p \in Processes
  PROVE  /\ CreateWorktree(p) =>
              \/ Rested(p) /\ MayFail /\ UNCHANGED disk
              \/ /\ Turned(p, "insert", proc[p].sess, proc[p].todo)
                 /\ proc'[p].cwd = "worktree" /\ AddWorktree(proc[p].sess)
         /\ TakeRequest(p) =>
              \/ Rested(p) /\ UNCHANGED queue
              \/ \E s \in proc[p].todo :
                   \/ /\ Turned(p, "make", s, proc[p].todo \ {s}) /\ UNCHANGED queue
                      /\ state[s] = "Pending" /\ s \notin attached
                   \/ /\ Turned(p, "next", proc[p].sess, proc[p].todo \ {s})
                      /\ queue' = Without(queue, s)
         /\ FailRequest(p) => Rested(p) \/ Turned(p, "next", NoSession, proc[p].todo)
         /\ DequeueStarted(p) => Turned(p, "next", NoSession, proc[p].todo)
         /\ ClearWorktree(p) => Rested(p) \/ Turned(p, "clean", NoSession, proc[p].todo)
<1>1. proc[p] \in Process /\ proc \in [Processes -> Process]
      BY DEF Typed, TypeOK
<1>2. ASSUME CreateWorktree(p)
      PROVE  \/ Rested(p) /\ MayFail /\ UNCHANGED disk
             \/ /\ Turned(p, "insert", proc[p].sess, proc[p].todo)
                /\ proc'[p].cwd = "worktree" /\ AddWorktree(proc[p].sess)
      BY <1>1, <1>2, DoneRests DEF CreateWorktree, Turned, Process
<1>3. ASSUME TakeRequest(p)
      PROVE  \/ Rested(p) /\ UNCHANGED queue
             \/ \E s \in proc[p].todo :
                  \/ /\ Turned(p, "make", s, proc[p].todo \ {s}) /\ UNCHANGED queue
                     /\ state[s] = "Pending" /\ s \notin attached
                  \/ /\ Turned(p, "next", proc[p].sess, proc[p].todo \ {s})
                     /\ queue' = Without(queue, s)
      <2>1. CASE Done(p) /\ UNCHANGED queue
            BY <2>1, DoneRests
      <2>2. ASSUME NEW s \in proc[p].todo,
                   proc' = [proc EXCEPT ![p].pc = "make", ![p].sess = s, ![p].todo = @ \ {s}]
            PROVE  Turned(p, "make", s, proc[p].todo \ {s})
            BY <1>1, <2>2 DEF Turned, Process
      <2>3. ASSUME NEW s \in proc[p].todo, proc' = [proc EXCEPT ![p].todo = @ \ {s}],
                   proc[p].pc = "next"
            PROVE  Turned(p, "next", proc[p].sess, proc[p].todo \ {s})
            BY <1>1, <2>3 DEF Turned, Process
      <2> QED
          BY <1>3, <2>1, <2>2, <2>3 DEF TakeRequest
<1>4. ASSUME proc' = [proc EXCEPT ![p].pc = "next", ![p].sess = NoSession]
      PROVE  Turned(p, "next", NoSession, proc[p].todo)
      BY <1>1, <1>4 DEF Turned, Process
<1>5. ASSUME proc' = [proc EXCEPT ![p].pc = "next", ![p].sess = NoSession, ![p].slots = @ - 1]
      PROVE  Turned(p, "next", NoSession, proc[p].todo)
      BY <1>1, <1>5 DEF Turned, Process
<1>6. ASSUME proc' = [proc EXCEPT ![p].pc = "clean", ![p].sess = NoSession]
      PROVE  Turned(p, "clean", NoSession, proc[p].todo)
      BY <1>1, <1>6 DEF Turned, Process
<1>7. ASSUME FailRequest(p) PROVE Rested(p) \/ Turned(p, "next", NoSession, proc[p].todo)
      BY <1>7, <1>4, DoneRests DEF FailRequest
<1>8. ASSUME DequeueStarted(p) PROVE Turned(p, "next", NoSession, proc[p].todo)
      BY <1>8, <1>5 DEF DequeueStarted
<1>9. ASSUME ClearWorktree(p) PROVE Rested(p) \/ Turned(p, "clean", NoSession, proc[p].todo)
      BY <1>9, <1>6, EndPruneRests DEF ClearWorktree
<1> QED
    BY <1>2, <1>3, <1>7, <1>8, <1>9

(* A cleaning pass skips a session, or takes it up.                        *)
CleansOne(p, s) ==
  \/ Turned(p, "clean", proc[p].sess, proc[p].todo \ {s}) /\ UNCHANGED <<rowVars, run>>
  \/ /\ Turned(p, "remove", s, proc[p].todo \ {s}) /\ s \in attached
     /\ HasRow(s) /\ UNCHANGED <<rowVars, run>>
  \/ /\ \E pc \in {"remove", "clear"} : Turned(p, pc, s, proc[p].todo \ {s})
     /\ state[s] = "Running" /\ KillRecorded(s) /\ Becomes(s, "Stopped")
     /\ UNCHANGED attached

LEMMA CleanTurns ==
  ASSUME Typed, NEW p \in Processes, CleanOne(p)
  PROVE  \/ Rested(p) /\ UNCHANGED <<rowVars, run>>
         \/ \E s \in proc[p].todo : CleansOne(p, s)
<1>1. proc[p] \in Process /\ proc \in [Processes -> Process] /\ proc[p].pc = "clean"
      BY DEF Typed, TypeOK, CleanOne
<1>2. ASSUME NEW s \in proc[p].todo, NEW pc,
             proc' = [proc EXCEPT ![p].pc = pc, ![p].sess = s, ![p].todo = @ \ {s}]
      PROVE  Turned(p, pc, s, proc[p].todo \ {s})
      BY <1>1, <1>2 DEF Turned, Process
<1>3. ASSUME NEW s \in proc[p].todo, proc' = [proc EXCEPT ![p].todo = @ \ {s}]
      PROVE  Turned(p, "clean", proc[p].sess, proc[p].todo \ {s})
      BY <1>1, <1>3 DEF Turned, Process
<1>4. ASSUME EndPrune(p) PROVE Rested(p)
      BY <1>4, EndPruneRests
<1>5. CASE EndPrune(p) /\ UNCHANGED <<rowVars, run>>
      BY <1>4, <1>5
<1>6. ASSUME NEW s \in proc[p].todo, state[s] = "Running", KillRecorded(s), Becomes(s, "Stopped"),
             proc' = [proc EXCEPT ![p].pc = IF s \in attached THEN "remove" ELSE "clear",
                                  ![p].sess = s, ![p].todo = @ \ {s}],
             UNCHANGED attached
      PROVE  CleansOne(p, s)
      <2>1. PICK pc \in {"remove", "clear"} : pc = IF s \in attached THEN "remove" ELSE "clear"
            OBVIOUS
      <2> QED
          BY <1>2, <1>6, <2>1 DEF CleansOne
<1>7. ASSUME NEW s \in proc[p].todo, HasRow(s), s \in attached,
             proc' = [proc EXCEPT ![p].pc = "remove", ![p].sess = s, ![p].todo = @ \ {s}],
             UNCHANGED <<rowVars, run>>
      PROVE  CleansOne(p, s)
      BY <1>2, <1>7 DEF CleansOne
<1>8. ASSUME NEW s \in proc[p].todo, proc' = [proc EXCEPT ![p].todo = @ \ {s}],
             UNCHANGED <<rowVars, run>>
      PROVE  CleansOne(p, s)
      BY <1>3, <1>8 DEF CleansOne
<1> QED
    BY <1>5, <1>6, <1>7, <1>8 DEF CleanOne

-----------------------------------------------------------------------------
(* A session that is marked Failed has no agent at work: whoever marks it  *)
(* has it in hand, and a session in hand has not been launched.            *)

Making == {"create", "insert", "enqueue", "launch", "unlaunch"}
Taking == {"make", "attach", "start", "fail"}

Makes(p, s) == proc[p].sess = s /\ proc[p].pc \in Making
Holds(p, s) == proc[p].sess = s /\ proc[p].pc \in Making \cup Taking
Starts(p, s) == proc[p].sess = s /\ proc[p].pc \in {"launch", "start"}

(* An activation pass, and a session that it may still come to.            *)
Passes(p) == proc[p].pc \in Taking \cup {"activate", "next", "dequeue"}
Lists(p, s) == proc[p].pc \in Taking \cup {"next", "dequeue"} /\ s \in proc[p].todo

InHand ==
  \A p \in Processes, s \in Sessions : Holds(p, s) => \A r \in Runs : ~Launched(r, s)

(* The session a process creates is its own until it is in the queue.      *)
OneMaker ==
  \A p \in Processes, s \in Sessions : Makes(p, s) =>
    /\ ~Queued(s)
    /\ \A q \in Processes : ~Lists(q, s) /\ (Holds(q, s) => q = p)

(* What was launched holds its slot as long as it waits to start.          *)
HasSlot ==
  \A s \in Sessions : state[s] = "Pending" =>
    /\ \A r \in Runs : Launched(r, s) => s \in attached
    /\ \A p \in Processes : Starts(p, s) => s \in attached

HandInv ==
  /\ InHand /\ OneMaker /\ HasSlot
  /\ \A p \in Processes : Passes(p) => p \in Daemons
  /\ FailedHasNoAgent

LEMMA HandInit == Init => HandInv
<1> SUFFICES ASSUME Init PROVE HandInv
    OBVIOUS
<1>1. \A p \in Processes : proc[p] = Nothing /\ Nothing.pc = "idle"
      BY DEF Init, Nothing
<1>2. \A r \in Runs : run[r].pc = "unused"
      BY DEF Init
<1>3. InHand /\ OneMaker /\ \A p \in Processes : ~Passes(p)
      BY <1>1 DEF InHand, OneMaker, Holds, Makes, Passes, Making, Taking
<1>4. HasSlot /\ FailedHasNoAgent
      BY <1>1, <1>2 DEF HasSlot, Starts, Launched, FailedHasNoAgent
<1> QED
    BY <1>3, <1>4 DEF HandInv

(* What most steps do: no process takes up a session to launch it, nothing *)
(* is launched, and no slot is taken from a session that waits.            *)
HandsGoOn ==
  /\ \A q \in Processes, s \in Sessions :
       /\ Makes(q, s)' => Makes(q, s)
       /\ Holds(q, s)' => Holds(q, s)
       /\ Lists(q, s)' => Lists(q, s)
       /\ Starts(q, s)' /\ state'[s] = "Pending" => Starts(q, s) \/ s \in attached'
  /\ \A q \in Processes : Passes(q)' => q \in Daemons

LaunchedGoOn == \A r \in Runs, s \in Sessions : Launched(r, s)' => Launched(r, s)

SlotsGoOn == \A s \in Sessions : s \in attached /\ state'[s] = "Pending" => s \in attached'

LEMMA HandsStay ==
  ASSUME HandInv, RowsGoOn, QueueGoesOn, HandsGoOn, LaunchedGoOn, SlotsGoOn, FailedHasNoAgent'
  PROVE  HandInv'
<1>1. InHand'
      BY DEF HandInv, InHand, HandsGoOn, LaunchedGoOn
<1>2. OneMaker'
      <2>1. \A s \in Sessions : Queued(s)' => Queued(s)
            BY DEF QueueGoesOn, Queued
      <2> QED
          BY <2>1 DEF HandInv, OneMaker, HandsGoOn
<1>3. HasSlot'
      BY DEF HandInv, HasSlot, HandsGoOn, LaunchedGoOn, SlotsGoOn, RowsGoOn
<1> QED
    BY <1>1, <1>2, <1>3 DEF HandInv, HandsGoOn

(* A process that takes up no session to launch it.                        *)
LEMMA TurnedGoesOn ==
  ASSUME Typed, HandInv, NEW p \in Processes, NEW pc, NEW s, NEW todo, Turned(p, pc, s, todo),
         pc \in Making => proc[p].pc \in Making /\ s = proc[p].sess,
         pc \in Taking => proc[p].pc \in Taking /\ s = proc[p].sess,
         pc \in Taking \cup {"next", "dequeue"} => Passes(p),
         pc \in Taking \cup {"next", "dequeue"} =>
           proc[p].pc \in Taking \cup {"next", "dequeue"} /\ todo \subseteq proc[p].todo,
         pc = "activate" => p \in Daemons,
         pc \in {"launch", "start"} => \A t \in Sessions :
           t = s /\ state'[t] = "Pending" => Starts(p, t) \/ t \in attached'
  PROVE  HandsGoOn
<1>1. ASSUME NEW q \in Processes, NEW t \in Sessions
      PROVE  /\ Makes(q, t)' => Makes(q, t)
             /\ Holds(q, t)' => Holds(q, t)
             /\ Lists(q, t)' => Lists(q, t)
             /\ Starts(q, t)' /\ state'[t] = "Pending" => Starts(q, t) \/ t \in attached'
      <2>1. CASE q = p
            BY <2>1 DEF Turned, Makes, Holds, Lists, Starts, Making, Taking
      <2>2. CASE q # p
            BY <2>2 DEF Turned, Makes, Holds, Lists, Starts
      <2> QED
          BY <2>1, <2>2
<1>2. ASSUME NEW q \in Processes, Passes(q)' PROVE q \in Daemons
      <2>1. CASE q = p
            BY <1>2, <2>1 DEF Turned, Passes, HandInv
      <2>2. CASE q # p
            BY <1>2, <2>2 DEF Turned, Passes, HandInv
      <2> QED
          BY <2>1, <2>2
<1> QED
    BY <1>1, <1>2 DEF HandsGoOn

LEMMA RestedGoesOn ==
  ASSUME Typed, HandInv, NEW p \in Processes, Rested(p)
  PROVE  HandsGoOn
BY TurnedGoesOn DEF Rested, Making, Taking

LEMMA SameHands ==
  /\ UNCHANGED proc => (HandInv => HandsGoOn)
  /\ UNCHANGED run => LaunchedGoOn
  /\ UNCHANGED <<run, state>> => (HandInv => FailedHasNoAgent')
  /\ UNCHANGED attached => SlotsGoOn
BY DEF HandsGoOn, LaunchedGoOn, FailedHasNoAgent, SlotsGoOn, HandInv, Makes, Holds, Lists,
   Starts, Passes, Launched

(* Nobody marks a session Failed whose agent is at work.                   *)
AgentsGoOn ==
  \A r \in Runs : run'[r].pc = "working" =>
    run[r].pc = "working" /\ run'[r].sess = run[r].sess

FailsUnlaunched ==
  \A s \in Sessions : state'[s] = "Failed" =>
    state[s] = "Failed" \/ \A r \in Runs : ~Launched(r, s)

LEMMA NoAgentFails ==
  ASSUME Typed, HandInv, AgentsGoOn, FailsUnlaunched
  PROVE  FailedHasNoAgent'
BY DEF Typed, Grounded, HandInv, FailedHasNoAgent, AgentsGoOn, FailsUnlaunched, Launched

LEMMA KillGoesQuiet ==
  ASSUME Typed, NEW s \in Sessions, KillRecorded(s)
  PROVE  AgentsGoOn /\ LaunchedGoOn
<1>1. RunsGoOn
      BY KillGoesOn
<1>2. run \in [Runs -> Run] /\ (pid[s] # NoRun => pid[s] \in Runs)
      BY DEF Typed, TypeOK
<1>3. \A r \in Runs : run'[r] = run[r] \/ run'[r].pc = "over"
      BY <1>2 DEF KillRecorded, Run
<1> QED
    BY <1>1, <1>3 DEF AgentsGoOn, LaunchedGoOn, Launched, RunsGoOn

LEMMA BecomesQuiet ==
  ASSUME Typed, NEW s \in Sessions,
         NEW to \in {"Running", "Stale", "Completed", "Failed", "Stopped"}, Becomes(s, to)
  PROVE  /\ RowsGoOn
         /\ to # "Failed" \/ (\A r \in Runs : ~Launched(r, s)) => FailsUnlaunched
<1>1. RowsGoOn
      BY BecomesGoesOn
<1>2. \A t \in Sessions : state'[t] = state[t] \/ (t = s /\ state'[t] = to)
      BY DEF Becomes, Typed, TypeOK
<1> QED
    BY <1>1, <1>2 DEF FailsUnlaunched

LEMMA SameQuiet ==
  /\ UNCHANGED run => AgentsGoOn
  /\ UNCHANGED state => FailsUnlaunched
BY DEF AgentsGoOn, FailsUnlaunched

(* Steps that leave rows, queue and runs alone.                            *)
LEMMA StillHands ==
  ASSUME Typed, HandInv, UNCHANGED <<state, queue, run>>, HandsGoOn, SlotsGoOn
  PROVE  HandInv'
BY HandsStay, SameGoesOn, SameHands

LEMMA CalmHands ==
  ASSUME Typed, LaunchInv, HandInv, NEW p \in Processes,
         \/ \E s \in Sessions : BeginDelete(p, s)
         \/ BeginPrune(p) \/ CreateWorktree(p) \/ RemoveUnlaunched(p) \/ MakeWorktree(p)
         \/ AttachWorktree(p) \/ RemoveOne(p) \/ ClearWorktree(p)
  PROVE  HandInv'
<1>1. ASSUME NEW s \in Sessions, BeginDelete(p, s) PROVE HandInv'
      <2>1. \E pc \in {"discard", "delete"} : Turned(p, pc, s, proc[p].todo)
            BY <1>1, BeginsTurn
      <2>2. HandsGoOn
            BY <2>1, TurnedGoesOn DEF Making, Taking
      <2> QED
          BY <1>1, <2>2, StillHands, SameHands DEF BeginDelete, rowVars
<1>2. CASE BeginPrune(p)
      <2>1. HandsGoOn
            BY <1>2, BeginsTurn, TurnedGoesOn DEF Making, Taking
      <2> QED
          BY <1>2, <2>1, StillHands, SameHands DEF BeginPrune, rowVars
<1>3. CASE CreateWorktree(p)
      <2>1. proc[p].pc = "create"
            BY <1>3 DEF CreateWorktree
      <2>2. HandsGoOn
            BY <1>3, <2>1, StepsTurn, RestedGoesOn, TurnedGoesOn DEF Making, Taking
      <2> QED
          BY <1>3, <2>2, StillHands, SameHands DEF CreateWorktree, rowVars
<1>4. CASE RemoveUnlaunched(p)
      BY <1>4, DoneRests, RestedGoesOn, StillHands, SameHands DEF RemoveUnlaunched, rowVars
<1>5. CASE MakeWorktree(p)
      <2>1. proc[p].pc = "make" /\ (Goto(p, "attach") \/ Goto(p, "fail"))
            BY <1>5 DEF MakeWorktree
      <2>2. HandsGoOn
            BY <2>1, GotoTurns, TurnedGoesOn DEF Making, Taking, Passes
      <2> QED
          BY <1>5, <2>2, StillHands, SameHands DEF MakeWorktree, rowVars
<1>6. CASE AttachWorktree(p)
      <2>1. proc[p].pc = "attach" /\ UNCHANGED <<state, queue, run>>
            BY <1>6 DEF AttachWorktree
      <2>2. CASE Done(p) /\ UNCHANGED attached
            BY <2>1, <2>2, DoneRests, RestedGoesOn, StillHands, SameHands
      <2>3. CASE Goto(p, "start") /\ attached' = attached \cup {proc[p].sess}
            <3>1. HandsGoOn
                  BY <2>1, <2>3, GotoTurns, TurnedGoesOn DEF Making, Taking, Passes
            <3>2. SlotsGoOn
                  BY <2>3 DEF SlotsGoOn
            <3> QED
                BY <2>1, <3>1, <3>2, StillHands
      <2> QED
          BY <1>6, <2>2, <2>3 DEF AttachWorktree
<1>7. CASE RemoveOne(p)
      <2>1. \E pc \in {"clear", "delete"} : Goto(p, pc)
            BY <1>7 DEF RemoveOne
      <2>2. HandsGoOn
            BY <2>1, GotoTurns, TurnedGoesOn DEF Making, Taking
      <2> QED
          BY <1>7, <2>2, StillHands, SameHands DEF RemoveOne, rowVars
<1>8. CASE ClearWorktree(p)
      <2>1. HandsGoOn
            BY <1>8, StepsTurn, RestedGoesOn, TurnedGoesOn DEF Making, Taking
      <2>2. proc[p].pc = "clear" /\ Past(proc[p].sess)
            BY <1>8 DEF ClearWorktree, LaunchInv, Cleans
      <2>3. SlotsGoOn
            BY <1>8, <2>2 DEF ClearWorktree, SlotsGoOn, Past
      <2> QED
          BY <1>8, <2>1, <2>3, StillHands DEF ClearWorktree
<1> QED
    BY <1>1, <1>2, <1>3, <1>4, <1>5, <1>6, <1>7, <1>8

(* Steps that mark a session Failed or Deleted, or drop a request.         *)
LEMMA MarksHands ==
  ASSUME Typed, LaunchInv, HandInv, NEW p \in Processes,
         FailLaunch(p) \/ FailRequest(p) \/ DequeueStarted(p) \/ DeleteRow(p) \/ CleanOne(p)
  PROVE  HandInv'
<1>1. CASE FailLaunch(p) \/ FailRequest(p)
      <2>1. PICK s \in Sessions : s = proc[p].sess
            BY <1>1 DEF FailLaunch, FailRequest, Typed, Grounded, Busy
      <2>2. \A r \in Runs : ~Launched(r, s)
            BY <1>1, <2>1 DEF FailLaunch, FailRequest, HandInv, InHand, Holds, Making, Taking
      <2>3. Becomes(s, "Failed") /\ UNCHANGED <<attached, run>>
            BY <1>1, <2>1 DEF FailLaunch, FailRequest
      <2>4. HandsGoOn
            <3>1. CASE FailLaunch(p)
                  <4>1. Goto(p, "undo") \/ Done(p)
                        BY <3>1 DEF FailLaunch
                  <4> QED
                      BY <4>1, GotoTurns, DoneRests, RestedGoesOn, TurnedGoesOn DEF Making, Taking
            <3>2. CASE FailRequest(p)
                  <4>1. proc[p].pc = "fail"
                        BY <3>2 DEF FailRequest
                  <4> QED
                      BY <3>2, <4>1, StepsTurn, RestedGoesOn, TurnedGoesOn
                      DEF Making, Taking, Passes
            <3> QED
                BY <1>1, <3>1, <3>2
      <2>5. QueueGoesOn
            BY <1>1, <2>1, SameGoesOn, WithoutGoesOn DEF FailLaunch, FailRequest
      <2>6. RowsGoOn /\ FailsUnlaunched
            BY <2>2, <2>3, BecomesQuiet
      <2> QED
          BY <2>3, <2>4, <2>5, <2>6, HandsStay, SameHands, SameQuiet, NoAgentFails
<1>2. CASE DequeueStarted(p)
      <2>1. proc[p].pc = "dequeue" /\ UNCHANGED <<state, attached, run>>
            BY <1>2 DEF DequeueStarted, rowVars
      <2>2. HandsGoOn
            BY <1>2, <2>1, StepsTurn, TurnedGoesOn DEF Making, Taking, Passes
      <2>3. PICK s : s = proc[p].sess
            OBVIOUS
      <2>4. QueueGoesOn
            BY <1>2, <2>3, WithoutGoesOn DEF DequeueStarted
      <2> QED
          BY <2>1, <2>2, <2>4, HandsStay, SameGoesOn, SameHands
<1>3. CASE DeleteRow(p)
      <2>1. PICK s \in Sessions : s = proc[p].sess /\ Past(s)
            BY <1>3 DEF DeleteRow, Typed, Grounded, Busy, LaunchInv, Cleans
      <2>2. HandsGoOn
            BY <1>3, DoneRests, RestedGoesOn DEF DeleteRow
      <2>3. UNCHANGED run /\ QueueGoesOn
            BY <1>3, <2>1, SameGoesOn, WithoutGoesOn DEF DeleteRow
      <2>4. \A t \in Sessions : state'[t] = state[t] \/ (t = s /\ state'[t] = "Deleted")
            BY <1>3, <2>1 DEF DeleteRow, Typed, TypeOK
      <2>5. RowsGoOn /\ FailsUnlaunched
            BY <2>1, <2>4 DEF RowsGoOn, FailsUnlaunched, Past
      <2>6. SlotsGoOn
            BY <1>3, <2>1, <2>5 DEF DeleteRow, SlotsGoOn, RowsGoOn, Past
      <2> QED
          BY <2>2, <2>3, <2>5, <2>6, HandsStay, SameHands, SameQuiet, NoAgentFails
<1>4. CASE CleanOne(p)
      <2>1. UNCHANGED <<queue, disk>> /\ proc[p].todo \subseteq Sessions
            BY <1>4 DEF CleanOne, Typed, TypeOK, Process
      <2>2. CASE Rested(p) /\ UNCHANGED <<rowVars, run>>
            BY <2>1, <2>2, RestedGoesOn, StillHands, SameHands DEF rowVars
      <2>3. ASSUME NEW s \in proc[p].todo, CleansOne(p, s) PROVE HandInv'
            <3>1. HandsGoOn
                  BY <2>3, TurnedGoesOn DEF CleansOne, Making, Taking
            <3>2. CASE UNCHANGED <<rowVars, run>>
                  BY <2>1, <3>1, <3>2, StillHands, SameHands DEF rowVars
            <3>3. CASE KillRecorded(s) /\ Becomes(s, "Stopped") /\ UNCHANGED attached
                  BY <2>1, <3>1, <3>3, HandsStay, SameGoesOn, SameHands, KillGoesQuiet,
                     BecomesQuiet, NoAgentFails
            <3> QED
                BY <2>3, <3>2, <3>3 DEF CleansOne
      <2> QED
          BY <1>4, <2>2, <2>3, CleanTurns
<1> QED
    BY <1>1, <1>2, <1>3, <1>4

(* Runs, stops and sweeps.                                                 *)
LEMMA RunsHands ==
  ASSUME Typed, LaunchInv, HandInv,
         \/ \E r \in Runs : RunChecks(r) \/ RunStarts(r) \/ RunEnds(r) \/ OrphanEnds(r)
         \/ \E s \in Sessions : Stop(s) \/ GoesStale(s)
         \/ \E p \in Processes : ProcessCrash(p)
         \/ UNCHANGED vars
  PROVE  HandInv'
<1>1. ASSUME NEW r \in Runs, RunChecks(r) PROVE HandInv'
      <2>1. /\ run[r] \in Run /\ run \in [Runs -> Run] /\ run[r].pc = "starting"
            /\ UNCHANGED <<state, attached, queue, proc>>
            BY <1>1 DEF RunChecks, rowVars, Typed, TypeOK
      <2>2. /\ \A q \in Runs \ {r} : run'[q] = run[q]
            /\ run'[r].sess = run[r].sess /\ run'[r].pc \in {"spawning", "over"}
            BY <1>1, <2>1 DEF RunChecks, Run
      <2>3. AgentsGoOn /\ LaunchedGoOn
            BY <2>1, <2>2 DEF AgentsGoOn, LaunchedGoOn, Launched
      <2> QED
          BY <2>1, <2>3, HandsStay, SameGoesOn, SameHands, SameQuiet, NoAgentFails
<1>2. ASSUME NEW r \in Runs, RunStarts(r) PROVE HandInv'
      <2>1. PICK s \in Sessions : s = run[r].sess
            BY <1>2 DEF RunStarts, Typed, Grounded
      <2>2. /\ run[r] \in Run /\ run \in [Runs -> Run] /\ run[r].pc = "spawning"
            /\ UNCHANGED <<attached, queue, proc>>
            BY <1>2 DEF RunStarts, Typed, TypeOK
      <2>3. PICK to \in {"Running", "Failed"} :
              /\ Becomes(s, to)
              /\ \/ /\ to = "Running" /\ HasRow(s) /\ CanTransition(state[s], "Running")
                    /\ run' = [run EXCEPT ![r].pc = "working"]
                 \/ \E pc \in {"orphan", "over"} : run' = [run EXCEPT ![r].pc = pc]
            BY <1>2, <2>1 DEF RunStarts
      <2>4. /\ \A q \in Runs \ {r} : run'[q] = run[q]
            /\ run'[r].sess = s /\ run'[r].pc \in {"working", "orphan", "over"}
            /\ run'[r].pc = "working" => state'[s] = "Running"
            BY <2>1, <2>2, <2>3 DEF Run, Becomes, Typed, TypeOK
      <2>5. RowsGoOn /\ \A t \in Sessions \ {s} : state'[t] = state[t]
            BY <2>3, BecomesGoesOn DEF Becomes, Typed, TypeOK
      <2>6. \A q \in Runs \ {r} : run[q].pc = "working" => run[q].sess \in Sessions \ {s}
            BY <2>1, <2>2 DEF LaunchInv, OneGoes, Going, Typed, Grounded
      <2>7. FailedHasNoAgent'
            BY <2>4, <2>5, <2>6 DEF HandInv, FailedHasNoAgent
      <2>8. LaunchedGoOn
            BY <2>1, <2>2, <2>4 DEF LaunchedGoOn, Launched
      <2> QED
          BY <2>2, <2>5, <2>7, <2>8, HandsStay, SameGoesOn, SameHands
<1>3. ASSUME NEW r \in Runs, RunEnds(r) PROVE HandInv'
      <2>1. PICK s \in Sessions : s = run[r].sess
            BY <1>3 DEF RunEnds, Typed, Grounded
      <2>2. /\ run[r] \in Run /\ run \in [Runs -> Run] /\ run[r].pc = "working"
            /\ run' = [run EXCEPT ![r].pc = "over"] /\ UNCHANGED <<attached, queue, proc>>
            BY <1>3 DEF RunEnds, Typed, TypeOK
      <2>3. run'[r].pc = "over" /\ \A q \in Runs \ {r} : run'[q] = run[q]
            BY <2>2 DEF Run
      <2>4. \E to \in {"Completed", "Failed"} : Becomes(s, to)
            BY <1>3, <2>1 DEF RunEnds
      <2>5. RowsGoOn /\ \A t \in Sessions \ {s} : state'[t] = state[t]
            BY <2>4, BecomesGoesOn DEF Becomes, Typed, TypeOK
      <2>6. \A q \in Runs \ {r} : run[q].pc = "working" => run[q].sess \in Sessions \ {s}
            BY <2>1, <2>2 DEF LaunchInv, OneGoes, Going, Typed, Grounded
      <2>7. FailedHasNoAgent'
            BY <2>3, <2>5, <2>6 DEF HandInv, FailedHasNoAgent
      <2>8. LaunchedGoOn
            BY <2>3 DEF LaunchedGoOn, Launched
      <2> QED
          BY <2>2, <2>5, <2>7, <2>8, HandsStay, SameGoesOn, SameHands
<1>4. ASSUME NEW r \in Runs, OrphanEnds(r) PROVE HandInv'
      <2>1. /\ run[r] \in Run /\ run \in [Runs -> Run]
            /\ run' = [run EXCEPT ![r].pc = "over"] /\ UNCHANGED <<state, attached, queue, proc>>
            BY <1>4 DEF OrphanEnds, Typed, TypeOK, rowVars
      <2>2. \A q \in Runs : run'[q] = run[q] \/ run'[q].pc = "over"
            BY <2>1 DEF Run
      <2>3. AgentsGoOn /\ LaunchedGoOn
            BY <2>2 DEF AgentsGoOn, LaunchedGoOn, Launched
      <2> QED
          BY <2>1, <2>3, HandsStay, SameGoesOn, SameHands, SameQuiet, NoAgentFails
<1>5. ASSUME NEW s \in Sessions, Stop(s) PROVE HandInv'
      BY <1>5, HandsStay, SameGoesOn, SameHands, KillGoesQuiet, BecomesQuiet, NoAgentFails DEF Stop
<1>6. ASSUME NEW s \in Sessions, GoesStale(s) PROVE HandInv'
      BY <1>6, HandsStay, SameGoesOn, SameHands, SameQuiet, BecomesQuiet, NoAgentFails
      DEF GoesStale
<1>7. ASSUME NEW p \in Processes, ProcessCrash(p) PROVE HandInv'
      <2>1. HandsGoOn /\ UNCHANGED <<state, attached, queue>>
            BY <1>7, DoneRests, RestedGoesOn DEF ProcessCrash, rowVars
      <2>2. run \in [Runs -> Run]
            BY DEF Typed, TypeOK
      <2>3. \A r \in Runs :
              /\ run'[r].sess = run[r].sess
              /\ run'[r].pc # run[r].pc =>
                   \/ run'[r].pc = "over"
                   \/ run[r].pc = "working" /\ run'[r].pc = "orphan"
            BY <1>7, <2>2 DEF ProcessCrash, Run
      <2>4. AgentsGoOn /\ LaunchedGoOn
            BY <2>3 DEF AgentsGoOn, LaunchedGoOn, Launched
      <2> QED
          BY <2>1, <2>4, HandsStay, SameGoesOn, SameHands, SameQuiet, NoAgentFails
<1>8. CASE UNCHANGED vars
      BY <1>8, StillHands, SameHands DEF vars
<1> QED
    BY <1>1, <1>2, <1>3, <1>4, <1>5, <1>6, <1>7, <1>8

(* The steps that take up a session, or launch it.                         *)
LEMMA BeginQueueHands ==
  ASSUME Typed, LaunchInv, HandInv, NEW p \in Processes, NEW s \in Sessions, BeginQueue(p, s)
  PROVE  HandInv'
<1>1. /\ state[s] = "NotCreated" /\ \A q \in Processes : proc[q].sess # s
      /\ UNCHANGED <<state, attached, queue, run>>
      BY DEF BeginQueue, rowVars
<1>2. \E pc \in {"create", "insert"} : Turned(p, pc, s, proc[p].todo)
      BY BeginsTurn
<1>3. /\ ~Queued(s) /\ \A r \in Runs : run[r].sess # s
      /\ \A q \in Processes : s \notin proc[q].todo
      BY <1>1 DEF LaunchInv, NewApart
<1>4. \A q \in Processes, t \in Sessions :
        /\ Makes(q, t)' => Makes(q, t) \/ (q = p /\ t = s)
        /\ Holds(q, t)' => Holds(q, t) \/ (q = p /\ t = s)
        /\ Lists(q, t)' => Lists(q, t)
        /\ Starts(q, t)' => Starts(q, t)
        /\ Passes(q)' => Passes(q)
      BY <1>2 DEF Turned, Makes, Holds, Lists, Starts, Passes, Making, Taking
<1>5. \A q \in Processes : ~Makes(q, s) /\ ~Holds(q, s) /\ ~Lists(q, s)
      BY <1>1, <1>3 DEF Makes, Holds, Lists
<1>6. InHand'
      BY <1>1, <1>3, <1>4 DEF HandInv, InHand, Launched
<1>7. OneMaker'
      BY <1>1, <1>3, <1>4, <1>5 DEF HandInv, OneMaker, Queued
<1>8. HasSlot'
      BY <1>1, <1>4 DEF HandInv, HasSlot, Launched
<1> QED
    BY <1>1, <1>4, <1>6, <1>7, <1>8 DEF HandInv, FailedHasNoAgent

LEMMA InsertSessionHands ==
  ASSUME Typed, LaunchInv, HandInv, NEW p \in Processes, InsertSession(p)
  PROVE  HandInv'
<1>1. PICK s \in Sessions : s = proc[p].sess
      BY DEF InsertSession, Typed, Grounded, Busy
<1>2. /\ proc[p].pc = "insert" /\ state[s] = "NotCreated"
      /\ state' = [state EXCEPT ![s] = "Pending"]
      /\ attached' = IF proc[p].cwd = "worktree" THEN attached \cup {s} ELSE attached
      /\ UNCHANGED <<queue, run>>
      BY <1>1 DEF InsertSession, LaunchInv, Creates
<1>3. \A t \in Sessions \ {s} : state'[t] = state[t]
      BY <1>2 DEF Typed, TypeOK
<1>4. Turned(p, IF proc[p].cwd = "worktree" THEN "launch" ELSE "enqueue", s, proc[p].todo)
      BY <1>1, GotoTurns DEF InsertSession
<1>5. /\ \A r \in Runs : run[r].sess # s
      /\ \A q \in Processes \ {p} : proc[q].sess # s
      BY <1>1, <1>2 DEF LaunchInv, NewApart
<1>6. \A q \in Processes, t \in Sessions :
        /\ Makes(q, t)' => Makes(q, t)
        /\ Holds(q, t)' => Holds(q, t)
        /\ Lists(q, t)' => Lists(q, t)
        /\ Starts(q, t)' => Starts(q, t) \/ t \in attached'
        /\ Passes(q)' => Passes(q)
      BY <1>1, <1>2, <1>4 DEF Turned, Makes, Holds, Lists, Starts, Passes, Making, Taking
<1>7. \A q \in Processes : ~Starts(q, s)
      BY <1>1, <1>2, <1>5 DEF Starts
<1>8. InHand' /\ OneMaker'
      BY <1>2, <1>6 DEF HandInv, InHand, OneMaker, Queued, Launched
<1>9. ASSUME NEW t \in Sessions, state'[t] = "Pending"
      PROVE  /\ \A r \in Runs : Launched(r, t)' => t \in attached'
             /\ \A q \in Processes : Starts(q, t)' => t \in attached'
      <2>1. CASE t = s
            BY <1>2, <1>5, <1>6, <1>7, <2>1 DEF Launched
      <2>2. CASE t # s
            BY <1>2, <1>3, <1>6, <1>9, <2>2 DEF Launched, HandInv, HasSlot
      <2> QED
          BY <2>1, <2>2
<1>10. FailedHasNoAgent'
      <2> SUFFICES ASSUME NEW r \in Runs, run[r].pc = "working"
                   PROVE  state'[run[r].sess] # "Failed"
          BY <1>2 DEF FailedHasNoAgent
      <2> QED
          BY <1>3, <1>5 DEF HandInv, FailedHasNoAgent, Typed, Grounded
<1> QED
    BY <1>6, <1>8, <1>9, <1>10 DEF HandInv, HasSlot

LEMMA EnqueueRequestHands ==
  ASSUME Typed, LaunchInv, HandInv, NEW p \in Processes, EnqueueRequest(p)
  PROVE  HandInv'
<1>1. PICK s \in Sessions : s = proc[p].sess
      BY DEF EnqueueRequest, Typed, Grounded, Busy
<1>2. UNCHANGED <<state, attached, run>> /\ Rested(p) /\ proc[p].pc = "enqueue"
      BY DoneRests DEF EnqueueRequest, rowVars
<1>3. \A t \in Sessions : Queued(t)' => Queued(t) \/ t = s
      BY <1>1 DEF EnqueueRequest, Queued, Typed, TypeOK
<1>4. HandsGoOn /\ ~Holds(p, s)'
      BY <1>2, RestedGoesOn DEF Rested, Turned, Holds, Making, Taking
<1>5. Makes(p, s)
      BY <1>1, <1>2 DEF Makes, Making
<1>6. \A q \in Processes : ~Makes(q, s)'
      BY <1>4, <1>5 DEF HandsGoOn, HandInv, OneMaker, Makes, Holds
<1>7. OneMaker'
      BY <1>3, <1>4, <1>6 DEF HandInv, OneMaker, HandsGoOn
<1>8. InHand' /\ HasSlot'
      BY <1>2, <1>4 DEF HandInv, InHand, HasSlot, HandsGoOn, Launched
<1> QED
    BY <1>2, <1>4, <1>7, <1>8 DEF HandInv, HandsGoOn, FailedHasNoAgent

LEMMA ActivationHands ==
  ASSUME Typed, LaunchInv, HandInv, OneActivator, NEW p \in Processes,
         BeginActivate(p) \/ TakeRequest(p)
  PROVE  HandInv'
<1>1. proc[p].pc \in {"activate", "next"}
      BY DEF BeginActivate, TakeRequest, May, OneActivator
<1>2. p \in Daemons /\ UNCHANGED <<state, attached, run>>
      BY <1>1 DEF HandInv, Passes, BeginActivate, TakeRequest, rowVars
<1>3. CASE BeginActivate(p)
      <2>1. CASE Rested(p)
            BY <1>3, <2>1, RestedGoesOn, StillHands, SameHands DEF BeginActivate, rowVars
      <2>2. ASSUME NEW todo, todo = {queue[i] : i \in {j \in DOMAIN queue : j <= FreeSlots}},
                   Turned(p, "next", NoSession, todo)
            PROVE  HandInv'
            <3>1. UNCHANGED queue /\ \A t \in todo : Queued(t)
                  BY <1>3, <2>2 DEF BeginActivate, Queued
            <3>2. \A q \in Processes, t \in Sessions :
                    /\ Makes(q, t)' => Makes(q, t)
                    /\ Holds(q, t)' => Holds(q, t)
                    /\ Lists(q, t)' => Lists(q, t) \/ Queued(t)
                    /\ Starts(q, t)' => Starts(q, t)
                  BY <2>2, <3>1 DEF Turned, Makes, Holds, Lists, Starts, Making, Taking
            <3>3. InHand' /\ HasSlot'
                  BY <1>2, <3>2 DEF HandInv, InHand, HasSlot, Launched
            <3>4. OneMaker'
                  BY <3>1, <3>2 DEF HandInv, OneMaker, Queued
            <3>5. \A q \in Processes : Passes(q)' => q \in Daemons
                  BY <1>2, <2>2 DEF Turned, Passes, HandInv
            <3> QED
                BY <1>2, <3>3, <3>4, <3>5 DEF HandInv, FailedHasNoAgent
      <2> QED
          BY <1>3, <2>1, <2>2, BeginsTurn
<1>4. CASE TakeRequest(p)
      <2>1. proc[p].pc = "next" /\ proc[p].todo \subseteq Sessions
            BY <1>4 DEF TakeRequest, Typed, TypeOK, Process
      <2>2. CASE Rested(p) /\ UNCHANGED queue
            BY <1>2, <2>2, RestedGoesOn, StillHands, SameHands
      <2>3. ASSUME NEW s \in proc[p].todo, Turned(p, "next", proc[p].sess, proc[p].todo \ {s}),
                   queue' = Without(queue, s)
            PROVE  HandInv'
            <3>1. HandsGoOn
                  BY <2>1, <2>3, TurnedGoesOn DEF Making, Taking, Passes
            <3> QED
                BY <1>2, <2>3, <3>1, HandsStay, SameGoesOn, SameHands, WithoutGoesOn
      <2>4. ASSUME NEW s \in proc[p].todo, Turned(p, "make", s, proc[p].todo \ {s}),
                   state[s] = "Pending", s \notin attached, UNCHANGED queue
            PROVE  HandInv'
            <3>1. s \in Sessions /\ Lists(p, s)
                  BY <2>1 DEF Lists
            <3>2. \A q \in Processes, t \in Sessions :
                    /\ Makes(q, t)' => Makes(q, t)
                    /\ Holds(q, t)' => Holds(q, t) \/ (q = p /\ t = s)
                    /\ Lists(q, t)' => Lists(q, t)
                    /\ Starts(q, t)' => Starts(q, t)
                  BY <2>1, <2>4 DEF Turned, Makes, Holds, Lists, Starts, Making, Taking
            <3>3. (\A q \in Processes : ~Makes(q, s)) /\ (\A r \in Runs : ~Launched(r, s))
                  BY <2>4, <3>1 DEF HandInv, OneMaker, HasSlot
            <3>4. InHand' /\ HasSlot'
                  BY <1>2, <3>2, <3>3 DEF HandInv, InHand, HasSlot, Launched
            <3>5. OneMaker'
                  BY <2>4, <3>2, <3>3 DEF HandInv, OneMaker, Queued
            <3>6. \A q \in Processes : Passes(q)' => q \in Daemons
                  BY <1>2, <2>4 DEF Turned, Passes, HandInv
            <3> QED
                BY <1>2, <3>4, <3>5, <3>6 DEF HandInv, FailedHasNoAgent
      <2> QED
          BY <1>4, <2>2, <2>3, <2>4, StepsTurn
<1> QED
    BY <1>3, <1>4

(* With one activator nobody else has the session in hand.                 *)
LEMMA OneHand ==
  ASSUME HandInv, OneActivator, NEW p \in Processes, NEW s \in Sessions, Holds(p, s)
  PROVE  \A q \in Processes \ {p} : ~Holds(q, s)
<1>1. CASE Makes(p, s)
      BY <1>1 DEF HandInv, OneMaker
<1>2. CASE ~Makes(p, s)
      BY <1>2 DEF HandInv, OneMaker, OneActivator, Holds, Makes, Passes
<1> QED
    BY <1>1, <1>2

(* The launch leaves the hand it was in.                                   *)
LEMMA LaunchHands ==
  ASSUME Typed, HandInv, OneActivator, NEW p \in Processes, NEW s \in Sessions,
         NEW cwd, NEW by, Starts(p, s), StartRun(s, cwd, by),
         Rested(p) \/ (Turned(p, "dequeue", s, proc[p].todo) /\ proc[p].pc = "start"),
         UNCHANGED <<state, attached, queue>>
  PROVE  HandInv'
<1>1. Holds(p, s)
      BY DEF Starts, Holds, Making, Taking
<1>2. \A q \in Processes \ {p} : ~Holds(q, s)
      BY <1>1, OneHand
<1>3. HandsGoOn /\ ~Holds(p, s)'
      <2>1. CASE Rested(p)
            BY <2>1, RestedGoesOn DEF Rested, Turned, Holds, Making, Taking
      <2>2. CASE Turned(p, "dequeue", s, proc[p].todo) /\ proc[p].pc = "start"
            BY <2>2, TurnedGoesOn DEF Turned, Holds, Making, Taking, Passes
      <2> QED
          BY <2>1, <2>2
<1>4. PICK r \in Runs :
        /\ run[r].pc = "unused"
        /\ run' = [run EXCEPT ![r] = [pc |-> "starting", sess |-> s, cwd |-> cwd, by |-> by]]
      BY DEF StartRun
<1>5. /\ run'[r].pc = "starting" /\ run'[r].sess = s
      /\ \A q \in Runs \ {r} : run'[q] = run[q]
      BY <1>4 DEF Typed, TypeOK
<1>6. \A q \in Runs, t \in Sessions : Launched(q, t)' => Launched(q, t) \/ t = s
      BY <1>5 DEF Launched
<1>7. InHand'
      BY <1>2, <1>3, <1>6 DEF HandInv, InHand, HandsGoOn
<1>8. OneMaker'
      BY <1>3 DEF HandInv, OneMaker, HandsGoOn, Queued
<1>9. HasSlot'
      BY <1>3, <1>6 DEF HandInv, HasSlot, HandsGoOn
<1>10. FailedHasNoAgent'
      BY <1>5 DEF HandInv, FailedHasNoAgent
<1> QED
    BY <1>3, <1>7, <1>8, <1>9, <1>10 DEF HandInv, HandsGoOn

LEMMA StartsHands ==
  ASSUME Typed, LaunchInv, HandInv, OneActivator, NEW p \in Processes,
         SpawnRunner(p) \/ StartQueued(p)
  PROVE  HandInv'
<1>1. proc[p].pc \in {"launch", "start"}
      BY DEF SpawnRunner, StartQueued, LaunchInv, Cleans
<1>2. PICK s \in Sessions : s = proc[p].sess
      BY <1>1 DEF Typed, Grounded, Busy
<1>3. Starts(p, s) /\ UNCHANGED <<state, attached, queue>>
      BY <1>1, <1>2 DEF Starts, SpawnRunner, StartQueued, rowVars
<1>4. CASE SpawnRunner(p)
      <2>1. proc[p].pc = "launch"
            BY <1>1, <1>4 DEF SpawnRunner
      <2>2. CASE StartRun(s, proc[p].cwd, "detached") /\ Done(p)
            <3>1. PICK cwd : cwd = proc[p].cwd
                  OBVIOUS
            <3>2. StartRun(s, cwd, "detached")
                  BY <2>2, <3>1
            <3> QED
                BY <1>3, <2>2, <3>2, DoneRests, LaunchHands
      <2>3. CASE UNCHANGED run /\ Goto(p, "unlaunch")
            <3>1. HandsGoOn
                  BY <2>1, <2>3, GotoTurns, TurnedGoesOn DEF Making, Taking
            <3> QED
                BY <1>3, <2>3, <3>1, StillHands, SameHands
      <2> QED
          BY <1>2, <1>4, <2>1, <2>2, <2>3 DEF SpawnRunner
<1>5. CASE StartQueued(p)
      <2>1. Turned(p, "dequeue", s, proc[p].todo) /\ proc[p].pc = "start"
            BY <1>2, <1>5, GotoTurns DEF StartQueued
      <2>2. StartRun(s, "worktree", p)
            BY <1>2, <1>5 DEF StartQueued
      <2> QED
          BY <1>3, <2>1, <2>2, LaunchHands
<1> QED
    BY <1>4, <1>5

LEMMA HandStep ==
  ASSUME Typed, LaunchInv, HandInv, NoRelaunch, OneActivator, [Next]_vars
  PROVE  HandInv'
<1>1. ASSUME NEW p \in Processes, Request(p) PROVE HandInv'
      <2>1. PICK s \in Sessions :
              BeginQueue(p, s) \/ BeginCleanup(p, s) \/ BeginResume(p, s) \/ BeginDelete(p, s)
            BY <1>1 DEF Request
      <2>2. ~BeginCleanup(p, s) /\ ~BeginResume(p, s)
            BY DEF BeginCleanup, BeginResume, May, NoRelaunch
      <2> QED
          BY <2>1, <2>2, BeginQueueHands, CalmHands
<1>2. ASSUME NEW p \in Processes, ProcessStep(p) PROVE HandInv'
      BY <1>2, CalmHands, MarksHands, InsertSessionHands, EnqueueRequestHands, ActivationHands,
         StartsHands
      DEF ProcessStep
<1>3. ASSUME NEW p \in Processes, BeginActivate(p) \/ BeginPrune(p) \/ ProcessCrash(p)
      PROVE  HandInv'
      BY <1>3, ActivationHands, CalmHands, RunsHands
<1> QED
    BY <1>1, <1>2, <1>3, RunsHands DEF Next

(* A session that an activation pass or a launch marks Failed has no agent *)
(* (activate_pending_worktree_sessions and the launch of queue_session in  *)
(* manager.rs), whatever processes stop, prune, delete and sweep, wherever *)
(* git fails and whoever dies: with one daemon nobody else has launched it.*)
THEOREM FailedAtRest ==
  ASSUME NoRelaunch, OneActivator
  PROVE  Spec => []FailedHasNoAgent
<1>1. Spec => []Typed
      BY TypedInit, TypedStep, PTL DEF Spec
<1>2. Typed /\ LaunchInv /\ [Next]_vars => LaunchInv'
      BY LaunchStep
<1>3. Typed /\ LaunchInv /\ HandInv /\ [Next]_vars => HandInv'
      BY HandStep
<1>4. HandInv => FailedHasNoAgent
      BY DEF HandInv
<1> QED
    BY <1>1, <1>2, <1>3, <1>4, LaunchInit, HandInit, PTL DEF Spec

-----------------------------------------------------------------------------
(* Where nobody is stopped by hand, a session stays Pending until its run  *)
(* starts its agent, and what is cleaned or deleted never comes back.      *)

NoStop == "stop" \notin Operations

Gone == Inactive \cup {"Deleted"}

(* A process that will launch or fail the session, or put it in the queue. *)
Bound(p, s) == proc[p].sess = s /\ proc[p].pc \in {"enqueue", "launch", "unlaunch"} \cup Taking

Starting(r, s) == run[r].sess = s /\ run[r].pc \in {"starting", "spawning"}

Cleaning(p, s) ==
  \/ proc[p].pc \in {"clean", "remove", "clear"} /\ s \in proc[p].todo
  \/ proc[p].pc \in {"remove", "clear", "discard", "delete", "undo"} /\ proc[p].sess = s

WaitInv ==
  \A s \in Sessions :
    /\ \A p \in Processes : Bound(p, s) => state[s] = "Pending"
    /\ \A r \in Runs : Starting(r, s) => state[s] = "Pending"
    /\ \A p \in Processes : Cleaning(p, s) => state[s] \in Gone

LEMMA WaitInit == Init => WaitInv
<1> SUFFICES ASSUME Init PROVE WaitInv
    OBVIOUS
<1>1. \A p \in Processes : proc[p] = Nothing /\ Nothing.pc = "idle"
      BY DEF Init, Nothing
<1>2. \A r \in Runs : run[r].pc = "unused"
      BY DEF Init
<1> QED
    BY <1>1, <1>2 DEF WaitInv, Bound, Starting, Cleaning, Taking

(* What a step does to the states, the processes and the runs.             *)
StatesKept ==
  \A s \in Sessions :
    /\ state[s] = "Pending" /\ state'[s] # "Pending" =>
         /\ \A p \in Processes : ~Bound(p, s)'
         /\ \A r \in Runs : ~Starting(r, s)'
    /\ state[s] \in Gone => state'[s] \in Gone

ProcsKept ==
  \A p \in Processes, s \in Sessions :
    /\ Bound(p, s)' => Bound(p, s) \/ state'[s] = "Pending"
    /\ Cleaning(p, s)' => Cleaning(p, s) \/ state'[s] \in Gone

RunsKept ==
  \A r \in Runs, s \in Sessions : Starting(r, s)' => Starting(r, s) \/ state'[s] = "Pending"

LEMMA WaitStays ==
  ASSUME WaitInv, StatesKept, ProcsKept, RunsKept
  PROVE  WaitInv'
BY DEF WaitInv, StatesKept, ProcsKept, RunsKept

LEMMA SameKept ==
  /\ UNCHANGED state => StatesKept
  /\ UNCHANGED proc => ProcsKept
  /\ UNCHANGED run => RunsKept
BY DEF StatesKept, ProcsKept, RunsKept, Bound, Starting, Cleaning

LEMMA TurnedKeeps ==
  ASSUME NEW p \in Processes, NEW pc, NEW s, NEW todo, Turned(p, pc, s, todo),
         pc \in {"enqueue", "launch", "unlaunch"} \cup Taking =>
           \A t \in Sessions : t = s => Bound(p, t) \/ state'[t] = "Pending",
         pc \in {"clean", "remove", "clear"} =>
           \A t \in Sessions : t \in todo => Cleaning(p, t) \/ state'[t] \in Gone,
         pc \in {"remove", "clear", "discard", "delete", "undo"} =>
           \A t \in Sessions : t = s => Cleaning(p, t) \/ state'[t] \in Gone
  PROVE  ProcsKept
<1> SUFFICES ASSUME NEW q \in Processes, NEW t \in Sessions
             PROVE  /\ Bound(q, t)' => Bound(q, t) \/ state'[t] = "Pending"
                    /\ Cleaning(q, t)' => Cleaning(q, t) \/ state'[t] \in Gone
    BY DEF ProcsKept
<1>1. CASE q = p
      BY <1>1 DEF Turned, Bound, Cleaning
<1>2. CASE q # p
      BY <1>2 DEF Turned, Bound, Cleaning
<1> QED
    BY <1>1, <1>2

LEMMA RestedKeeps ==
  ASSUME NEW p \in Processes, Rested(p)
  PROVE  ProcsKept
BY TurnedKeeps DEF Rested, Taking

(* Steps that leave the states alone.                                      *)
LEMMA CalmWaits ==
  ASSUME Typed, WaitInv, NEW p \in Processes,
         \/ \E s \in Sessions : BeginQueue(p, s) \/ BeginDelete(p, s)
         \/ BeginPrune(p) \/ BeginActivate(p) \/ CreateWorktree(p) \/ EnqueueRequest(p)
         \/ RemoveUnlaunched(p) \/ TakeRequest(p) \/ MakeWorktree(p) \/ AttachWorktree(p)
         \/ DequeueStarted(p) \/ RemoveOne(p) \/ ClearWorktree(p)
  PROVE  WaitInv'
<1>1. UNCHANGED <<state, run>>
      BY DEF BeginQueue, BeginDelete, BeginPrune, BeginActivate, CreateWorktree, EnqueueRequest,
         RemoveUnlaunched, TakeRequest, MakeWorktree, AttachWorktree, DequeueStarted, RemoveOne,
         ClearWorktree, rowVars
<1>2. ProcsKept
      <2>1. ASSUME NEW s \in Sessions, BeginQueue(p, s) PROVE ProcsKept
            <3>1. \E pc \in {"create", "insert"} : Turned(p, pc, s, proc[p].todo)
                  BY <2>1, BeginsTurn
            <3> QED
                BY <3>1, TurnedKeeps DEF Taking
      <2>2. ASSUME NEW s \in Sessions, BeginDelete(p, s) PROVE ProcsKept
            <3>1. \E pc \in {"discard", "delete"} : Turned(p, pc, s, proc[p].todo)
                  BY <2>2, BeginsTurn
            <3>2. state'[s] \in Gone
                  BY <1>1, <2>2 DEF BeginDelete, Gone
            <3> QED
                BY <3>1, <3>2, TurnedKeeps DEF Taking
      <2>3. CASE BeginPrune(p)
            <3>1. Turned(p, "clean", proc[p].sess, {s \in attached : state[s] \in Inactive})
                  BY <2>3, BeginsTurn
            <3>2. \A t \in Sessions : t \in {s \in attached : state[s] \in Inactive} =>
                    state'[t] \in Gone
                  BY <1>1 DEF Gone
            <3> QED
                BY <3>1, <3>2, TurnedKeeps DEF Taking
      <2>4. CASE BeginActivate(p)
            BY <2>4, BeginsTurn, RestedKeeps, TurnedKeeps DEF Taking
      <2>5. CASE CreateWorktree(p)
            BY <2>5, StepsTurn, RestedKeeps, TurnedKeeps DEF Taking
      <2>6. CASE EnqueueRequest(p) \/ RemoveUnlaunched(p)
            BY <2>6, DoneRests, RestedKeeps DEF EnqueueRequest, RemoveUnlaunched
      <2>7. CASE TakeRequest(p)
            <3>1. \/ Rested(p)
                  \/ \E s \in proc[p].todo : \E todo :
                       \/ Turned(p, "make", s, todo) /\ state[s] = "Pending"
                       \/ Turned(p, "next", proc[p].sess, todo)
                  BY <2>7, StepsTurn
            <3>2. ASSUME NEW s \in proc[p].todo, NEW todo, Turned(p, "make", s, todo),
                         state[s] = "Pending"
                  PROVE  ProcsKept
                  BY <1>1, <3>2, TurnedKeeps
            <3>3. ASSUME NEW todo, Turned(p, "next", proc[p].sess, todo) PROVE ProcsKept
                  BY <3>3, TurnedKeeps DEF Taking
            <3> QED
                BY <3>1, <3>2, <3>3, RestedKeeps
      <2>8. CASE MakeWorktree(p)
            <3>1. proc[p].pc = "make" /\ \E pc \in {"attach", "fail"} : Goto(p, pc)
                  BY <2>8 DEF MakeWorktree
            <3> QED
                BY <3>1, GotoTurns, TurnedKeeps DEF Taking, Bound
      <2>9. CASE AttachWorktree(p)
            <3>1. proc[p].pc = "attach" /\ (Goto(p, "start") \/ Done(p))
                  BY <2>9 DEF AttachWorktree
            <3> QED
                BY <3>1, GotoTurns, DoneRests, RestedKeeps, TurnedKeeps DEF Taking, Bound
      <2>10. CASE DequeueStarted(p)
            BY <2>10, StepsTurn, TurnedKeeps DEF Taking
      <2>11. CASE RemoveOne(p)
            <3>1. \/ proc[p].pc = "remove" /\ Goto(p, "clear")
                  \/ proc[p].pc = "discard" /\ Goto(p, "delete")
                  BY <2>11 DEF RemoveOne
            <3> QED
                BY <3>1, GotoTurns, TurnedKeeps DEF Taking, Cleaning
      <2>12. CASE ClearWorktree(p)
            <3>1. proc[p].pc = "clear"
                  BY <2>12 DEF ClearWorktree
            <3> QED
                BY <2>12, <3>1, StepsTurn, RestedKeeps, TurnedKeeps DEF Taking, Cleaning
      <2> QED
          BY <2>1, <2>2, <2>3, <2>4, <2>5, <2>6, <2>7, <2>8, <2>9, <2>10, <2>11, <2>12
<1> QED
    BY <1>1, <1>2, WaitStays, SameKept

LEMMA BecomesMoves ==
  ASSUME Typed, NEW s \in Sessions, NEW to, Becomes(s, to)
  PROVE  /\ \A t \in Sessions \ {s} : state'[t] = state[t]
         /\ state'[s] \in {state[s], to}
BY DEF Becomes, Typed, TypeOK

(* What a cleaning pass takes up is still inactive: it stops nobody.       *)
LEMMA CleansGone ==
  ASSUME Typed, WaitInv, NEW p \in Processes, CleanOne(p)
  PROVE  /\ UNCHANGED <<rowVars, run>>
         /\ Rested(p) \/ \E s \in Sessions, t \in proc[p].todo :
              \/ Turned(p, "clean", proc[p].sess, proc[p].todo \ {t})
              \/ Turned(p, "remove", s, proc[p].todo \ {t}) /\ s \in proc[p].todo
<1>1. proc[p].pc = "clean" /\ proc[p].todo \subseteq Sessions
      BY DEF CleanOne, Typed, TypeOK, Process
<1>2. ASSUME NEW s \in proc[p].todo, CleansOne(p, s)
      PROVE  /\ UNCHANGED <<rowVars, run>>
             /\ \/ Turned(p, "clean", proc[p].sess, proc[p].todo \ {s})
                \/ Turned(p, "remove", s, proc[p].todo \ {s})
      <2>1. s \in Sessions /\ state[s] \in Gone
            BY <1>1 DEF WaitInv, Cleaning
      <2> QED
          BY <1>2, <2>1 DEF CleansOne, Gone, Inactive
<1> QED
    BY <1>1, <1>2, CleanTurns

(* A launch, a failed launch, and a row that is made or deleted.           *)
LEMMA MarksWait ==
  ASSUME Typed, LaunchInv, HandInv, OneActivator, WaitInv, NEW p \in Processes,
         InsertSession(p) \/ SpawnRunner(p) \/ StartQueued(p) \/ FailLaunch(p)
           \/ FailRequest(p) \/ DeleteRow(p) \/ CleanOne(p)
  PROVE  WaitInv'
<1>1. CASE InsertSession(p)
      <2>1. PICK s \in Sessions : s = proc[p].sess
            BY <1>1 DEF InsertSession, Typed, Grounded, Busy
      <2>2. state[s] = "NotCreated" /\ UNCHANGED run
            BY <1>1, <2>1 DEF InsertSession, LaunchInv, Creates
      <2>3. state'[s] = "Pending" /\ \A t \in Sessions \ {s} : state'[t] = state[t]
            BY <1>1, <2>1 DEF InsertSession, Typed, TypeOK
      <2>4. \E pc \in {"launch", "enqueue"} : Turned(p, pc, s, proc[p].todo)
            BY <1>1, <2>1, GotoTurns DEF InsertSession
      <2>5. ProcsKept
            BY <2>3, <2>4, TurnedKeeps
      <2>6. StatesKept
            BY <2>2, <2>3 DEF StatesKept, Gone, Inactive
      <2> QED
          BY <2>2, <2>5, <2>6, WaitStays, SameKept
<1>2. CASE SpawnRunner(p) \/ StartQueued(p)
      <2>1. proc[p].pc \in {"launch", "start"} /\ UNCHANGED state
            BY <1>2 DEF SpawnRunner, StartQueued, LaunchInv, Cleans, rowVars
      <2>2. PICK s \in Sessions : s = proc[p].sess
            BY <2>1 DEF Typed, Grounded, Busy
      <2>3. Bound(p, s) /\ state'[s] = "Pending"
            BY <2>1, <2>2 DEF Bound, Taking, WaitInv
      <2>4. UNCHANGED run \/ \E cwd, by : StartRun(s, cwd, by)
            BY <1>2, <2>2 DEF SpawnRunner, StartQueued
      <2>5. RunsKept
            <3>1. ASSUME NEW cwd, NEW by, StartRun(s, cwd, by) PROVE RunsKept
                  <4>1. PICK r \in Runs :
                          run' = [run EXCEPT ![r] =
                                    [pc |-> "starting", sess |-> s, cwd |-> cwd, by |-> by]]
                        BY <3>1 DEF StartRun
                  <4>2. run'[r].sess = s /\ \A q \in Runs \ {r} : run'[q] = run[q]
                        BY <4>1 DEF Typed, TypeOK
                  <4> QED
                      BY <2>3, <4>2 DEF RunsKept, Starting
            <3> QED
                BY <2>4, <3>1, SameKept
      <2>6. Done(p) \/ \E pc \in {"unlaunch", "dequeue"} : Goto(p, pc)
            BY <1>2, <2>1 DEF SpawnRunner, StartQueued
      <2>7. ProcsKept
            BY <2>2, <2>3, <2>6, DoneRests, RestedKeeps, GotoTurns, TurnedKeeps
      <2> QED
          BY <2>1, <2>5, <2>7, WaitStays, SameKept
<1>3. CASE FailLaunch(p) \/ FailRequest(p)
      <2>1. PICK s \in Sessions : s = proc[p].sess
            BY <1>3 DEF FailLaunch, FailRequest, Typed, Grounded, Busy
      <2>2. Bound(p, s) /\ Holds(p, s) /\ UNCHANGED run /\ Becomes(s, "Failed")
            BY <1>3, <2>1 DEF FailLaunch, FailRequest, Bound, Holds, Making, Taking
      <2>3. state[s] = "Pending" /\ state'[s] = "Failed"
            BY <2>2 DEF WaitInv, Becomes, HasRow, SessionState, CanTransition, Successors,
               Typed, TypeOK
      <2>4. \A t \in Sessions \ {s} : state'[t] = state[t]
            BY <2>2, BecomesMoves
      <2>5. \E todo : Rested(p) \/ Turned(p, "undo", s, todo) \/ Turned(p, "next", NoSession, todo)
            BY <1>3, <2>1, GotoTurns, DoneRests, StepsTurn DEF FailLaunch
      <2>6. ProcsKept
            BY <2>3, <2>5, RestedKeeps, TurnedKeeps DEF Taking, Gone, Inactive
      <2>7. \A q \in Processes : ~Bound(q, s)'
            <3>1. \A q \in Processes \ {p} : ~Bound(q, s)
                  BY <2>2, OneHand DEF Bound, Holds, Making
            <3> QED
                BY <2>5, <3>1 DEF Rested, Turned, Bound, Taking
      <2>8. \A r \in Runs : ~Starting(r, s)'
            BY <2>2 DEF HandInv, InHand, Launched, Starting
      <2>9. StatesKept
            BY <2>3, <2>4, <2>7, <2>8 DEF StatesKept, Gone, Inactive
      <2> QED
          BY <2>2, <2>6, <2>9, WaitStays, SameKept
<1>4. CASE DeleteRow(p)
      <2>1. PICK s \in Sessions : s = proc[p].sess /\ state[s] \in Gone
            BY <1>4 DEF DeleteRow, Typed, Grounded, Busy, WaitInv, Cleaning
      <2>2. \A t \in Sessions : state'[t] = state[t] \/ (t = s /\ state'[t] = "Deleted")
            BY <1>4, <2>1 DEF DeleteRow, Typed, TypeOK
      <2>3. StatesKept
            BY <2>1, <2>2 DEF StatesKept, Gone, Inactive
      <2>4. ProcsKept /\ UNCHANGED run
            BY <1>4, DoneRests, RestedKeeps DEF DeleteRow
      <2> QED
          BY <2>3, <2>4, WaitStays, SameKept
<1>5. CASE CleanOne(p)
      <2>1. UNCHANGED <<rowVars, run>> /\ proc[p].pc = "clean"
            BY <1>5, CleansGone DEF CleanOne
      <2>2. \A t \in Sessions : t \in proc[p].todo => Cleaning(p, t)
            BY <2>1 DEF Cleaning
      <2>3. CASE Rested(p)
            BY <2>1, <2>3, RestedKeeps, WaitStays, SameKept DEF rowVars
      <2>4. ASSUME NEW todo \in SUBSET proc[p].todo, NEW s, NEW pc \in {"clean", "remove"},
                   Turned(p, pc, s, todo), pc = "remove" => s \in proc[p].todo
            PROVE  WaitInv'
            <3>1. ProcsKept
                  BY <2>2, <2>4, TurnedKeeps DEF Taking
            <3> QED
                BY <2>1, <3>1, WaitStays, SameKept DEF rowVars
      <2> QED
          BY <1>5, <2>3, <2>4, CleansGone
<1> QED
    BY <1>1, <1>2, <1>3, <1>4, <1>5

(* Runs and sweeps.                                                        *)
LEMMA RunsWait ==
  ASSUME Typed, LaunchInv, HandInv, WaitInv,
         \/ \E r \in Runs : RunChecks(r) \/ RunStarts(r) \/ RunEnds(r) \/ OrphanEnds(r)
         \/ \E s \in Sessions : GoesStale(s)
         \/ \E p \in Processes : ProcessCrash(p)
         \/ UNCHANGED vars
  PROVE  WaitInv'
<1>1. ASSUME NEW r \in Runs, RunChecks(r) \/ OrphanEnds(r) PROVE WaitInv'
      <2>1. /\ run[r] \in Run /\ run \in [Runs -> Run] /\ UNCHANGED <<state, proc>>
            BY <1>1 DEF RunChecks, OrphanEnds, rowVars, Typed, TypeOK
      <2>2. /\ \A q \in Runs \ {r} : run'[q] = run[q]
            /\ run'[r].sess = run[r].sess
            /\ run'[r].pc = "spawning" => run[r].pc = "starting"
            /\ run'[r].pc \in {"spawning", "over"}
            BY <1>1, <2>1 DEF RunChecks, OrphanEnds, Run
      <2>3. RunsKept
            BY <2>2 DEF RunsKept, Starting
      <2> QED
          BY <2>1, <2>3, WaitStays, SameKept
<1>2. ASSUME NEW r \in Runs, RunStarts(r) \/ RunEnds(r) PROVE WaitInv'
      <2>1. PICK s \in Sessions : s = run[r].sess
            BY <1>2 DEF RunStarts, RunEnds, Typed, Grounded
      <2>2. /\ run[r] \in Run /\ run \in [Runs -> Run] /\ UNCHANGED proc
            /\ run[r].pc \in {"spawning", "working"} /\ Launched(r, s)
            /\ run[r].pc = "spawning" => Starting(r, s)
            BY <1>2, <2>1 DEF RunStarts, RunEnds, Typed, TypeOK, Launched, Starting
      <2>3. PICK to \in {"Running", "Completed", "Failed"} : 
              Becomes(s, to) /\ (to = "Running" => run[r].pc = "spawning")
            BY <1>2, <2>1 DEF RunStarts, RunEnds
      <2>4. PICK pc \in {"working", "orphan", "over"} : run' = [run EXCEPT ![r].pc = pc]
            BY <1>2 DEF RunStarts, RunEnds
      <2>5. /\ \A q \in Runs \ {r} : run'[q] = run[q]
            /\ run'[r].pc \in {"working", "orphan", "over"}
            BY <2>2, <2>4 DEF Run
      <2>6. RunsKept
            BY <2>5 DEF RunsKept, Starting
      <2>7. (\A t \in Sessions \ {s} : state'[t] = state[t]) /\ state'[s] \in {state[s], to}
            BY <2>3, BecomesMoves
      <2>8. state[s] = "Pending" =>
              /\ \A p \in Processes : ~Bound(p, s)'
              /\ \A q \in Runs : ~Starting(q, s)'
            <3>1. \A p \in Processes : ~Bound(p, s)
                  BY <2>2 DEF HandInv, InHand, Bound, Holds, Making
            <3>2. state[s] = "Pending" => \A q \in Runs \ {r} : ~Launched(q, s)
                  BY <2>2 DEF LaunchInv, OneLaunch
            <3> QED
                BY <2>2, <2>5, <3>1, <3>2 DEF Bound, Starting, Launched
      <2>9. state[s] \in Gone => to # "Running"
            BY <2>2, <2>3 DEF WaitInv, Gone, Inactive
      <2>10. StatesKept
            BY <2>7, <2>8, <2>9 DEF StatesKept, Gone, Inactive
      <2> QED
          BY <2>2, <2>6, <2>10, WaitStays, SameKept
<1>3. ASSUME NEW s \in Sessions, GoesStale(s) PROVE WaitInv'
      <2>1. /\ state[s] = "Running" /\ state'[s] \in {state[s], "Stale"}
            /\ \A t \in Sessions \ {s} : state'[t] = state[t]
            /\ UNCHANGED <<run, proc>>
            BY <1>3, BecomesMoves DEF GoesStale
      <2>2. StatesKept
            BY <2>1 DEF StatesKept, Gone, Inactive
      <2> QED
          BY <2>1, <2>2, WaitStays, SameKept
<1>4. ASSUME NEW p \in Processes, ProcessCrash(p) PROVE WaitInv'
      <2>1. ProcsKept /\ UNCHANGED state
            BY <1>4, DoneRests, RestedKeeps DEF ProcessCrash, rowVars
      <2>2. run \in [Runs -> Run]
            BY DEF Typed, TypeOK
      <2>3. \A r \in Runs : run'[r].sess = run[r].sess
                            /\ run'[r].pc \in {run[r].pc, "over", "orphan"}
            BY <1>4, <2>2 DEF ProcessCrash, Run
      <2>4. RunsKept
            BY <2>3 DEF RunsKept, Starting
      <2> QED
          BY <2>1, <2>4, WaitStays, SameKept
<1>5. CASE UNCHANGED vars
      BY <1>5, WaitStays, SameKept DEF vars
<1> QED
    BY <1>1, <1>2, <1>3, <1>4, <1>5

LEMMA WaitStep ==
  ASSUME Typed, LaunchInv, HandInv, WaitInv, NoRelaunch, OneActivator, NoStop, [Next]_vars
  PROVE  WaitInv'
<1>1. ASSUME NEW p \in Processes, Request(p) PROVE WaitInv'
      <2>1. PICK s \in Sessions :
              BeginQueue(p, s) \/ BeginCleanup(p, s) \/ BeginResume(p, s) \/ BeginDelete(p, s)
            BY <1>1 DEF Request
      <2>2. ~BeginCleanup(p, s) /\ ~BeginResume(p, s)
            BY DEF BeginCleanup, BeginResume, May, NoRelaunch
      <2> QED
          BY <2>1, <2>2, CalmWaits
<1>2. ASSUME NEW p \in Processes, ProcessStep(p) PROVE WaitInv'
      BY <1>2, CalmWaits, MarksWait DEF ProcessStep
<1>3. ASSUME NEW p \in Processes, BeginActivate(p) \/ BeginPrune(p) \/ ProcessCrash(p)
      PROVE  WaitInv'
      BY <1>3, CalmWaits, RunsWait
<1>4. \A s \in Sessions : ~Stop(s)
      BY DEF Stop, NoStop
<1> QED
    BY <1>1, <1>2, <1>3, <1>4, RunsWait DEF Next

-----------------------------------------------------------------------------
(* What is on disk.                                                        *)

Works(r, s) == run[r].sess = s /\ run[r].pc \in {"working", "orphan"}

(* A process with a worktree that no row names yet, and one that has       *)
(* removed a worktree that its row still names.                            *)
Carries(p, s) ==
  /\ proc[p].sess = s
  /\ proc[p].pc = "attach" \/ (proc[p].pc = "insert" /\ proc[p].cwd = "worktree")

Clears(p, s) == proc[p].sess = s /\ proc[p].pc \in {"clear", "delete"}

CarriesSame ==
  \A p \in Processes, s \in Sessions : Carries(p, s)' <=> Carries(p, s)

ClearsGoOn ==
  \A p \in Processes, s \in Sessions : Clears(p, s)' => Clears(p, s)

DiskSame == \A s \in Sessions : disk'[s] = "worktree" <=> disk[s] = "worktree"

(* A session that a process carries or clears.                             *)
LEMMA CarriesWait ==
  ASSUME Typed, LaunchInv, WaitInv, NEW p \in Processes, NEW s \in Sessions
  PROVE  /\ Carries(p, s) => state[s] \in {"NotCreated", "Pending"}
         /\ Clears(p, s) => state[s] \in Gone
BY DEF Carries, Clears, WaitInv, Bound, Cleaning, Taking, LaunchInv, Creates

LEMMA TurnedCarries ==
  ASSUME NEW p \in Processes, NEW pc, NEW s, NEW todo, Turned(p, pc, s, todo)
  PROVE  /\ /\ proc[p].pc \notin {"attach", "insert"}
            /\ pc \notin {"attach", "insert"} \/ (pc = "insert" /\ proc'[p].cwd = "repo")
            => CarriesSame
         /\ pc \notin {"clear", "delete"} => ClearsGoOn
<1>1. \A q \in Processes \ {p}, t \in Sessions :
        (Carries(q, t)' <=> Carries(q, t)) /\ (Clears(q, t)' <=> Clears(q, t))
      BY DEF Turned, Carries, Clears
<1>2. ASSUME proc[p].pc \notin {"attach", "insert"},
             pc \notin {"attach", "insert"} \/ (pc = "insert" /\ proc'[p].cwd = "repo")
      PROVE  CarriesSame
      BY <1>1, <1>2 DEF Turned, Carries, CarriesSame
<1>3. ASSUME pc \notin {"clear", "delete"} PROVE ClearsGoOn
      BY <1>1, <1>3 DEF Turned, Clears, ClearsGoOn
<1> QED
    BY <1>2, <1>3

LEMMA RestedCarries ==
  ASSUME NEW p \in Processes, Rested(p)
  PROVE  (proc[p].pc \notin {"attach", "insert"} => CarriesSame) /\ ClearsGoOn
BY TurnedCarries DEF Rested

(* Most steps change neither what is on disk nor whose it is.              *)
LEMMA QuietDisk ==
  ASSUME Typed, LaunchInv, WaitInv,
         \/ \E p \in Processes :
              \/ \E s \in Sessions : BeginQueue(p, s)
              \/ BeginActivate(p) \/ BeginPrune(p) \/ EnqueueRequest(p) \/ SpawnRunner(p)
              \/ FailLaunch(p) \/ TakeRequest(p) \/ FailRequest(p) \/ StartQueued(p)
              \/ DequeueStarted(p) \/ CleanOne(p)
         \/ \E r \in Runs : RunChecks(r) \/ RunStarts(r) \/ RunEnds(r) \/ OrphanEnds(r)
         \/ \E s \in Sessions : GoesStale(s)
         \/ UNCHANGED vars
  PROVE  UNCHANGED attached /\ DiskSame /\ CarriesSame /\ ClearsGoOn
<1>1. ASSUME NEW p \in Processes, NEW s \in Sessions, BeginQueue(p, s)
      PROVE  CarriesSame /\ ClearsGoOn
      <2>1. proc[p].pc = "idle"
            BY <1>1 DEF BeginQueue, May
      <2>2. /\ \E pc \in {"create", "insert"} : Turned(p, pc, s, proc[p].todo)
            /\ proc'[p].cwd = "repo"
            BY <1>1, BeginsTurn
      <2> QED
          BY <2>1, <2>2, TurnedCarries
<1>2. ASSUME NEW p \in Processes,
             \/ BeginActivate(p) \/ BeginPrune(p) \/ EnqueueRequest(p) \/ SpawnRunner(p)
             \/ FailLaunch(p) \/ TakeRequest(p) \/ FailRequest(p) \/ StartQueued(p)
             \/ DequeueStarted(p) \/ CleanOne(p)
      PROVE  CarriesSame /\ ClearsGoOn
      <2>1. proc[p].pc \notin {"attach", "insert"}
            BY <1>2 DEF BeginActivate, BeginPrune, EnqueueRequest, SpawnRunner, FailLaunch,
               TakeRequest, FailRequest, StartQueued, DequeueStarted, CleanOne, May
      <2>2. \/ Rested(p)
            \/ \E pc \in {"clean", "unlaunch", "undo", "next", "make", "dequeue", "remove"} :
                 \E s, todo : Turned(p, pc, s, todo)
            <3>1. CASE BeginActivate(p) \/ BeginPrune(p)
                  BY <3>1, BeginsTurn
            <3>2. CASE EnqueueRequest(p) \/ SpawnRunner(p) \/ FailLaunch(p) \/ StartQueued(p)
                  BY <3>2, DoneRests, GotoTurns
                  DEF EnqueueRequest, SpawnRunner, FailLaunch, StartQueued
            <3>3. CASE TakeRequest(p) \/ FailRequest(p) \/ DequeueStarted(p)
                  BY <3>3, StepsTurn
            <3>4. CASE CleanOne(p)
                  BY <3>4, CleansGone
            <3> QED
                BY <1>2, <3>1, <3>2, <3>3, <3>4
      <2> QED
          BY <2>1, <2>2, RestedCarries, TurnedCarries
<1>3. UNCHANGED proc => CarriesSame /\ ClearsGoOn
      BY DEF CarriesSame, ClearsGoOn, Carries, Clears
<1>4. UNCHANGED disk => DiskSame
      BY DEF DiskSame
<1>5. ASSUME NEW p \in Processes, SpawnRunner(p) PROVE UNCHANGED attached /\ DiskSame
      BY <1>5 DEF SpawnRunner, rowVars, DiskSame, Typed, TypeOK
<1>6. ASSUME NEW p \in Processes, CleanOne(p) PROVE UNCHANGED attached /\ DiskSame
      BY <1>4, <1>6, CleansGone DEF CleanOne, rowVars
<1>7. ASSUME NEW p \in Processes,
             \/ \E s \in Sessions : BeginQueue(p, s)
             \/ BeginActivate(p) \/ BeginPrune(p) \/ EnqueueRequest(p) \/ FailLaunch(p)
             \/ TakeRequest(p) \/ FailRequest(p) \/ StartQueued(p) \/ DequeueStarted(p)
      PROVE  UNCHANGED attached /\ DiskSame
      BY <1>4, <1>7 DEF BeginQueue, BeginActivate, BeginPrune, EnqueueRequest, FailLaunch,
         TakeRequest, FailRequest, StartQueued, DequeueStarted, rowVars
<1>8. ASSUME \/ \E r \in Runs : RunChecks(r) \/ RunStarts(r) \/ RunEnds(r) \/ OrphanEnds(r)
             \/ \E s \in Sessions : GoesStale(s)
             \/ UNCHANGED vars
      PROVE  UNCHANGED <<attached, disk, proc>>
      BY <1>8 DEF RunChecks, RunStarts, RunEnds, OrphanEnds, GoesStale, rowVars, vars
<1> QED
    BY <1>1, <1>2, <1>3, <1>4, <1>5, <1>6, <1>7, <1>8

(* The steps that are about a worktree, one by one.                        *)
DiskSteps(p, s) ==
  \/ BeginDelete(p, s)
  \/ /\ proc[p].sess = s
     /\ \/ CreateWorktree(p) \/ InsertSession(p) \/ MakeWorktree(p) \/ AttachWorktree(p)
        \/ RemoveUnlaunched(p) \/ RemoveOne(p) \/ ClearWorktree(p) \/ DeleteRow(p)

(* While a worktree is on disk its row names it, or the process that made  *)
(* it is about to write that down; and nobody clears the row, or deletes   *)
(* it, of a worktree that is still there.                                  *)
OrphanInv ==
  \A s \in Sessions :
    /\ disk[s] = "worktree" => s \in attached \/ \E p \in Processes : Carries(p, s)
    /\ \A p \in Processes : Clears(p, s) => disk[s] # "worktree"

LEMMA OrphanInit == Init => OrphanInv
BY DEF Init, Nothing, OrphanInv, Clears

DiskFollows ==
  /\ \A s \in Sessions :
       /\ disk'[s] = "worktree" /\ disk[s] # "worktree" => \E p \in Processes : Carries(p, s)'
       /\ s \in attached /\ s \notin attached' => disk'[s] # "worktree"
  /\ \A p \in Processes, s \in Sessions :
       /\ Carries(p, s) => Carries(p, s)' \/ s \in attached'
       /\ Clears(p, s)' => Clears(p, s) \/ disk'[s] # "worktree"

LEMMA OrphanStays ==
  ASSUME Typed', LaunchInv', WaitInv', OrphanInv, DiskFollows
  PROVE  OrphanInv'
<1> SUFFICES ASSUME NEW s \in Sessions
             PROVE  /\ disk'[s] = "worktree" =>
                         s \in attached' \/ \E p \in Processes : Carries(p, s)'
                    /\ \A p \in Processes : Clears(p, s)' => disk'[s] # "worktree"
    BY DEF OrphanInv
<1>1. \A p \in Processes : Carries(p, s)' => state'[s] \in {"NotCreated", "Pending"}
      BY DEF Carries, WaitInv, Bound, Taking, LaunchInv, Creates
<1>2. \A p \in Processes : Clears(p, s)' => state'[s] \in Gone
      BY DEF Clears, WaitInv, Cleaning
<1>3. disk'[s] = "worktree" => s \in attached' \/ \E p \in Processes : Carries(p, s)'
      BY DEF OrphanInv, DiskFollows
<1>4. ASSUME NEW p \in Processes, Clears(p, s)', disk'[s] = "worktree" PROVE FALSE
      <2>1. \A q \in Processes : ~Carries(q, s)'
            BY <1>1, <1>2, <1>4 DEF Gone, Inactive
      <2> QED
          BY <1>4, <2>1 DEF OrphanInv, DiskFollows
<1> QED
    BY <1>3, <1>4

LEMMA OrphanSteps ==
  ASSUME Typed, LaunchInv, WaitInv, OrphanInv, Typed', LaunchInv', WaitInv', ~MayFail,
         NEW p \in Processes, NEW s \in Sessions, DiskSteps(p, s)
  PROVE  OrphanInv'
<1> USE DEF DiskFollows
<1>1. CASE BeginDelete(p, s)
      <2>1. /\ proc[p].pc = "idle" /\ state[s] \in Inactive /\ UNCHANGED <<attached, disk>>
            /\ Turned(p, IF s \in attached THEN "discard" ELSE "delete", s, proc[p].todo)
            BY <1>1, BeginsTurn DEF BeginDelete, May, rowVars
      <2>2. CarriesSame
            <3>1. \E pc \in {"discard", "delete"} : Turned(p, pc, s, proc[p].todo)
                  BY <2>1
            <3> QED
                BY <2>1, <3>1, TurnedCarries
      <2>3. s \notin attached => disk[s] # "worktree"
            BY <2>1, CarriesWait DEF OrphanInv, Inactive
      <2>4. \A q \in Processes, t \in Sessions : Clears(q, t)' =>
              Clears(q, t) \/ (t = s /\ s \notin attached)
            BY <2>1 DEF Turned, Clears
      <2> QED
          BY <2>1, <2>2, <2>3, <2>4, OrphanStays DEF CarriesSame
<1>2. CASE CreateWorktree(p) /\ proc[p].sess = s
      <2>1. proc[p].pc = "create" /\ UNCHANGED attached
            BY <1>2 DEF CreateWorktree, rowVars
      <2>2. Turned(p, "insert", s, proc[p].todo) /\ proc'[p].cwd = "worktree" /\ AddWorktree(s)
            BY <1>2, StepsTurn
      <2>3. \A q \in Processes, t \in Sessions :
              (Carries(q, t) => Carries(q, t)') /\ (Clears(q, t)' => Clears(q, t))
            BY <2>1, <2>2 DEF Turned, Carries, Clears
      <2>4. Carries(p, s)' /\ \A t \in Sessions \ {s} : disk'[t] = disk[t]
            BY <2>2 DEF Turned, Carries, AddWorktree, Typed, TypeOK
      <2> QED
          BY <2>1, <2>3, <2>4, OrphanStays
<1>3. CASE InsertSession(p) /\ proc[p].sess = s
      <2>1. /\ proc[p].pc = "insert" /\ UNCHANGED disk
            /\ attached' = IF proc[p].cwd = "worktree" THEN attached \cup {s} ELSE attached
            /\ \E pc \in {"launch", "enqueue"} : Turned(p, pc, s, proc[p].todo)
            BY <1>3, GotoTurns DEF InsertSession
      <2>2. \A q \in Processes, t \in Sessions :
              /\ Carries(q, t) => Carries(q, t)' \/ t \in attached'
              /\ Clears(q, t)' => Clears(q, t)
            BY <1>3, <2>1 DEF Turned, Carries, Clears
      <2> QED
          BY <2>1, <2>2, OrphanStays
<1>4. CASE MakeWorktree(p) /\ proc[p].sess = s
      <2>1. proc[p].pc = "make" /\ UNCHANGED attached
            BY <1>4 DEF MakeWorktree, rowVars
      <2>2. CASE AddWorktree(s) /\ Goto(p, "attach")
            <3>1. Turned(p, "attach", s, proc[p].todo)
                  BY <1>4, <2>2, GotoTurns
            <3>2. \A q \in Processes, t \in Sessions :
                    (Carries(q, t) => Carries(q, t)') /\ (Clears(q, t)' => Clears(q, t))
                  BY <2>1, <3>1 DEF Turned, Carries, Clears
            <3>3. Carries(p, s)' /\ \A t \in Sessions \ {s} : disk'[t] = disk[t]
                  BY <2>2, <3>1 DEF Turned, Carries, AddWorktree, Typed, TypeOK
            <3> QED
                BY <2>1, <3>2, <3>3, OrphanStays
      <2>3. CASE UNCHANGED disk /\ Goto(p, "fail")
            <3>1. Turned(p, "fail", s, proc[p].todo)
                  BY <1>4, <2>3, GotoTurns
            <3> QED
                BY <2>1, <2>3, <3>1, TurnedCarries, OrphanStays DEF CarriesSame, ClearsGoOn
      <2> QED
          BY <1>4, <2>2, <2>3 DEF MakeWorktree
<1>5. CASE AttachWorktree(p) /\ proc[p].sess = s
      <2>1. proc[p].pc = "attach" /\ state[s] = "Pending"
            BY <1>5 DEF AttachWorktree, WaitInv, Bound, Taking
      <2>2. attached' = attached \cup {s} /\ UNCHANGED disk /\ Turned(p, "start", s, proc[p].todo)
            BY <1>5, <2>1, GotoTurns DEF AttachWorktree, HasRow, SessionState
      <2>3. \A q \in Processes, t \in Sessions :
              /\ Carries(q, t) => Carries(q, t)' \/ t \in attached'
              /\ Clears(q, t)' => Clears(q, t)
            BY <1>5, <2>2 DEF Turned, Carries, Clears
      <2> QED
          BY <2>2, <2>3, OrphanStays
<1>6. CASE (RemoveUnlaunched(p) \/ RemoveOne(p)) /\ proc[p].sess = s
      <2>1. disk' = [disk EXCEPT ![s] = "absent"] /\ UNCHANGED attached
            BY <1>6 DEF RemoveUnlaunched, RemoveOne, RemoveWorktree, rowVars
      <2>2. disk'[s] = "absent" /\ \A t \in Sessions \ {s} : disk'[t] = disk[t]
            BY <2>1 DEF Typed, TypeOK
      <2>3. /\ proc[p].pc \in {"undo", "remove", "discard"}
            /\ Rested(p) \/ \E pc \in {"clear", "delete"} : Turned(p, pc, s, proc[p].todo)
            BY <1>6, DoneRests, GotoTurns DEF RemoveUnlaunched, RemoveOne
      <2>4. CarriesSame
            BY <2>3, RestedCarries, TurnedCarries
      <2>5. \A q \in Processes, t \in Sessions : Clears(q, t)' => Clears(q, t) \/ t = s
            BY <2>3 DEF Rested, Turned, Clears
      <2> QED
          BY <2>1, <2>2, <2>4, <2>5, OrphanStays DEF CarriesSame
<1>7. CASE (ClearWorktree(p) \/ DeleteRow(p)) /\ proc[p].sess = s
      <2>1. /\ attached \ {s} \subseteq attached' /\ UNCHANGED disk
            /\ proc[p].pc \in {"clear", "delete"}
            BY <1>7 DEF ClearWorktree, DeleteRow
      <2>2. Clears(p, s)
            BY <1>7, <2>1 DEF Clears
      <2>3. Rested(p) \/ Turned(p, "clean", NoSession, proc[p].todo)
            BY <1>7, StepsTurn, DoneRests DEF DeleteRow
      <2>4. CarriesSame /\ ClearsGoOn
            BY <2>1, <2>3, RestedCarries, TurnedCarries
      <2> QED
          BY <2>1, <2>2, <2>4, OrphanStays DEF CarriesSame, ClearsGoOn, OrphanInv
<1> QED
    BY <1>1, <1>2, <1>3, <1>4, <1>5, <1>6, <1>7 DEF DiskSteps

LEMMA OrphanStep ==
  ASSUME Typed, LaunchInv, HandInv, WaitInv, OrphanInv, Typed', LaunchInv', WaitInv',
         NoRelaunch, OneActivator, NoStop, ~MayFail, ~MayCrash, [Next]_vars
  PROVE  OrphanInv'
<1>1. UNCHANGED attached /\ DiskSame /\ CarriesSame /\ ClearsGoOn => OrphanInv'
      BY DEF OrphanInv, DiskSame, CarriesSame, ClearsGoOn
<1>2. ASSUME NEW p \in Processes, Request(p) PROVE OrphanInv'
      <2>1. PICK s \in Sessions :
              BeginQueue(p, s) \/ BeginCleanup(p, s) \/ BeginResume(p, s) \/ BeginDelete(p, s)
            BY <1>2 DEF Request
      <2>2. ~BeginCleanup(p, s) /\ ~BeginResume(p, s)
            BY DEF BeginCleanup, BeginResume, May, NoRelaunch
      <2> QED
          BY <1>1, <2>1, <2>2, QuietDisk, OrphanSteps DEF DiskSteps
<1>3. ASSUME NEW p \in Processes, ProcessStep(p) PROVE OrphanInv'
      <2>1. CASE \/ CreateWorktree(p) \/ InsertSession(p) \/ MakeWorktree(p) \/ AttachWorktree(p)
                 \/ RemoveUnlaunched(p) \/ RemoveOne(p) \/ ClearWorktree(p) \/ DeleteRow(p)
            <3>1. PICK s \in Sessions : s = proc[p].sess
                  BY <2>1 DEF CreateWorktree, InsertSession, MakeWorktree, AttachWorktree,
                     RemoveUnlaunched, RemoveOne, ClearWorktree, DeleteRow, Typed, Grounded, Busy
            <3> QED
                BY <2>1, <3>1, OrphanSteps DEF DiskSteps
      <2> QED
          BY <1>1, <1>3, <2>1, QuietDisk DEF ProcessStep
<1>4. ASSUME NEW p \in Processes, BeginActivate(p) \/ BeginPrune(p) PROVE OrphanInv'
      BY <1>1, <1>4, QuietDisk
<1>5. (\A p \in Processes : ~ProcessCrash(p)) /\ \A s \in Sessions : ~Stop(s)
      BY DEF ProcessCrash, Stop, NoStop
<1>6. ASSUME \/ \E r \in Runs : RunChecks(r) \/ RunStarts(r) \/ RunEnds(r) \/ OrphanEnds(r)
             \/ \E s \in Sessions : GoesStale(s)
             \/ UNCHANGED vars
      PROVE  OrphanInv'
      BY <1>1, <1>6, QuietDisk
<1> QED
    BY <1>2, <1>3, <1>4, <1>5, <1>6 DEF Next

(* No worktree is left behind that no prune would find: a queued session's *)
(* is written down by the pass that made it (attach_worktree), and a prune *)
(* or a delete forgets a worktree only after it has removed it             *)
(* (cleanup_session_worktree, delete_session), while git does not fail, no *)
(* process dies and nobody stops, resumes or cleans up a session by hand.  *)
THEOREM NoneLeftBehind ==
  ASSUME NoRelaunch, OneActivator, NoStop
  PROVE  Spec => []NoOrphanWorktree
<1>1. Spec => []Typed
      BY TypedInit, TypedStep, PTL DEF Spec
<1>2. Typed /\ LaunchInv /\ [Next]_vars => LaunchInv'
      BY LaunchStep
<1>3. Typed /\ LaunchInv /\ HandInv /\ [Next]_vars => HandInv'
      BY HandStep
<1>4. Typed /\ LaunchInv /\ HandInv /\ WaitInv /\ [Next]_vars => WaitInv'
      BY WaitStep
<1>5. CASE MayCrash \/ MayFail
      <2>1. NoOrphanWorktree
            BY <1>5 DEF NoOrphanWorktree
      <2> QED
          BY <2>1, PTL
<1>6. CASE ~MayCrash /\ ~MayFail
      <2>1. Typed /\ LaunchInv /\ HandInv /\ WaitInv /\ OrphanInv /\ [Next]_vars
              /\ Typed' /\ LaunchInv' /\ WaitInv' => OrphanInv'
            BY <1>6, OrphanStep
      <2>2. OrphanInv => NoOrphanWorktree
            BY DEF OrphanInv, NoOrphanWorktree, AtHand, Carries
      <2> QED
          BY <1>1, <1>2, <1>3, <1>4, <2>1, <2>2, LaunchInit, HandInit, WaitInit, OrphanInit, PTL
          DEF Spec
<1> QED
    BY <1>5, <1>6

-----------------------------------------------------------------------------
(* An agent's worktree stays where it is, if nobody marks stale what runs. *)

NoSweep == "sweep" \notin Operations

Live == {"Pending", "Running"}

(* An agent at work has a row that says so, and the row a worktree that is *)
(* there as long as the session is not over.                               *)
KeptInv ==
  \A s \in Sessions :
    /\ state[s] \notin {"Idle", "Stale"}
    /\ state[s] = "NotCreated" => s \notin attached
    /\ s \in attached /\ state[s] \in Live => disk[s] = "worktree"
    /\ \A r \in Runs : Works(r, s) => state[s] = "Running" /\ s \in attached
    /\ \A p \in Processes : Carries(p, s) => disk[s] = "worktree"

LEMMA KeptInit == Init => KeptInv
BY DEF Init, Nothing, KeptInv, Carries, Works

(* What a step does to the states and agents, and to the worktrees.        *)
AgentsKept ==
  \A s \in Sessions :
    /\ state'[s] \notin {"Idle", "Stale"}
    /\ state'[s] = "NotCreated" => state[s] = "NotCreated"
    /\ state'[s] \in Live => state[s] \in Live \cup {"NotCreated"}
    /\ \A r \in Runs : Works(r, s)' =>
         state'[s] = "Running" /\ (Works(r, s) \/ s \in attached)

DiskKept ==
  \A s \in Sessions :
    /\ disk[s] = "worktree" /\ disk'[s] # "worktree" => state'[s] \in Gone
    /\ s \in attached' /\ s \notin attached => disk'[s] = "worktree" /\ state'[s] # "NotCreated"
    /\ s \in attached /\ s \notin attached' => state'[s] \in Gone
    /\ \A p \in Processes : Carries(p, s)' => Carries(p, s) \/ disk'[s] = "worktree"

LEMMA KeptStays ==
  ASSUME LaunchInv', WaitInv', KeptInv, AgentsKept, DiskKept
  PROVE  KeptInv'
<1> SUFFICES ASSUME NEW s \in Sessions
             PROVE  /\ state'[s] \notin {"Idle", "Stale"}
                    /\ state'[s] = "NotCreated" => s \notin attached'
                    /\ s \in attached' /\ state'[s] \in Live => disk'[s] = "worktree"
                    /\ \A r \in Runs : Works(r, s)' => state'[s] = "Running" /\ s \in attached'
                    /\ \A p \in Processes : Carries(p, s)' => disk'[s] = "worktree"
    BY DEF KeptInv
<1>1. \A p \in Processes : Carries(p, s)' => state'[s] \in {"NotCreated", "Pending"}
      BY DEF Carries, WaitInv, Bound, Taking, LaunchInv, Creates
<1>2. state'[s] \in Gone => state'[s] \notin Live \cup {"NotCreated"}
      BY DEF Gone, Inactive, Live
<1>3. \A p \in Processes : Carries(p, s)' => disk'[s] = "worktree"
      BY <1>1, <1>2 DEF KeptInv, DiskKept, Live
<1>4. s \in attached' /\ state'[s] \in Live => disk'[s] = "worktree"
      BY <1>2 DEF KeptInv, AgentsKept, DiskKept
<1>5. \A r \in Runs : Works(r, s)' => state'[s] = "Running" /\ s \in attached'
      BY <1>2 DEF KeptInv, AgentsKept, DiskKept, Live
<1>6. state'[s] \notin {"Idle", "Stale"} /\ (state'[s] = "NotCreated" => s \notin attached')
      BY DEF KeptInv, AgentsKept, DiskKept
<1> QED
    BY <1>3, <1>4, <1>5, <1>6

LEMMA QuietKeeps ==
  ASSUME KeptInv
  PROVE  /\ UNCHANGED <<state, run>> => AgentsKept
         /\ UNCHANGED attached /\ DiskSame /\ CarriesSame => DiskKept
BY DEF AgentsKept, DiskKept, DiskSame, CarriesSame, KeptInv, Works

(* Sessions that a process marks, and runs.                                *)
LEMMA MarksKeep ==
  ASSUME Typed, HandInv, WaitInv, KeptInv, NEW p \in Processes,
         SpawnRunner(p) \/ StartQueued(p) \/ FailLaunch(p) \/ FailRequest(p) \/ ProcessCrash(p)
  PROVE  AgentsKept
<1>1. CASE SpawnRunner(p) \/ StartQueued(p)
      <2>1. UNCHANGED state /\ (UNCHANGED run \/ \E s, cwd, by : StartRun(s, cwd, by))
            BY <1>1 DEF SpawnRunner, StartQueued, rowVars
      <2>2. ASSUME NEW s, NEW cwd, NEW by, StartRun(s, cwd, by)
            PROVE  \A r \in Runs : run'[r] = run[r] \/ run'[r].pc = "starting"
            <3>1. PICK r \in Runs :
                    run' = [run EXCEPT ![r] =
                              [pc |-> "starting", sess |-> s, cwd |-> cwd, by |-> by]]
                  BY <2>2 DEF StartRun
            <3> QED
                BY <3>1 DEF Typed, TypeOK
      <2>3. \A r \in Runs, s \in Sessions : Works(r, s)' => Works(r, s)
            BY <2>1, <2>2 DEF Works
      <2> QED
          BY <2>1, <2>3 DEF AgentsKept, KeptInv
<1>2. CASE FailLaunch(p) \/ FailRequest(p)
      <2>1. PICK s \in Sessions : s = proc[p].sess
            BY <1>2 DEF FailLaunch, FailRequest, Typed, Grounded, Busy
      <2>2. Holds(p, s) /\ Becomes(s, "Failed") /\ UNCHANGED run
            BY <1>2, <2>1 DEF FailLaunch, FailRequest, Holds, Making, Taking
      <2>3. (\A t \in Sessions \ {s} : state'[t] = state[t]) /\ state'[s] \in {state[s], "Failed"}
            BY <2>2, BecomesMoves
      <2>4. \A r \in Runs : ~Works(r, s)
            BY <2>2 DEF HandInv, InHand, Launched, Works
      <2> QED
          BY <2>2, <2>3, <2>4 DEF AgentsKept, KeptInv, Works, Live
<1>3. CASE ProcessCrash(p)
      <2>1. UNCHANGED state /\ run \in [Runs -> Run]
            BY <1>3 DEF ProcessCrash, rowVars, Typed, TypeOK
      <2>2. \A r \in Runs :
              /\ run'[r].sess = run[r].sess
              /\ run'[r].pc \in {"working", "orphan"} => run[r].pc \in {"working", "orphan"}
            BY <1>3, <2>1 DEF ProcessCrash, Run
      <2> QED
          BY <2>1, <2>2 DEF AgentsKept, KeptInv, Works
<1> QED
    BY <1>1, <1>2, <1>3

LEMMA RunsKeep ==
  ASSUME Typed, LaunchInv, HandInv, WaitInv, KeptInv, NEW r \in Runs,
         RunChecks(r) \/ RunStarts(r) \/ RunEnds(r) \/ OrphanEnds(r)
  PROVE  AgentsKept
<1>1. /\ run[r] \in Run /\ run \in [Runs -> Run]
      /\ run[r].pc \in {"starting", "spawning", "working", "orphan"}
      BY DEF RunChecks, RunStarts, RunEnds, OrphanEnds, Typed, TypeOK
<1>2. PICK s \in Sessions : s = run[r].sess
      BY <1>1 DEF Typed, Grounded
<1>3. CASE RunChecks(r) \/ OrphanEnds(r)
      <2>1. UNCHANGED state /\ \E pc \in {"spawning", "over"} : run' = [run EXCEPT ![r].pc = pc]
            BY <1>3 DEF RunChecks, OrphanEnds, rowVars
      <2>2. run'[r].pc \in {"spawning", "over"} /\ \A q \in Runs \ {r} : run'[q] = run[q]
            BY <1>1, <2>1 DEF Run
      <2> QED
          BY <2>1, <2>2 DEF AgentsKept, KeptInv, Works
<1>4. CASE RunStarts(r)
      <2>1. run[r].pc = "spawning" /\ Starting(r, s) /\ Launched(r, s)
            BY <1>2, <1>4 DEF RunStarts, Starting, Launched
      <2>2. state[s] = "Pending" /\ s \in attached
            BY <2>1 DEF WaitInv, HandInv, HasSlot
      <2>3. HasRow(s) /\ CanTransition(state[s], "Running")
            BY <2>2 DEF HasRow, SessionState, CanTransition, Successors
      <2>4. \/ Becomes(s, "Running") /\ run' = [run EXCEPT ![r].pc = "working"]
            \/ Becomes(s, "Failed") /\ run' = [run EXCEPT ![r].pc = "over"]
            BY <1>2, <1>4, <2>3 DEF RunStarts
      <2>5. /\ \A q \in Runs \ {r} : run'[q] = run[q]
            /\ run'[r].sess = s /\ run'[r].pc \in {"working", "over"}
            /\ state'[s] \in {"Pending", "Running", "Failed"}
            /\ run'[r].pc = "working" => state'[s] = "Running"
            /\ \A t \in Sessions \ {s} : state'[t] = state[t]
            BY <1>1, <1>2, <2>2, <2>3, <2>4 DEF Run, Becomes, Typed, TypeOK
      <2>6. \A q \in Runs : ~Works(q, s)
            BY <2>2 DEF KeptInv
      <2> QED
          BY <2>2, <2>5, <2>6 DEF AgentsKept, KeptInv, Works, Live
<1>5. CASE RunEnds(r)
      <2>1. run[r].pc = "working" /\ Works(r, s) /\ Going(r, s)
            BY <1>2, <1>5 DEF RunEnds, Works, Going
      <2>2. state[s] = "Running" /\ \A q \in Runs \ {r} : ~Works(q, s)
            BY <2>1 DEF KeptInv, LaunchInv, OneGoes, Works, Going
      <2>3. PICK to \in {"Completed", "Failed"} : Becomes(s, to)
            BY <1>2, <1>5 DEF RunEnds
      <2>4. (\A t \in Sessions \ {s} : state'[t] = state[t]) /\ state'[s] \in {state[s], to}
            BY <2>3, BecomesMoves
      <2>5. run'[r].pc = "over" /\ \A q \in Runs \ {r} : run'[q] = run[q]
            BY <1>1, <1>5 DEF RunEnds, Run
      <2> QED
          BY <2>2, <2>4, <2>5 DEF AgentsKept, KeptInv, Works, Live
<1> QED
    BY <1>3, <1>4, <1>5

LEMMA DiskStepsKeep ==
  ASSUME Typed, LaunchInv, WaitInv, KeptInv, LaunchInv', WaitInv',
         NEW p \in Processes, NEW s \in Sessions, DiskSteps(p, s)
  PROVE  KeptInv'
<1>1. CASE InsertSession(p) /\ proc[p].sess = s
      <2>1. /\ proc[p].pc = "insert" /\ state[s] = "NotCreated" /\ UNCHANGED <<disk, run>>
            /\ attached' = IF proc[p].cwd = "worktree" THEN attached \cup {s} ELSE attached
            BY <1>1 DEF InsertSession, LaunchInv, Creates
      <2>2. state'[s] = "Pending" /\ \A t \in Sessions \ {s} : state'[t] = state[t]
            BY <1>1 DEF InsertSession, Typed, TypeOK
      <2>3. AgentsKept
            BY <2>1, <2>2 DEF AgentsKept, KeptInv, Works
      <2>4. proc[p].cwd = "worktree" => disk[s] = "worktree"
            BY <1>1, <2>1 DEF KeptInv, Carries
      <2>5. \E pc \in {"launch", "enqueue"} : Turned(p, pc, s, proc[p].todo)
            BY <1>1, GotoTurns DEF InsertSession
      <2>6. \A q \in Processes, t \in Sessions : Carries(q, t)' => Carries(q, t)
            BY <2>5 DEF Turned, Carries
      <2>7. DiskKept
            BY <2>1, <2>2, <2>4, <2>6 DEF DiskKept
      <2> QED
          BY <2>3, <2>7, KeptStays
<1>2. CASE DeleteRow(p) /\ proc[p].sess = s
      <2>1. Cleaning(p, s) /\ state[s] \in Gone /\ UNCHANGED <<disk, run>>
            BY <1>2 DEF DeleteRow, Cleaning, WaitInv
      <2>2. /\ \A t \in Sessions \ {s} : state'[t] = state[t]
            /\ state'[s] = "Deleted" /\ attached \ {s} \subseteq attached'
            /\ attached' \subseteq attached
            BY <1>2, <2>1 DEF DeleteRow, HasRow, Gone, Inactive, SessionState, Typed, TypeOK
      <2>3. AgentsKept
            BY <2>1, <2>2 DEF AgentsKept, KeptInv, Works, Gone, Inactive, Live
      <2>4. proc[p].pc = "delete" /\ Rested(p)
            BY <1>2, DoneRests DEF DeleteRow
      <2>5. CarriesSame
            BY <2>4, RestedCarries
      <2>6. DiskKept
            BY <2>1, <2>2, <2>5 DEF DiskKept, CarriesSame, Gone
      <2> QED
          BY <2>3, <2>6, KeptStays
<1>3. ASSUME UNCHANGED <<state, run>>, DiskKept PROVE KeptInv'
      BY <1>3, QuietKeeps, KeptStays
<1>4. CASE BeginDelete(p, s)
      <2>1. /\ proc[p].pc = "idle" /\ UNCHANGED <<rowVars, disk, run>>
            /\ \E pc \in {"discard", "delete"} : Turned(p, pc, s, proc[p].todo)
            BY <1>4, BeginsTurn DEF BeginDelete, May
      <2>2. CarriesSame
            BY <2>1, TurnedCarries
      <2> QED
          BY <1>3, <2>1, <2>2 DEF DiskKept, CarriesSame, rowVars
<1>5. CASE (CreateWorktree(p) \/ MakeWorktree(p)) /\ proc[p].sess = s
      <2>1. proc[p].pc \in {"create", "make"} /\ UNCHANGED <<rowVars, run>>
            BY <1>5 DEF CreateWorktree, MakeWorktree
      <2>2. \/ AddWorktree(s) /\ \E pc \in {"insert", "attach"} : Turned(p, pc, s, proc[p].todo)
            \/ UNCHANGED disk /\ (Rested(p) \/ Turned(p, "fail", s, proc[p].todo))
            BY <1>5, StepsTurn, GotoTurns DEF MakeWorktree
      <2>3. CASE AddWorktree(s) /\ \E pc \in {"insert", "attach"} : Turned(p, pc, s, proc[p].todo)
            <3>1. disk'[s] = "worktree" /\ \A t \in Sessions \ {s} : disk'[t] = disk[t]
                  BY <2>3 DEF AddWorktree, Typed, TypeOK
            <3>2. \A q \in Processes, t \in Sessions : Carries(q, t)' => Carries(q, t) \/ t = s
                  BY <2>3 DEF Turned, Carries
            <3>3. DiskKept
                  BY <2>1, <3>1, <3>2 DEF DiskKept, rowVars
            <3> QED
                BY <1>3, <2>1, <3>3 DEF rowVars
      <2>4. CASE UNCHANGED disk /\ (Rested(p) \/ Turned(p, "fail", s, proc[p].todo))
            <3>1. CarriesSame
                  BY <2>1, <2>4, RestedCarries, TurnedCarries
            <3> QED
                BY <1>3, <2>1, <2>4, <3>1 DEF DiskKept, CarriesSame, rowVars
      <2> QED
          BY <2>2, <2>3, <2>4
<1>6. CASE AttachWorktree(p) /\ proc[p].sess = s
      <2>1. proc[p].pc = "attach" /\ Bound(p, s) /\ Carries(p, s)
            BY <1>6 DEF AttachWorktree, Bound, Carries, Taking
      <2>2. state[s] = "Pending" /\ disk[s] = "worktree"
            BY <2>1 DEF WaitInv, KeptInv
      <2>3. /\ attached' = attached \cup {s} /\ UNCHANGED <<state, disk, run>>
            /\ Turned(p, "start", s, proc[p].todo)
            BY <1>6, <2>2, GotoTurns DEF AttachWorktree, HasRow, SessionState
      <2>4. \A q \in Processes, t \in Sessions : Carries(q, t)' => Carries(q, t)
            BY <2>3 DEF Turned, Carries
      <2> QED
          BY <1>3, <2>2, <2>3, <2>4 DEF DiskKept
<1>7. CASE (RemoveUnlaunched(p) \/ RemoveOne(p)) /\ proc[p].sess = s
      <2>1. /\ proc[p].pc \in {"undo", "remove", "discard"} /\ RemoveWorktree(s)
            /\ UNCHANGED <<rowVars, run>>
            /\ Rested(p) \/ \E pc \in {"clear", "delete"} : Turned(p, pc, s, proc[p].todo)
            BY <1>7, DoneRests, GotoTurns DEF RemoveUnlaunched, RemoveOne
      <2>2. state[s] \in Gone
            BY <1>7, <2>1 DEF WaitInv, Cleaning
      <2>3. \A t \in Sessions \ {s} : disk'[t] = disk[t]
            BY <2>1 DEF RemoveWorktree, Typed, TypeOK
      <2>4. CarriesSame
            BY <2>1, RestedCarries, TurnedCarries
      <2> QED
          BY <1>3, <2>1, <2>2, <2>3, <2>4 DEF DiskKept, CarriesSame, rowVars
<1>8. CASE ClearWorktree(p) /\ proc[p].sess = s
      <2>1. /\ proc[p].pc = "clear" /\ UNCHANGED <<state, disk, run>>
            /\ attached \ {s} \subseteq attached' /\ attached' \subseteq attached
            BY <1>8 DEF ClearWorktree
      <2>2. state[s] \in Gone
            BY <1>8, <2>1 DEF WaitInv, Cleaning
      <2>3. CarriesSame
            BY <1>8, <2>1, StepsTurn, RestedCarries, TurnedCarries
      <2> QED
          BY <1>3, <2>1, <2>2, <2>3 DEF DiskKept, CarriesSame
<1> QED
    BY <1>1, <1>2, <1>4, <1>5, <1>6, <1>7, <1>8 DEF DiskSteps

LEMMA KeptStep ==
  ASSUME Typed, LaunchInv, HandInv, WaitInv, KeptInv, LaunchInv', WaitInv',
         NoRelaunch, NoStop, NoSweep, [Next]_vars
  PROVE  KeptInv'
<1>1. AgentsKept /\ UNCHANGED attached /\ DiskSame /\ CarriesSame => KeptInv'
      BY QuietKeeps, KeptStays
<1>2. UNCHANGED <<state, run>> => AgentsKept
      BY QuietKeeps
<1>3. ASSUME NEW p \in Processes, Request(p) PROVE KeptInv'
      <2>1. PICK s \in Sessions :
              BeginQueue(p, s) \/ BeginCleanup(p, s) \/ BeginResume(p, s) \/ BeginDelete(p, s)
            BY <1>3 DEF Request
      <2>2. ~BeginCleanup(p, s) /\ ~BeginResume(p, s)
            BY DEF BeginCleanup, BeginResume, May, NoRelaunch
      <2>3. CASE BeginQueue(p, s)
            BY <1>1, <1>2, <2>3, QuietDisk DEF BeginQueue, rowVars
      <2> QED
          BY <2>1, <2>2, <2>3, DiskStepsKeep DEF DiskSteps
<1>4. ASSUME NEW p \in Processes, ProcessStep(p) PROVE KeptInv'
      <2>1. CASE \/ CreateWorktree(p) \/ InsertSession(p) \/ MakeWorktree(p) \/ AttachWorktree(p)
                 \/ RemoveUnlaunched(p) \/ RemoveOne(p) \/ ClearWorktree(p) \/ DeleteRow(p)
            <3>1. PICK s \in Sessions : s = proc[p].sess
                  BY <2>1 DEF CreateWorktree, InsertSession, MakeWorktree, AttachWorktree,
                     RemoveUnlaunched, RemoveOne, ClearWorktree, DeleteRow, Typed, Grounded, Busy
            <3> QED
                BY <2>1, <3>1, DiskStepsKeep DEF DiskSteps
      <2>2. CASE EnqueueRequest(p) \/ TakeRequest(p) \/ DequeueStarted(p)
            BY <1>1, <1>2, <2>2, QuietDisk DEF EnqueueRequest, TakeRequest, DequeueStarted, rowVars
      <2>3. CASE CleanOne(p)
            BY <1>1, <1>2, <2>3, QuietDisk, CleansGone DEF rowVars
      <2>4. CASE SpawnRunner(p) \/ StartQueued(p) \/ FailLaunch(p) \/ FailRequest(p)
            BY <1>1, <2>4, QuietDisk, MarksKeep
      <2> QED
          BY <1>4, <2>1, <2>2, <2>3, <2>4 DEF ProcessStep
<1>5. ASSUME NEW p \in Processes, BeginActivate(p) \/ BeginPrune(p) PROVE KeptInv'
      BY <1>1, <1>2, <1>5, QuietDisk DEF BeginActivate, BeginPrune, rowVars
<1>6. ASSUME NEW p \in Processes, ProcessCrash(p) PROVE KeptInv'
      <2>1. Rested(p) /\ UNCHANGED <<attached, disk>>
            BY <1>6, DoneRests DEF ProcessCrash, rowVars
      <2>2. \A q \in Processes, t \in Sessions : Carries(q, t)' => Carries(q, t)
            BY <2>1 DEF Rested, Turned, Carries
      <2>3. DiskKept
            BY <2>1, <2>2 DEF DiskKept
      <2> QED
          BY <1>6, <2>3, MarksKeep, KeptStays
<1>7. ASSUME NEW r \in Runs, RunChecks(r) \/ RunStarts(r) \/ RunEnds(r) \/ OrphanEnds(r)
      PROVE  KeptInv'
      BY <1>1, <1>7, QuietDisk, RunsKeep
<1>8. CASE UNCHANGED vars
      BY <1>1, <1>2, <1>8, QuietDisk DEF vars
<1>9. \A s \in Sessions : ~Stop(s) /\ ~GoesStale(s)
      BY DEF Stop, NoStop, GoesStale, NoSweep
<1> QED
    BY <1>3, <1>4, <1>5, <1>6, <1>7, <1>8, <1>9 DEF Next

(* The worktree an agent was started in stays there as long as it works,   *)
(* wherever git fails and whoever dies: a prune and a delete look at the   *)
(* row (prune_inactive_worktrees, delete_session), and the row of a working*)
(* agent says Running, as long as nobody stops, resumes or cleans up a     *)
(* session by hand and no sweep marks a working session stale.             *)
THEOREM WorktreeStays ==
  ASSUME NoRelaunch, OneActivator, NoStop, NoSweep
  PROVE  Spec => []WorktreeKeptWhileWorking
<1>1. Spec => []Typed
      BY TypedInit, TypedStep, PTL DEF Spec
<1>2. Typed /\ LaunchInv /\ [Next]_vars => LaunchInv'
      BY LaunchStep
<1>3. Typed /\ LaunchInv /\ HandInv /\ [Next]_vars => HandInv'
      BY HandStep
<1>4. Typed /\ LaunchInv /\ HandInv /\ WaitInv /\ [Next]_vars => WaitInv'
      BY WaitStep
<1>5. Typed /\ LaunchInv /\ HandInv /\ WaitInv /\ KeptInv /\ [Next]_vars
        /\ LaunchInv' /\ WaitInv' => KeptInv'
      BY KeptStep
<1>6. Typed /\ KeptInv => WorktreeKeptWhileWorking
      BY DEF KeptInv, WorktreeKeptWhileWorking, Works, Live, Typed, Grounded
<1> QED
    BY <1>1, <1>2, <1>3, <1>4, <1>5, <1>6, LaunchInit, HandInit, WaitInit, KeptInit, PTL DEF Spec
=============================================================================

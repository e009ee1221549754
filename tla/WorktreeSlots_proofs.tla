----------------------- MODULE WorktreeSlots_proofs -----------------------
(***************************************************************************)
(* Proofs about WorktreeSlots, for any number of sessions, runs, processes *)
(* and slots: types, the limit on worktrees, one agent per session, and    *)
(* requests that are not lost.                                             *)
(***************************************************************************)
EXTENDS WorktreeSlots, FiniteSetTheorems, TLAPS

-----------------------------------------------------------------------------
(* The queue.                                                              *)

(* A dequeue leaves a queue.                                               *)
LEMMA WithoutType ==
  ASSUME NEW q \in Seq(Sessions), NEW s
  PROVE  Without(q, s) \in Seq(Sessions)
<1> DEFINE place == CHOOSE i \in DOMAIN q : q[i] = s
<1>1. CASE \E i \in DOMAIN q : q[i] = s
      <2>1. place \in DOMAIN q
            BY <1>1
      <2>2. place \in 1..Len(q)
            BY <2>1
      <2>3. SubSeq(q, 1, place - 1) \in Seq(Sessions)
            <3> HIDE DEF place
            <3> QED BY <2>2
      <2>4. SubSeq(q, place + 1, Len(q)) \in Seq(Sessions)
            <3> HIDE DEF place
            <3> QED BY <2>2
      <2> QED
          BY <1>1, <2>3, <2>4 DEF Without
<1>2. CASE ~\E i \in DOMAIN q : q[i] = s
      BY <1>2 DEF Without
<1> QED
    BY <1>1, <1>2

(* Every request that is left was there before.                            *)
LEMMA WithoutRange ==
  ASSUME NEW q \in Seq(Sessions), NEW s
  PROVE  \A i \in DOMAIN Without(q, s) : \E j \in DOMAIN q : Without(q, s)[i] = q[j]
<1> DEFINE place == CHOOSE i \in DOMAIN q : q[i] = s
           head == SubSeq(q, 1, place - 1)
           tail == SubSeq(q, place + 1, Len(q))
<1>1. CASE \E i \in DOMAIN q : q[i] = s
      <2>1. place \in 1..Len(q)
            BY <1>1
      <2> SUFFICES ASSUME NEW i \in DOMAIN (head \o tail)
                   PROVE  \E j \in DOMAIN q : (head \o tail)[i] = q[j]
          BY <1>1 DEF Without
      <2> HIDE DEF place
      <2>2. head \in Seq(Sessions) /\ Len(head) = place - 1 /\ \A j \in 1..(place - 1) : head[j] = q[j]
            BY <2>1
      <2>3. /\ tail \in Seq(Sessions) /\ Len(tail) = Len(q) - place
            /\ \A j \in 1..(Len(q) - place) : tail[j] = q[place + j]
            BY <2>1
      <2> HIDE DEF head, tail
      <2>4. i \in 1..(Len(head) + Len(tail))
            BY <2>2, <2>3
      <2>5. CASE i <= Len(head)
            <3>1. (head \o tail)[i] = q[i] /\ i \in DOMAIN q
                  BY <2>1, <2>2, <2>3, <2>4, <2>5
            <3> QED BY <3>1
      <2>6. CASE i > Len(head)
            <3>1. (head \o tail)[i] = tail[i - Len(head)] /\ i - Len(head) \in 1..(Len(q) - place)
                  BY <2>1, <2>2, <2>3, <2>4, <2>6
            <3>2. tail[i - Len(head)] = q[place + (i - Len(head))] /\ place + (i - Len(head)) \in DOMAIN q
                  BY <3>1, <2>1, <2>2, <2>3
            <3> QED BY <3>1, <3>2
      <2> QED
          BY <2>4, <2>2, <2>3, <2>5, <2>6
<1>2. CASE ~\E i \in DOMAIN q : q[i] = s
      BY <1>2 DEF Without
<1> QED
    BY <1>1, <1>2
-----------------------------------------------------------------------------
(* Types.                                                                  *)

(* A process in the middle of something has a session at hand, one that    *)
(* makes a worktree has a slot for it, and one that rests has made none.   *)
Busy(d) ==
  /\ d.pc \notin {"idle", "activate", "next", "clean"} => d.sess \in Sessions
  /\ d.pc \in {"make", "attach", "start", "dequeue"} => d.slots > 0
  /\ d.pc \in {"idle", "activate"} => d.cwd = "repo"

(* What types alone do not say and types need.                             *)
Grounded ==
  /\ IsFiniteSet(attached)
  /\ \A p \in Processes : Busy(proc[p])
  /\ \A r \in Runs : run[r].pc # "unused" => run[r].sess \in Sessions
  /\ \A s \in Sessions : pid[s] # NoRun => run[pid[s]].pc # "unused"

Typed == TypeOK /\ Grounded

LEMMA NothingType == Nothing \in Process /\ Busy(Nothing)
BY SlotsAssumption DEF Nothing, Process, ProcessPC, Place, Busy

LEMMA ProcessType == TypeOK => \A p \in Processes : proc[p] \in Process
BY DEF TypeOK

LEMMA TypedInit == Init => Typed
<1> SUFFICES ASSUME Init PROVE Typed
    OBVIOUS
<1>1. TypeOK
      BY NothingType, SlotsAssumption DEF Init, TypeOK, RowState, Place, Run
<1>2. Grounded
      BY NothingType, FS_EmptySet DEF Init, Grounded, Busy
<1> QED
    BY <1>1, <1>2 DEF Typed

(* The free slots are those that are left.                                 *)
LEMMA FreeSlotsType ==
  ASSUME IsFiniteSet(attached)
  PROVE  /\ FreeSlots \in 0..MaxWorktrees
         /\ FreeSlots > 0 => Cardinality(attached) + FreeSlots = MaxWorktrees
BY FS_CardinalityType, SlotsAssumption DEF FreeSlots

(* The parts of Typed in the next state.                                   *)
ProcsTyped == proc' \in [Processes -> Process] /\ \A p \in Processes : Busy(proc'[p])

StoreTyped ==
  queue' \in Seq(Sessions) /\ disk' \in [Sessions -> {"absent", "worktree", "plain"}]

RunsTyped ==
  /\ run' \in [Runs -> Run]
  /\ \A r \in Runs : run'[r].pc # "unused" => run'[r].sess \in Sessions
  /\ \A r \in Runs : run[r].pc # "unused" => run'[r].pc # "unused"

RowsTyped ==
  /\ state' \in [Sessions -> RowState]
  /\ pid' \in [Sessions -> Runs \cup {NoRun}]
  /\ \A s \in Sessions : pid'[s] # NoRun => run'[pid'[s]].pc # "unused"
  /\ attached' \subseteq Sessions /\ IsFiniteSet(attached')
  /\ home' \in [Sessions -> Place]

LEMMA PartsTyped ==
  ASSUME ProcsTyped, StoreTyped, RunsTyped, RowsTyped
  PROVE  Typed'
BY DEF ProcsTyped, StoreTyped, RunsTyped, RowsTyped, Typed, TypeOK, Grounded

(* What a step leaves alone keeps its types.                               *)
LEMMA SameProcs == Typed /\ UNCHANGED proc => ProcsTyped
BY DEF Typed, TypeOK, Grounded, ProcsTyped

LEMMA SameStore == Typed /\ UNCHANGED <<queue, disk>> => StoreTyped
BY DEF Typed, TypeOK, StoreTyped

LEMMA SameRuns == Typed /\ UNCHANGED run => RunsTyped
BY DEF Typed, TypeOK, Grounded, RunsTyped

LEMMA SameRows == Typed /\ RunsTyped /\ UNCHANGED rowVars => RowsTyped
BY DEF Typed, TypeOK, Grounded, RunsTyped, RowsTyped, rowVars

(* A process that turns to something else leaves the processes typed.      *)
LEMMA TurnsType ==
  ASSUME Typed, NEW p \in Processes, NEW d \in Process, Busy(d),
         proc' = [proc EXCEPT ![p] = d]
  PROVE  ProcsTyped
BY DEF Typed, TypeOK, Grounded, ProcsTyped

LEMMA DoneType ==
  ASSUME Typed, NEW p \in Processes, Done(p)
  PROVE  ProcsTyped
BY NothingType, TurnsType DEF Done

LEMMA EndPruneType ==
  ASSUME Typed, NEW p \in Processes, EndPrune(p)
  PROVE  ProcsTyped
<1> DEFINE d == [Nothing EXCEPT !.pc = IF p \in Daemons THEN "activate" ELSE "idle"]
<1>1. d \in Process /\ Busy(d)
      BY SlotsAssumption DEF Nothing, Process, ProcessPC, Place, Busy
<1> QED
    BY <1>1, TurnsType DEF EndPrune

(* A process that goes on with the same session.                           *)
LEMMA GotoType ==
  ASSUME Typed, NEW p \in Processes, NEW pc \in ProcessPC, Goto(p, pc),
         proc[p].sess \in Sessions,
         pc \in {"make", "attach", "start", "dequeue"} => proc[p].slots > 0,
         pc \notin {"idle", "activate"}
  PROVE  ProcsTyped
<1> DEFINE d == [proc[p] EXCEPT !.pc = pc]
<1>1. d \in Process /\ Busy(d)
      BY ProcessType DEF Typed, Process, Busy
<1>2. proc' = [proc EXCEPT ![p] = d]
      BY DEF Goto
<1> QED
    BY <1>1, <1>2, TurnsType

LEMMA BecomesType ==
  ASSUME TypeOK, NEW s \in Sessions, NEW to \in SessionState, Becomes(s, to)
  PROVE  state' \in [Sessions -> RowState]
BY DEF TypeOK, Becomes, RowState

LEMMA RemoveWorktreeType ==
  ASSUME TypeOK, NEW s \in Sessions, RemoveWorktree(s)
  PROVE  disk' \in [Sessions -> {"absent", "worktree", "plain"}]
BY DEF TypeOK, RemoveWorktree

LEMMA AddWorktreeType ==
  ASSUME TypeOK, NEW s \in Sessions, AddWorktree(s)
  PROVE  disk' \in [Sessions -> {"absent", "worktree", "plain"}]
BY DEF TypeOK, AddWorktree

(* The runs after a start, or after a run has moved on.                    *)
LEMMA StartRunType ==
  ASSUME Typed, NEW s \in Sessions, NEW cwd \in Place,
         NEW by \in Processes \cup {"detached"}, StartRun(s, cwd, by)
  PROVE  RunsTyped
<1> PICK r \in Runs :
      /\ run[r].pc = "unused"
      /\ run' = [run EXCEPT ![r] = [pc |-> "starting", sess |-> s, cwd |-> cwd, by |-> by]]
    BY DEF StartRun
<1>1. [pc |-> "starting", sess |-> s, cwd |-> cwd, by |-> by] \in Run
      BY DEF Run
<1> QED
    BY <1>1 DEF Typed, TypeOK, Grounded, RunsTyped

LEMMA RunMovesType ==
  ASSUME Typed, NEW r \in Runs, run[r].pc # "unused",
         NEW pc \in {"spawning", "working", "orphan", "over"},
         run' = [run EXCEPT ![r].pc = pc]
  PROVE  RunsTyped
<1>1. run[r] \in Run /\ run[r].sess \in Sessions
      BY DEF Typed, TypeOK, Grounded
<1>2. [run[r] EXCEPT !.pc = pc] \in Run
      BY <1>1 DEF Run
<1> QED
    BY <1>1, <1>2 DEF Typed, TypeOK, Grounded, RunsTyped, Run

LEMMA KillRecordedType ==
  ASSUME Typed, NEW s \in Sessions, KillRecorded(s)
  PROVE  RunsTyped
<1>1. CASE pid[s] = NoRun
      BY <1>1 DEF KillRecorded, Typed, TypeOK, Grounded, RunsTyped
<1>2. CASE pid[s] # NoRun
      <2>1. pid[s] \in Runs /\ run[pid[s]].pc # "unused"
            BY <1>2 DEF Typed, TypeOK, Grounded
      <2>2. run' = [run EXCEPT ![pid[s]].pc = "over"]
            BY <1>2 DEF KillRecorded
      <2> QED
          BY <2>1, <2>2, RunMovesType
<1> QED
    BY <1>1, <1>2
(* Requests and passes begin.                                              *)
LEMMA BeginsTyped ==
  ASSUME Typed, NEW p \in Processes,
         Request(p) \/ BeginActivate(p) \/ BeginPrune(p)
  PROVE  Typed'
<1> USE ProcessType DEF Typed
<1>1. ASSUME NEW s \in Sessions, BeginQueue(p, s) PROVE Typed'
      <2> DEFINE d == [proc[p] EXCEPT !.sess = s,
                                      !.pc = IF FreeSlots > 0 THEN "create" ELSE "insert"]
      <2>1. d \in Process /\ Busy(d)
            BY DEF Process, ProcessPC, Busy
      <2>2. ProcsTyped
            BY <1>1, <2>1, TurnsType DEF BeginQueue
      <2> QED
          BY <1>1, <2>2, SameRuns, SameRows, SameStore, PartsTyped DEF BeginQueue
<1>2. ASSUME NEW s \in Sessions, BeginCleanup(p, s) PROVE Typed'
      <2> DEFINE d == [proc[p] EXCEPT !.pc = "clean", !.todo = {s}]
      <2>1. d \in Process /\ Busy(d)
            BY DEF Process, ProcessPC, Busy
      <2>2. ProcsTyped
            BY <1>2, <2>1, TurnsType DEF BeginCleanup
      <2> QED
          BY <1>2, <2>2, SameRuns, SameRows, SameStore, PartsTyped DEF BeginCleanup
<1>3. ASSUME NEW s \in Sessions, BeginResume(p, s) PROVE Typed'
      <2> DEFINE d == [proc[p] EXCEPT !.pc = "relaunch", !.sess = s, !.cwd = home[s]]
      <2>1. d \in Process /\ Busy(d)
            BY DEF Process, ProcessPC, Busy, TypeOK
      <2>2. ProcsTyped
            BY <1>3, <2>1, TurnsType DEF BeginResume
      <2>3. RunsTyped
            BY <1>3, SameRuns DEF BeginResume
      <2>4. RowsTyped
            BY <1>3 DEF BeginResume, RowsTyped, TypeOK, Grounded, RowState, SessionState
      <2> QED
          BY <1>3, <2>2, <2>3, <2>4, SameStore, PartsTyped DEF BeginResume
<1>4. ASSUME NEW s \in Sessions, BeginDelete(p, s) PROVE Typed'
      <2> DEFINE d == [proc[p] EXCEPT !.pc = IF s \in attached THEN "discard" ELSE "delete",
                                      !.sess = s]
      <2>1. d \in Process /\ Busy(d)
            BY DEF Process, ProcessPC, Busy
      <2>2. ProcsTyped
            BY <1>4, <2>1, TurnsType DEF BeginDelete
      <2> QED
          BY <1>4, <2>2, SameRuns, SameRows, SameStore, PartsTyped DEF BeginDelete
<1>5. CASE BeginActivate(p)
      <2> DEFINE d == [Nothing EXCEPT !.pc = "next", !.slots = FreeSlots,
                         !.todo = {queue[i] : i \in {j \in DOMAIN queue : j <= FreeSlots}}]
      <2>1. {queue[i] : i \in {j \in DOMAIN queue : j <= FreeSlots}} \subseteq Sessions
            BY DEF TypeOK
      <2>2. FreeSlots \in 0..MaxWorktrees
            BY FreeSlotsType DEF Grounded
      <2>3. d \in Process /\ Busy(d)
            BY <2>1, <2>2, NothingType DEF Process, ProcessPC, Busy
      <2>4. ProcsTyped
            BY <1>5, <2>3, TurnsType, DoneType DEF BeginActivate
      <2> QED
          BY <1>5, <2>4, SameRuns, SameRows, SameStore, PartsTyped DEF BeginActivate
<1>6. CASE BeginPrune(p)
      <2> DEFINE d == [proc[p] EXCEPT !.pc = "clean",
                                      !.todo = {s \in attached : state[s] \in Inactive}]
      <2>1. d \in Process /\ Busy(d)
            BY DEF Process, ProcessPC, Busy, TypeOK
      <2>2. ProcsTyped
            BY <1>6, <2>1, TurnsType DEF BeginPrune
      <2> QED
          BY <1>6, <2>2, SameRuns, SameRows, SameStore, PartsTyped DEF BeginPrune
<1> QED
    BY <1>1, <1>2, <1>3, <1>4, <1>5, <1>6 DEF Request

(* The steps of queueing a session.                                        *)
LEMMA QueueingTyped ==
  ASSUME Typed, NEW p \in Processes,
         \/ CreateWorktree(p) \/ InsertSession(p) \/ EnqueueRequest(p) \/ SpawnRunner(p)
         \/ FailLaunch(p) \/ RemoveUnlaunched(p)
  PROVE  Typed'
<1> DEFINE s == proc[p].sess
<1> USE ProcessType DEF Typed
<1>1. CASE CreateWorktree(p)
      <2>1. s \in Sessions
            BY <1>1 DEF CreateWorktree, Grounded, Busy
      <2> DEFINE d == [proc[p] EXCEPT !.cwd = "worktree", !.pc = "insert"]
      <2>2. d \in Process /\ Busy(d)
            BY <2>1 DEF Process, ProcessPC, Busy, Place
      <2>3. proc' = [proc EXCEPT ![p] = d] \/ Done(p)
            BY <1>1 DEF CreateWorktree, TypeOK
      <2>4. ProcsTyped
            BY <2>2, <2>3, TurnsType, DoneType
      <2>5. StoreTyped
            BY <1>1, <2>1, AddWorktreeType DEF CreateWorktree, StoreTyped, TypeOK
      <2> QED
          BY <1>1, <2>4, <2>5, SameRuns, SameRows, PartsTyped DEF CreateWorktree
<1>2. CASE InsertSession(p)
      <2>1. s \in Sessions /\ proc[p].cwd \in Place
            BY <1>2 DEF InsertSession, Grounded, Busy, Process
      <2>2. ProcsTyped
            BY <1>2, <2>1, GotoType DEF InsertSession, ProcessPC
      <2>3. RunsTyped
            BY <1>2, SameRuns DEF InsertSession
      <2>4. attached' \subseteq Sessions /\ IsFiniteSet(attached')
            BY <1>2, <2>1, FS_AddElement DEF InsertSession, TypeOK, Grounded
      <2>5. RowsTyped
            BY <1>2, <2>1, <2>4 DEF InsertSession, RowsTyped, TypeOK, Grounded, RowState,
               SessionState
      <2> QED
          BY <1>2, <2>2, <2>3, <2>5, SameStore, PartsTyped DEF InsertSession
<1>3. CASE EnqueueRequest(p)
      <2>1. s \in Sessions
            BY <1>3 DEF EnqueueRequest, Grounded, Busy
      <2>2. StoreTyped
            BY <1>3, <2>1 DEF EnqueueRequest, StoreTyped, TypeOK
      <2> QED
          BY <1>3, <2>2, DoneType, SameRuns, SameRows, PartsTyped DEF EnqueueRequest
<1>4. CASE SpawnRunner(p)
      <2>1. s \in Sessions /\ proc[p].cwd \in Place
            BY <1>4 DEF SpawnRunner, Grounded, Busy, Process
      <2>2. ProcsTyped
            BY <1>4, <2>1, GotoType, DoneType DEF SpawnRunner, ProcessPC
      <2>3. RunsTyped
            BY <1>4, <2>1, StartRunType, SameRuns DEF SpawnRunner
      <2>4. StoreTyped
            BY <1>4, <2>1 DEF SpawnRunner, StoreTyped, TypeOK
      <2> QED
          BY <1>4, <2>2, <2>3, <2>4, SameRows, PartsTyped DEF SpawnRunner
<1>5. CASE FailLaunch(p)
      <2>1. s \in Sessions
            BY <1>5 DEF FailLaunch, Grounded, Busy
      <2>2. ProcsTyped
            BY <1>5, <2>1, GotoType, DoneType DEF FailLaunch, ProcessPC
      <2>3. state' \in [Sessions -> RowState]
            BY <1>5, <2>1, BecomesType DEF FailLaunch, SessionState
      <2>4. RunsTyped
            BY <1>5, SameRuns DEF FailLaunch
      <2>5. RowsTyped
            BY <1>5, <2>3 DEF FailLaunch, RowsTyped, TypeOK, Grounded
      <2> QED
          BY <1>5, <2>2, <2>4, <2>5, SameStore, PartsTyped DEF FailLaunch
<1>6. CASE RemoveUnlaunched(p)
      <2>1. s \in Sessions
            BY <1>6 DEF RemoveUnlaunched, Grounded, Busy
      <2>2. StoreTyped
            BY <1>6, <2>1, RemoveWorktreeType DEF RemoveUnlaunched, StoreTyped, TypeOK
      <2> QED
          BY <1>6, <2>2, DoneType, SameRuns, SameRows, PartsTyped DEF RemoveUnlaunched
<1> QED
    BY <1>1, <1>2, <1>3, <1>4, <1>5, <1>6

(* The steps of an activation pass.                                        *)
LEMMA ActivationTyped ==
  ASSUME Typed, NEW p \in Processes,
         \/ TakeRequest(p) \/ MakeWorktree(p) \/ FailRequest(p) \/ AttachWorktree(p)
         \/ StartQueued(p) \/ DequeueStarted(p)
  PROVE  Typed'
<1> DEFINE s == proc[p].sess
<1> USE ProcessType DEF Typed
<1>1. CASE TakeRequest(p)
      <2>1. ProcsTyped /\ StoreTyped
            <3>1. CASE Done(p) /\ UNCHANGED queue
                  BY <1>1, <3>1, DoneType DEF TakeRequest, StoreTyped, TypeOK
            <3>2. ASSUME NEW t \in proc[p].todo, proc[p].slots > 0,
                         proc' = [proc EXCEPT ![p].pc = "make", ![p].sess = t, ![p].todo = @ \ {t}],
                         UNCHANGED queue
                  PROVE  ProcsTyped /\ StoreTyped
                  <4> DEFINE d == [proc[p] EXCEPT !.pc = "make", !.sess = t, !.todo = @ \ {t}]
                  <4>1. d \in Process /\ Busy(d)
                        BY <3>2 DEF Process, ProcessPC, Busy
                  <4>2. proc' = [proc EXCEPT ![p] = d]
                        BY <3>2 DEF TypeOK
                  <4>3. ProcsTyped
                        BY <4>1, <4>2, TurnsType
                  <4> QED
                      BY <1>1, <3>2, <4>3 DEF TakeRequest, StoreTyped, TypeOK
            <3>3. ASSUME NEW t \in proc[p].todo,
                         proc' = [proc EXCEPT ![p].todo = @ \ {t}], queue' = Without(queue, t)
                  PROVE  ProcsTyped /\ StoreTyped
                  <4> DEFINE d == [proc[p] EXCEPT !.todo = @ \ {t}]
                  <4>1. d \in Process /\ Busy(d)
                        BY DEF Process, Busy, Grounded
                  <4>2. Without(queue, t) \in Seq(Sessions)
                        BY WithoutType DEF TypeOK
                  <4> QED
                      BY <1>1, <3>3, <4>1, <4>2, TurnsType DEF TakeRequest, StoreTyped, TypeOK
            <3> QED
                BY <1>1, <3>1, <3>2, <3>3 DEF TakeRequest
      <2> QED
          BY <1>1, <2>1, SameRuns, SameRows, PartsTyped DEF TakeRequest
<1>2. CASE MakeWorktree(p)
      <2>1. s \in Sessions /\ proc[p].slots > 0
            BY <1>2 DEF MakeWorktree, Grounded, Busy
      <2>2. ProcsTyped
            BY <1>2, <2>1, GotoType DEF MakeWorktree, ProcessPC
      <2>3. StoreTyped
            BY <1>2, <2>1, AddWorktreeType DEF MakeWorktree, StoreTyped, TypeOK
      <2> QED
          BY <1>2, <2>2, <2>3, SameRuns, SameRows, PartsTyped DEF MakeWorktree
<1>3. CASE FailRequest(p)
      <2>1. s \in Sessions
            BY <1>3 DEF FailRequest, Grounded, Busy
      <2> DEFINE d == [proc[p] EXCEPT !.pc = "next", !.sess = NoSession]
      <2>2. d \in Process /\ Busy(d)
            BY DEF Process, ProcessPC, Busy
      <2>3. proc' = [proc EXCEPT ![p] = d] \/ Done(p)
            BY <1>3 DEF FailRequest, TypeOK
      <2>4. ProcsTyped
            BY <2>2, <2>3, TurnsType, DoneType
      <2>5. state' \in [Sessions -> RowState]
            BY <1>3, <2>1, BecomesType DEF FailRequest, SessionState
      <2>6. RunsTyped
            BY <1>3, SameRuns DEF FailRequest
      <2>7. RowsTyped
            BY <1>3, <2>5 DEF FailRequest, RowsTyped, TypeOK, Grounded
      <2>8. StoreTyped
            BY <1>3, WithoutType DEF FailRequest, StoreTyped, TypeOK
      <2> QED
          BY <2>4, <2>6, <2>7, <2>8, PartsTyped
<1>4. CASE AttachWorktree(p)
      <2>1. s \in Sessions /\ proc[p].slots > 0
            BY <1>4 DEF AttachWorktree, Grounded, Busy
      <2>2. ProcsTyped
            BY <1>4, <2>1, GotoType, DoneType DEF AttachWorktree, ProcessPC
      <2>3. RunsTyped
            BY <1>4, SameRuns DEF AttachWorktree
      <2>4. attached' \subseteq Sessions /\ IsFiniteSet(attached')
            BY <1>4, <2>1, FS_AddElement DEF AttachWorktree, TypeOK, Grounded
      <2>5. RowsTyped
            BY <1>4, <2>1, <2>4 DEF AttachWorktree, RowsTyped, TypeOK, Grounded, Place
      <2>6. StoreTyped
            BY <1>4, <2>1, RemoveWorktreeType DEF AttachWorktree, StoreTyped, TypeOK
      <2> QED
          BY <2>2, <2>3, <2>5, <2>6, PartsTyped
<1>5. CASE StartQueued(p)
      <2>1. s \in Sessions /\ proc[p].slots > 0
            BY <1>5 DEF StartQueued, Grounded, Busy
      <2>2. ProcsTyped
            BY <1>5, <2>1, GotoType DEF StartQueued, ProcessPC
      <2>3. RunsTyped
            BY <1>5, <2>1, StartRunType DEF StartQueued, Place
      <2> QED
          BY <1>5, <2>2, <2>3, SameRows, SameStore, PartsTyped DEF StartQueued
<1>6. CASE DequeueStarted(p)
      <2>1. proc[p].slots > 0
            BY <1>6 DEF DequeueStarted, Grounded, Busy
      <2> DEFINE d == [proc[p] EXCEPT !.pc = "next", !.sess = NoSession, !.slots = @ - 1]
      <2>2. proc[p].slots - 1 \in 0..MaxWorktrees
            BY <2>1, SlotsAssumption DEF Process
      <2>3. d \in Process /\ Busy(d)
            BY <2>2 DEF Process, ProcessPC, Busy
      <2>4. proc' = [proc EXCEPT ![p] = d]
            BY <1>6 DEF DequeueStarted, TypeOK
      <2>5. ProcsTyped
            BY <2>3, <2>4, TurnsType
      <2>6. StoreTyped
            BY <1>6, WithoutType DEF DequeueStarted, StoreTyped, TypeOK
      <2> QED
          BY <1>6, <2>5, <2>6, SameRuns, SameRows, PartsTyped DEF DequeueStarted
<1> QED
    BY <1>1, <1>2, <1>3, <1>4, <1>5, <1>6

(* The steps of a prune, a cleanup and a delete.                           *)
LEMMA CleaningTyped ==
  ASSUME Typed, NEW p \in Processes,
         CleanOne(p) \/ RemoveOne(p) \/ ClearWorktree(p) \/ DeleteRow(p)
  PROVE  Typed'
<1> DEFINE s == proc[p].sess
<1> USE ProcessType DEF Typed
<1>1. CASE CleanOne(p)
      <2>1. CASE EndPrune(p) /\ UNCHANGED <<rowVars, run>>
            BY <1>1, <2>1, EndPruneType, SameRuns, SameRows, SameStore, PartsTyped DEF CleanOne
      <2>2. ASSUME NEW t \in proc[p].todo,
                   KillRecorded(t), pid' = [pid EXCEPT ![t] = NoRun], Becomes(t, "Stopped"),
                   proc' = [proc EXCEPT ![p].pc = IF t \in attached THEN "remove" ELSE "clear",
                                        ![p].sess = t, ![p].todo = @ \ {t}],
                   UNCHANGED <<attached, home>>
            PROVE  Typed'
            <3>1. t \in Sessions
                  BY DEF Process
            <3> DEFINE d == [proc[p] EXCEPT !.pc = IF t \in attached THEN "remove" ELSE "clear",
                                            !.sess = t, !.todo = @ \ {t}]
            <3>2. d \in Process /\ Busy(d)
                  BY <3>1 DEF Process, ProcessPC, Busy
            <3>3. ProcsTyped
                  BY <2>2, <3>2, TurnsType
            <3>4. RunsTyped
                  BY <2>2, <3>1, KillRecordedType
            <3>5. state' \in [Sessions -> RowState]
                  BY <2>2, <3>1, BecomesType DEF SessionState
            <3>6. RowsTyped
                  BY <2>2, <3>1, <3>4, <3>5 DEF RowsTyped, RunsTyped, TypeOK, Grounded
            <3> QED
                BY <1>1, <3>3, <3>4, <3>6, SameStore, PartsTyped DEF CleanOne
      <2>3. ASSUME NEW t \in proc[p].todo,
                   proc' = [proc EXCEPT ![p].pc = "remove", ![p].sess = t, ![p].todo = @ \ {t}],
                   UNCHANGED <<rowVars, run>>
            PROVE  Typed'
            <3> DEFINE d == [proc[p] EXCEPT !.pc = "remove", !.sess = t, !.todo = @ \ {t}]
            <3>1. d \in Process /\ Busy(d)
                  BY DEF Process, ProcessPC, Busy
            <3>2. ProcsTyped
                  BY <2>3, <3>1, TurnsType
            <3> QED
                BY <1>1, <2>3, <3>2, SameRuns, SameRows, SameStore, PartsTyped DEF CleanOne
      <2>4. ASSUME NEW t \in proc[p].todo,
                   proc' = [proc EXCEPT ![p].todo = @ \ {t}], UNCHANGED <<rowVars, run>>
            PROVE  Typed'
            <3> DEFINE d == [proc[p] EXCEPT !.todo = @ \ {t}]
            <3>1. d \in Process /\ Busy(d)
                  BY DEF Process, Busy, Grounded
            <3>2. ProcsTyped
                  BY <2>4, <3>1, TurnsType
            <3> QED
                BY <1>1, <2>4, <3>2, SameRuns, SameRows, SameStore, PartsTyped DEF CleanOne
      <2> QED
          BY <1>1, <2>1, <2>2, <2>3, <2>4 DEF CleanOne
<1>2. CASE RemoveOne(p)
      <2>1. s \in Sessions
            BY <1>2 DEF RemoveOne, Grounded, Busy
      <2>2. ProcsTyped
            BY <1>2, <2>1, GotoType DEF RemoveOne, ProcessPC
      <2>3. StoreTyped
            BY <1>2, <2>1, RemoveWorktreeType DEF RemoveOne, StoreTyped, TypeOK
      <2> QED
          BY <1>2, <2>2, <2>3, SameRuns, SameRows, PartsTyped DEF RemoveOne
<1>3. CASE ClearWorktree(p)
      <2> DEFINE d == [proc[p] EXCEPT !.pc = "clean", !.sess = NoSession]
      <2>1. d \in Process /\ Busy(d)
            BY DEF Process, ProcessPC, Busy
      <2>2. proc' = [proc EXCEPT ![p] = d] \/ EndPrune(p)
            BY <1>3 DEF ClearWorktree, TypeOK
      <2>3. ProcsTyped
            BY <2>1, <2>2, TurnsType, EndPruneType
      <2>4. attached' \subseteq Sessions /\ IsFiniteSet(attached')
            BY <1>3, FS_Subset DEF ClearWorktree, TypeOK, Grounded
      <2>5. RunsTyped
            BY <1>3, SameRuns DEF ClearWorktree
      <2>6. RowsTyped
            BY <1>3, <2>4 DEF ClearWorktree, RowsTyped, TypeOK, Grounded
      <2> QED
          BY <1>3, <2>3, <2>5, <2>6, SameStore, PartsTyped DEF ClearWorktree
<1>4. CASE DeleteRow(p)
      <2>1. ProcsTyped
            BY <1>4, DoneType DEF DeleteRow
      <2>2. RunsTyped
            BY <1>4, SameRuns DEF DeleteRow
      <2>3. attached' \subseteq Sessions /\ IsFiniteSet(attached')
            BY <1>4, FS_Subset DEF DeleteRow, TypeOK, Grounded
      <2>4. RowsTyped
            BY <1>4, <2>3 DEF DeleteRow, RowsTyped, TypeOK, Grounded, RowState
      <2>5. StoreTyped
            BY <1>4, WithoutType DEF DeleteRow, StoreTyped, TypeOK
      <2> QED
          BY <2>1, <2>2, <2>4, <2>5, PartsTyped
<1> QED
    BY <1>1, <1>2, <1>3, <1>4

(* The steps of runs.                                                      *)
LEMMA RunTyped ==
  ASSUME Typed, NEW r \in Runs,
         RunChecks(r) \/ RunStarts(r) \/ RunEnds(r) \/ OrphanEnds(r)
  PROVE  Typed'
<1> DEFINE s == run[r].sess
<1> USE DEF Typed
<1>1. CASE RunChecks(r)
      BY <1>1, RunMovesType, SameProcs, SameRows, SameStore, PartsTyped DEF RunChecks
<1>2. CASE RunStarts(r)
      <2>1. s \in Sessions
            BY <1>2 DEF RunStarts, Grounded
      <2>2. RunsTyped
            BY <1>2, RunMovesType DEF RunStarts
      <2>3. state' \in [Sessions -> RowState]
            BY <1>2, <2>1, BecomesType DEF RunStarts, SessionState
      <2>4. \/ pid' = [pid EXCEPT ![s] = r] /\ run' = [run EXCEPT ![r].pc = "working"]
            \/ pid' = [pid EXCEPT ![s] = NoRun]
            BY <1>2 DEF RunStarts
      <2>5. run[r].pc # "unused" /\ run'[r].pc # "unused"
            BY <1>2, <2>2 DEF RunStarts, RunsTyped
      <2>6. RowsTyped
            BY <1>2, <2>1, <2>2, <2>3, <2>4, <2>5
            DEF RunStarts, RowsTyped, RunsTyped, TypeOK, Grounded
      <2> QED
          BY <1>2, <2>2, <2>6, SameProcs, SameStore, PartsTyped DEF RunStarts
<1>3. CASE RunEnds(r)
      <2>1. s \in Sessions
            BY <1>3 DEF RunEnds, Grounded
      <2>2. RunsTyped
            BY <1>3, RunMovesType DEF RunEnds
      <2>3. state' \in [Sessions -> RowState]
            BY <1>3, <2>1, BecomesType DEF RunEnds, SessionState
      <2>4. RowsTyped
            BY <1>3, <2>1, <2>2, <2>3 DEF RunEnds, RowsTyped, RunsTyped, TypeOK, Grounded
      <2> QED
          BY <1>3, <2>2, <2>4, SameProcs, SameStore, PartsTyped DEF RunEnds
<1>4. CASE OrphanEnds(r)
      BY <1>4, RunMovesType, SameProcs, SameRows, SameStore, PartsTyped DEF OrphanEnds
<1> QED
    BY <1>1, <1>2, <1>3, <1>4

(* Stops, sweeps and the death of a process.                               *)
LEMMA OtherTyped ==
  ASSUME Typed,
         \/ \E s \in Sessions : Stop(s) \/ GoesStale(s)
         \/ \E p \in Processes : ProcessCrash(p)
  PROVE  Typed'
<1> USE DEF Typed
<1>1. ASSUME NEW s \in Sessions, Stop(s) PROVE Typed'
      <2>1. RunsTyped
            BY <1>1, KillRecordedType DEF Stop
      <2>2. state' \in [Sessions -> RowState]
            BY <1>1, BecomesType DEF Stop, SessionState
      <2>3. RowsTyped
            BY <1>1, <2>1, <2>2 DEF Stop, RowsTyped, RunsTyped, TypeOK, Grounded
      <2> QED
          BY <1>1, <2>1, <2>3, SameProcs, SameStore, PartsTyped DEF Stop
<1>2. ASSUME NEW s \in Sessions, GoesStale(s) PROVE Typed'
      <2>1. RunsTyped
            BY <1>2, SameRuns DEF GoesStale
      <2>2. state' \in [Sessions -> RowState]
            BY <1>2, BecomesType DEF GoesStale, SessionState
      <2>3. RowsTyped
            BY <1>2, <2>2 DEF GoesStale, RowsTyped, TypeOK, Grounded
      <2> QED
          BY <1>2, <2>1, <2>3, SameProcs, SameStore, PartsTyped DEF GoesStale
<1>3. ASSUME NEW p \in Processes, ProcessCrash(p) PROVE Typed'
      <2>1. ASSUME NEW r \in Runs
            PROVE  /\ run'[r] \in Run /\ run'[r].sess = run[r].sess
                   /\ (run'[r].pc = "unused") <=> (run[r].pc = "unused")
            BY <1>3, <2>1 DEF ProcessCrash, TypeOK, Run
      <2>2. RunsTyped
            BY <1>3, <2>1 DEF ProcessCrash, RunsTyped, Grounded
      <2> QED
          BY <1>3, <2>2, DoneType, SameRows, SameStore, PartsTyped DEF ProcessCrash
<1> QED
    BY <1>1, <1>2, <1>3

LEMMA TypedStep == Typed /\ [Next]_vars => Typed'
<1> SUFFICES ASSUME Typed, [Next]_vars PROVE Typed'
    OBVIOUS
<1>1. CASE UNCHANGED vars
      BY <1>1, SameProcs, SameRuns, SameRows, SameStore, PartsTyped DEF vars, rowVars
<1>2. ASSUME NEW p \in Processes, ProcessStep(p) PROVE Typed'
      BY <1>2, QueueingTyped, ActivationTyped, CleaningTyped DEF ProcessStep
<1> QED
    BY <1>1, <1>2, BeginsTyped, RunTyped, OtherTyped DEF Next

(* Every value of every variable is one of its kind, whatever processes    *)
(* read, crash between and write (StateStore, manager.rs).                 *)
THEOREM SlotsTypeCorrect == Spec => []TypeOK
<1>1. Spec => []Typed
      BY TypedInit, TypedStep, PTL DEF Spec
<1> QED
    BY <1>1, PTL DEF Typed

-----------------------------------------------------------------------------
(* The limit on worktrees, for one process.                                *)

(* A process that is about to attach worktrees has seen room for them, and *)
(* nobody else takes it.                                                   *)
Room(d) ==
  /\ Cardinality(attached) <= MaxWorktrees
  /\ d.pc = "create" => Cardinality(attached) < MaxWorktrees
  /\ d.pc = "insert" /\ d.cwd = "worktree" => Cardinality(attached) < MaxWorktrees
  /\ d.pc \in {"next", "make", "attach", "fail"} =>
       Cardinality(attached) + d.slots <= MaxWorktrees
  /\ d.pc \in {"start", "dequeue"} => Cardinality(attached) + d.slots <= MaxWorktrees + 1

SlotsInv == \A p \in Processes : Room(proc[p])

(* One session more or less is one worktree more or less, or none.         *)
LEMMA OneMore ==
  ASSUME IsFiniteSet(attached), NEW s
  PROVE  /\ Cardinality(attached) \in Nat
         /\ Cardinality(attached \cup {s}) \in Nat
         /\ Cardinality(attached \cup {s}) <= Cardinality(attached) + 1
         /\ Cardinality(attached \ {s}) \in Nat
         /\ Cardinality(attached \ {s}) <= Cardinality(attached)
<1>1. /\ Cardinality(attached \cup {s}) =
            IF s \in attached THEN Cardinality(attached) ELSE Cardinality(attached) + 1
      /\ IsFiniteSet(attached \cup {s})
      BY FS_AddElement
<1>2. /\ Cardinality(attached \ {s}) =
            IF s \in attached THEN Cardinality(attached) - 1 ELSE Cardinality(attached)
      /\ IsFiniteSet(attached \ {s})
      BY FS_RemoveElement
<1>3. /\ Cardinality(attached) \in Nat
      /\ Cardinality(attached \cup {s}) \in Nat
      /\ Cardinality(attached \ {s}) \in Nat
      BY <1>1, <1>2, FS_CardinalityType
<1> QED
    BY <1>1, <1>2, <1>3

LEMMA SlotsInit == Init => SlotsInv
BY FS_EmptySet, SlotsAssumption DEF Init, SlotsInv, Room, Nothing

(* A process that begins nothing new, with the same worktrees or fewer.    *)
LEMMA RoomRests ==
  ASSUME Typed, NEW p \in Processes, Room(proc[p]), Typed',
         Cardinality(attached') <= Cardinality(attached),
         \/ proc'[p].pc \notin {"create", "insert", "next", "make", "attach", "fail",
                                "start", "dequeue"}
         \/ proc' = proc
  PROVE  Room(proc[p])'
<1>1. /\ Cardinality(attached) \in Nat /\ Cardinality(attached') \in Nat
      /\ proc[p] \in Process /\ proc'[p] \in Process
      BY FS_CardinalityType DEF Typed, Grounded, TypeOK
<1>2. CASE proc' = proc
      BY <1>1, <1>2, SlotsAssumption DEF Room, Process
<1>3. CASE proc'[p].pc \notin {"create", "insert", "next", "make", "attach", "fail",
                               "start", "dequeue"}
      BY <1>1, <1>3, SlotsAssumption DEF Room
<1> QED
    BY <1>2, <1>3

LEMMA SlotsStep ==
  ASSUME \A p, q \in Processes : p = q, Typed, Typed', SlotsInv, [Next]_vars
  PROVE  SlotsInv'
<1> SUFFICES ASSUME NEW q \in Processes PROVE Room(proc[q])'
    BY DEF SlotsInv
<1> DEFINE n == Cardinality(attached)
<1>1. n \in Nat /\ Cardinality(attached') \in Nat /\ MaxWorktrees \in Nat
      BY FS_CardinalityType, SlotsAssumption DEF Typed, Grounded
<1>2. proc[q] \in Process /\ Busy(proc[q]) /\ Room(proc[q])
      BY DEF Typed, Grounded, TypeOK, SlotsInv
<1>3. proc \in [Processes -> Process]
      BY DEF Typed, TypeOK
<1>4. CASE UNCHANGED <<attached, proc>>
      BY <1>1, <1>2, <1>4, RoomRests
<1>5. ASSUME NEW s \in Sessions, BeginQueue(q, s) PROVE Room(proc[q])'
      <2>1. FreeSlots > 0 => n < MaxWorktrees
            BY <1>1 DEF FreeSlots
      <2>2. proc'[q].pc = (IF FreeSlots > 0 THEN "create" ELSE "insert")
            /\ proc'[q].cwd = "repo" /\ attached' = attached
            BY <1>2, <1>3, <1>5 DEF BeginQueue, May, Busy, Process, rowVars
      <2> QED
          BY <1>1, <1>2, <2>1, <2>2 DEF Room
<1>6. CASE BeginActivate(q)
      <2>1. CASE FreeSlots = 0
            BY <1>1, <1>2, <1>3, <1>6, <2>1, RoomRests DEF BeginActivate, Done, Nothing, rowVars
      <2>2. CASE FreeSlots # 0
            <3>1. n + FreeSlots = MaxWorktrees /\ FreeSlots \in Nat
                  BY <1>1, <2>2, SlotsAssumption DEF FreeSlots
            <3>2. proc'[q].pc = "next" /\ proc'[q].slots = FreeSlots /\ attached' = attached
                  BY <1>3, <1>6, <2>2 DEF BeginActivate, Nothing, rowVars
            <3> QED
                BY <1>1, <3>1, <3>2 DEF Room
      <2> QED
          BY <2>1, <2>2
<1>7. CASE CreateWorktree(q)
      <2>1. attached' = attached /\ proc'[q].pc \in {"insert", "idle"} /\ n < MaxWorktrees
            BY <1>2, <1>3, <1>7 DEF CreateWorktree, Done, Nothing, rowVars, Room, Process
      <2> QED
          BY <1>1, <2>1 DEF Room
<1>8. CASE InsertSession(q)
      <2>1. proc'[q].pc \in {"launch", "enqueue"}
            BY <1>3, <1>8 DEF InsertSession, Goto
      <2>2. Cardinality(attached \cup {proc[q].sess}) <= n + 1
            BY OneMore DEF Typed, Grounded
      <2>3. Cardinality(attached') <= MaxWorktrees
            BY <1>1, <1>2, <1>8, <2>2 DEF InsertSession, Room
      <2> QED
          BY <1>1, <2>1, <2>3 DEF Room
<1>9. CASE TakeRequest(q)
      <2>1. attached' = attached /\ proc[q].pc = "next"
            BY <1>9 DEF TakeRequest, rowVars
      <2>2. proc[q].slots \in Nat /\ n + proc[q].slots <= MaxWorktrees
            BY <1>1, <1>2, <2>1 DEF Process, Room
      <2>3. CASE Done(q)
            BY <1>1, <1>2, <1>3, <2>1, <2>3 DEF Done, Nothing, Room
      <2>4. ASSUME NEW t, proc' = [proc EXCEPT ![q].pc = "make", ![q].sess = t, ![q].todo = @ \ {t}]
            PROVE  Room(proc[q])'
            <3>1. proc'[q].pc = "make" /\ proc'[q].slots = proc[q].slots
                  BY <1>2, <1>3, <2>4 DEF Process
            <3> QED
                BY <1>1, <2>1, <2>2, <3>1 DEF Room
      <2>5. ASSUME NEW t, proc' = [proc EXCEPT ![q].todo = @ \ {t}]
            PROVE  Room(proc[q])'
            <3>1. proc'[q].pc = "next" /\ proc'[q].slots = proc[q].slots
                  BY <1>2, <1>3, <2>1, <2>5 DEF Process
            <3> QED
                BY <1>1, <2>1, <2>2, <3>1 DEF Room
      <2> QED
          BY <1>9, <2>3, <2>4, <2>5 DEF TakeRequest
<1>10. CASE MakeWorktree(q) \/ FailRequest(q)
      <2>1. attached' = attached /\ proc'[q].slots \in {proc[q].slots, 0}
            /\ proc'[q].pc \in {"attach", "fail", "next", "idle"}
            BY <1>2, <1>3, <1>10 DEF MakeWorktree, FailRequest, Goto, Done, Nothing, rowVars,
               Process
      <2>2. proc[q].slots \in Nat /\ n + proc[q].slots <= MaxWorktrees
            BY <1>1, <1>2, <1>10 DEF Process, MakeWorktree, FailRequest, Room
      <2> QED
          BY <1>1, <2>1, <2>2 DEF Room
<1>11. CASE AttachWorktree(q)
      <2>1. \/ attached' = attached \cup {proc[q].sess} /\ proc'[q].pc = "start"
               /\ proc'[q].slots = proc[q].slots
            \/ attached' = attached /\ proc'[q].pc = "idle"
            BY <1>2, <1>3, <1>11 DEF AttachWorktree, Goto, Done, Nothing, Process
      <2>2. proc[q].slots \in Nat /\ proc[q].slots > 0 /\ n + proc[q].slots <= MaxWorktrees
            BY <1>1, <1>2, <1>11 DEF Process, AttachWorktree, Busy, Room
      <2>3. Cardinality(attached \cup {proc[q].sess}) <= n + 1
            BY OneMore DEF Typed, Grounded
      <2>4. CASE attached' = attached /\ proc'[q].pc = "idle"
            BY <1>1, <2>2, <2>4 DEF Room
      <2>5. CASE /\ attached' = attached \cup {proc[q].sess} /\ proc'[q].pc = "start"
                 /\ proc'[q].slots = proc[q].slots
            <3> DEFINE k == Cardinality(attached')
            <3>1. k \in Nat /\ k <= n + 1
                  BY <1>1, <2>3, <2>5
            <3> HIDE DEF k, n
            <3>2. k + proc[q].slots <= MaxWorktrees + 1 /\ k <= MaxWorktrees
                  BY <1>1, <2>2, <3>1
            <3> QED BY <2>5, <3>2 DEF Room, k
      <2> QED
          BY <2>1, <2>4, <2>5
<1>12. CASE StartQueued(q)
      <2>1. attached' = attached /\ proc'[q].pc = "dequeue" /\ proc'[q].slots = proc[q].slots
            BY <1>3, <1>12 DEF StartQueued, Goto, rowVars
      <2> QED
          BY <1>1, <1>2, <1>12, <2>1 DEF Room, StartQueued
<1>13. CASE DequeueStarted(q)
      <2>1. attached' = attached /\ proc'[q].pc = "next" /\ proc'[q].slots = proc[q].slots - 1
            BY <1>3, <1>13 DEF DequeueStarted, rowVars, Process
      <2>2. proc[q].slots \in Nat
            BY <1>1, <1>2 DEF Process
      <2> QED
          BY <1>1, <1>2, <1>13, <2>1, <2>2 DEF Room, DequeueStarted
<1>14. CASE ClearWorktree(q) \/ DeleteRow(q)
      <2>1. /\ attached' \in {attached, attached \ {proc[q].sess}}
            /\ proc'[q].pc \in {"idle", "clean", "activate"}
            BY <1>2, <1>3, <1>14 DEF ClearWorktree, DeleteRow, EndPrune, Done, Nothing, Process
      <2>2. Cardinality(attached \ {proc[q].sess}) <= n
            BY OneMore DEF Typed, Grounded
      <2>3. Cardinality(attached') <= n
            BY <1>1, <2>1, <2>2
      <2> QED
          BY <1>2, <2>1, <2>3, RoomRests
<1>15. ASSUME NEW s \in Sessions, BeginCleanup(q, s) \/ BeginResume(q, s) \/ BeginDelete(q, s)
       PROVE  Room(proc[q])'
      <2>1. attached' = attached /\ proc'[q].pc \in {"clean", "relaunch", "discard", "delete"}
            BY <1>3, <1>15 DEF BeginCleanup, BeginResume, BeginDelete, rowVars, Process
      <2> QED
          BY <1>1, <1>2, <2>1, RoomRests
<1>16. CASE BeginPrune(q) \/ EnqueueRequest(q) \/ SpawnRunner(q) \/ FailLaunch(q)
            \/ RemoveUnlaunched(q)
      <2>1. attached' = attached /\ proc'[q].pc \in {"clean", "idle", "unlaunch", "undo"}
            BY <1>3, <1>16 DEF BeginPrune, EnqueueRequest, SpawnRunner, FailLaunch,
               RemoveUnlaunched, Goto, Done, Nothing, rowVars, Process
      <2> QED
          BY <1>1, <1>2, <2>1, RoomRests
<1>17. CASE RemoveOne(q) \/ ProcessCrash(q)
      <2>1. attached' = attached /\ proc'[q].pc \in {"idle", "clear", "delete"}
            BY <1>2, <1>3, <1>17 DEF RemoveOne, ProcessCrash, Goto, Done, Nothing, rowVars, Process
      <2> QED
          BY <1>1, <1>2, <2>1, RoomRests
<1>18. CASE CleanOne(q)
      <2> DEFINE Cleans == {"idle", "activate", "remove", "clear", "clean"}
      <2>1. attached' = attached /\ proc[q].pc = "clean"
            BY <1>18 DEF CleanOne, rowVars
      <2>2. ASSUME EndPrune(q) PROVE proc'[q].pc \in Cleans
            BY <1>3, <2>2 DEF EndPrune, Nothing
      <2>3. ASSUME NEW t, NEW pc \in {"remove", "clear"},
                   proc' = [proc EXCEPT ![q].pc = pc, ![q].sess = t, ![q].todo = @ \ {t}]
            PROVE  proc'[q].pc \in Cleans
            BY <1>2, <1>3, <2>3 DEF Process
      <2>4. ASSUME NEW t, proc' = [proc EXCEPT ![q].todo = @ \ {t}]
            PROVE  proc'[q].pc \in Cleans
            BY <1>2, <1>3, <2>1, <2>4 DEF Process
      <2>5. proc'[q].pc \in Cleans
            BY <1>18, <2>2, <2>3, <2>4 DEF CleanOne
      <2> QED
          BY <1>1, <1>2, <2>1, <2>5, RoomRests
<1>19. ASSUME NEW r \in Runs, RunChecks(r) \/ RunStarts(r) \/ RunEnds(r) \/ OrphanEnds(r)
       PROVE  Room(proc[q])'
      BY <1>4, <1>19 DEF RunChecks, RunStarts, RunEnds, OrphanEnds, rowVars
<1>20. ASSUME NEW s \in Sessions, Stop(s) \/ GoesStale(s) PROVE Room(proc[q])'
      BY <1>4, <1>20 DEF Stop, GoesStale
<1>21. CASE UNCHANGED vars
      BY <1>4, <1>21 DEF vars
<1>22. ASSUME NEW p \in Processes,
              Request(p) \/ BeginActivate(p) \/ BeginPrune(p) \/ ProcessStep(p) \/ ProcessCrash(p)
       PROVE  Room(proc[q])'
      <2>1. p = q
            OBVIOUS
      <2> QED
          BY <1>22, <2>1, <1>5, <1>6, <1>7, <1>8, <1>9, <1>10, <1>11, <1>12, <1>13, <1>14,
             <1>15, <1>16, <1>17, <1>18
          DEF Request, ProcessStep
<1> QED
    BY <1>19, <1>20, <1>21, <1>22 DEF Next

(* A process that has the database to itself never gives out more          *)
(* worktrees than max_parallel_worktrees, wherever git, a launch or the    *)
(* process itself fails (build_session_record and                          *)
(* activate_pending_worktree_sessions, manager.rs).                        *)
THEOREM SlotsSafe ==
  ASSUME NEW p, Processes = {p}
  PROVE  Spec => []SlotsRespected
<1>1. Spec => []Typed
      BY TypedInit, TypedStep, PTL DEF Spec
<1>2. Typed /\ Typed' /\ SlotsInv /\ [Next]_vars => SlotsInv'
      <2>1. \A a, b \in Processes : a = b
            OBVIOUS
      <2> QED
          BY <2>1, SlotsStep
<1>3. SlotsInv => SlotsRespected
      BY DEF SlotsInv, Room, SlotsRespected
<1> QED
    BY <1>1, <1>2, <1>3, SlotsInit, PTL DEF Spec

-----------------------------------------------------------------------------
(* One agent per session, for any number of activators, when no user       *)
(* resumes a session or cleans up the worktree of one that waits.          *)

(* A session that was launched, or given up, is never Pending again.       *)
Past(s) == state[s] \notin {"NotCreated", "Pending"}

Launched(r, s) ==
  run[r].sess = s /\ run[r].pc \in {"starting", "spawning", "working", "orphan"}

(* A run that has seen the session Pending and may have an agent.          *)
Going(r, s) == run[r].sess = s /\ run[r].pc \in {"spawning", "working", "orphan"}

(* A process that is about to launch a session.                            *)
Launches(p, s) == proc[p].sess = s /\ proc[p].pc \in {"launch", "attach", "start"}

(* Only its creator knows a session that has no row yet.                   *)
NewApart ==
  \A s \in Sessions : state[s] = "NotCreated" =>
    /\ ~Queued(s)
    /\ \A r \in Runs : run[r].sess # s
    /\ \A p \in Processes :
         s \notin proc[p].todo /\ (proc[p].sess = s => proc[p].pc \in {"create", "insert"})
    /\ \A p, q \in Processes : proc[p].sess = s /\ proc[q].sess = s => p = q

Creates(p) ==
  proc[p].pc \in {"create", "insert"} =>
    /\ state[proc[p].sess] = "NotCreated"
    /\ proc[p].pc = "insert" /\ proc[p].cwd = "worktree" => disk[proc[p].sess] # "absent"

(* Worktrees are removed from sessions that are past their launch.         *)
Cleans(p) ==
  /\ proc[p].pc # "relaunch"
  /\ proc[p].pc \in {"clean", "remove", "clear"} => \A s \in proc[p].todo : Past(s)
  /\ proc[p].pc \in {"remove", "clear", "discard", "delete", "undo"} => Past(proc[p].sess)

(* Whoever launches a session has made its worktree, and nobody else can   *)
(* make it again.                                                          *)
OneLaunch ==
  \A s \in Sessions : state[s] = "Pending" =>
    /\ \A q, r \in Runs : Launched(q, s) /\ Launched(r, s) => q = r
    /\ \A p, q \in Processes : Launches(p, s) /\ Launches(q, s) => p = q
    /\ \A p \in Processes, r \in Runs : ~(Launches(p, s) /\ Launched(r, s))
    /\ \A p \in Processes : Launches(p, s) => disk[s] # "absent"
    /\ \A r \in Runs : Launched(r, s) => disk[s] # "absent"

OneGoes == \A s \in Sessions : \A q, r \in Runs : Going(q, s) /\ Going(r, s) => q = r

LaunchInv ==
  /\ NewApart
  /\ \A p \in Processes : Creates(p) /\ Cleans(p)
  /\ OneLaunch /\ OneGoes

NoRelaunch == Operations \cap {"resume", "cleanup"} = {}

LEMMA LaunchInit == Init => LaunchInv
<1> SUFFICES ASSUME Init PROVE LaunchInv
    OBVIOUS
<1>1. NewApart
      BY SlotsAssumption DEF Init, NewApart, Queued, Nothing
<1>2. ASSUME NEW p \in Processes PROVE Creates(p) /\ Cleans(p)
      BY DEF Init, Creates, Cleans, Nothing
<1>3. OneLaunch /\ OneGoes
      BY DEF Init, OneLaunch, OneGoes, Going
<1> QED
    BY <1>1, <1>2, <1>3 DEF LaunchInv

(* What most steps do to the rows, the queue, the directories and the      *)
(* runs: no session becomes new or Pending, nothing is queued or started,  *)
(* and a directory goes only from a session that is past its launch.       *)
RowsGoOn ==
  \A s \in Sessions :
    /\ state'[s] = "NotCreated" <=> state[s] = "NotCreated"
    /\ state'[s] = "Pending" => state[s] = "Pending"

QueueGoesOn == \A i \in DOMAIN queue' : \E j \in DOMAIN queue : queue'[i] = queue[j]

DiskGoesOn == \A s \in Sessions : disk'[s] = "absent" => disk[s] = "absent" \/ Past(s)

RunsGoOn ==
  \A r \in Runs :
    /\ run'[r].sess = run[r].sess
    /\ run'[r].pc \in {"starting", "spawning", "working", "orphan"} =>
         run[r].pc \in {"starting", "spawning", "working", "orphan"}
    /\ run'[r].pc \in {"spawning", "working", "orphan"} =>
         run[r].pc \in {"spawning", "working", "orphan"}

(* What most steps do to their process: it takes up no new session.        *)
Calm(p) ==
  /\ \A q \in Processes \ {p} : proc'[q] = proc[q]
  /\ proc'[p].pc \notin {"create", "insert"}
  /\ \A s \in Sessions :
       proc'[p].sess = s \/ s \in proc'[p].todo => state[s] # "NotCreated"
  /\ Cleans(p)'
  /\ proc'[p].pc \in {"launch", "attach", "start"} =>
       proc[p].pc \in {"launch", "attach", "start"} /\ proc'[p].sess = proc[p].sess

(* Cleaning and creating processes that do nothing are not disturbed.      *)
LEMMA StandsBy ==
  ASSUME Typed, RowsGoOn, DiskGoesOn, NEW q \in Processes, Creates(q), Cleans(q),
         proc'[q] = proc[q]
  PROVE  Creates(q)' /\ Cleans(q)'
<1>1. /\ proc[q].todo \subseteq Sessions
      /\ proc[q].pc \in {"create", "insert", "remove", "clear", "discard", "delete", "undo"} =>
           proc[q].sess \in Sessions
      BY DEF Typed, Grounded, Busy, TypeOK, Process
<1>2. \A s \in Sessions : Past(s) => Past(s)'
      BY DEF RowsGoOn, Past
<1>3. Cleans(q)'
      BY <1>1, <1>2 DEF Cleans, Past
<1>4. Creates(q)'
      BY <1>1 DEF Creates, RowsGoOn, DiskGoesOn, Past
<1> QED
    BY <1>3, <1>4

LEMMA GoesOn ==
  ASSUME Typed, LaunchInv, RowsGoOn, QueueGoesOn, DiskGoesOn, RunsGoOn,
         UNCHANGED proc \/ \E p \in Processes : Calm(p)
  PROVE  LaunchInv'
<1>1. CASE UNCHANGED proc
      <2>1. NewApart'
            BY <1>1 DEF LaunchInv, NewApart, RowsGoOn, QueueGoesOn, RunsGoOn, Queued
      <2>2. ASSUME NEW p \in Processes PROVE Creates(p)' /\ Cleans(p)'
            BY <1>1, StandsBy DEF LaunchInv
      <2>3. OneLaunch'
            BY <1>1 DEF LaunchInv, OneLaunch, Launched, Launches, RowsGoOn, DiskGoesOn, RunsGoOn,
               Past
      <2>4. OneGoes'
            BY DEF LaunchInv, OneGoes, Going, RunsGoOn
      <2> QED
          BY <2>1, <2>2, <2>3, <2>4 DEF LaunchInv
<1>2. ASSUME NEW p \in Processes, Calm(p) PROVE LaunchInv'
      <2>1. NewApart'
            BY <1>2 DEF LaunchInv, NewApart, RowsGoOn, QueueGoesOn, RunsGoOn, Queued, Calm
      <2>2. ASSUME NEW q \in Processes PROVE Creates(q)' /\ Cleans(q)'
            <3>1. CASE q = p
                  BY <1>2, <3>1 DEF Calm, Creates
            <3>2. CASE q # p
                  BY <1>2, <3>2, StandsBy DEF Calm, LaunchInv
            <3> QED
                BY <3>1, <3>2
      <2>3. \A q \in Processes, s \in Sessions : Launches(q, s)' => Launches(q, s)
            BY <1>2 DEF Calm, Launches
      <2>4. OneLaunch'
            BY <2>3 DEF LaunchInv, OneLaunch, Launched, RowsGoOn, DiskGoesOn, RunsGoOn, Past
      <2>5. OneGoes'
            BY DEF LaunchInv, OneGoes, Going, RunsGoOn
      <2> QED
          BY <2>1, <2>2, <2>4, <2>5 DEF LaunchInv
<1> QED
    BY <1>1, <1>2

(* The operators the steps are built from.                                 *)
LEMMA BecomesGoesOn ==
  ASSUME Typed, NEW s \in Sessions,
         NEW to \in {"Running", "Stale", "Completed", "Failed", "Stopped"}, Becomes(s, to)
  PROVE  RowsGoOn
BY DEF Becomes, HasRow, SessionState, RowsGoOn, Typed, TypeOK

LEMMA SameGoesOn ==
  /\ UNCHANGED state => RowsGoOn
  /\ UNCHANGED queue => QueueGoesOn
  /\ UNCHANGED disk => DiskGoesOn
  /\ UNCHANGED run => RunsGoOn
BY DEF RowsGoOn, QueueGoesOn, DiskGoesOn, RunsGoOn

LEMMA WithoutGoesOn ==
  ASSUME Typed, NEW s, queue' = Without(queue, s)
  PROVE  QueueGoesOn
BY WithoutRange DEF Typed, TypeOK, QueueGoesOn

LEMMA RemovalGoesOn ==
  ASSUME Typed, NEW s \in Sessions, Past(s), RemoveWorktree(s)
  PROVE  DiskGoesOn
BY DEF RemoveWorktree, DiskGoesOn, Typed, TypeOK

LEMMA RunMovesOn ==
  ASSUME Typed, NEW r \in Runs,
         \/ run' = [run EXCEPT ![r].pc = "over"]
         \/ run[r].pc \in {"spawning", "working", "orphan"}
            /\ \E pc \in {"working", "orphan", "over"} : run' = [run EXCEPT ![r].pc = pc]
  PROVE  RunsGoOn
<1>1. run[r] \in Run /\ run \in [Runs -> Run]
      BY DEF Typed, TypeOK
<1>2. PICK pc \in {"working", "orphan", "over"} :
        /\ run' = [run EXCEPT ![r].pc = pc]
        /\ pc # "over" => run[r].pc \in {"spawning", "working", "orphan"}
      OBVIOUS
<1>3. run'[r].pc = pc /\ run'[r].sess = run[r].sess /\ \A q \in Runs \ {r} : run'[q] = run[q]
      BY <1>1, <1>2 DEF Run
<1> QED
    BY <1>2, <1>3 DEF RunsGoOn

LEMMA KillGoesOn ==
  ASSUME Typed, NEW s \in Sessions, KillRecorded(s)
  PROVE  RunsGoOn
<1>1. CASE pid[s] = NoRun
      BY <1>1, SameGoesOn DEF KillRecorded
<1>2. CASE pid[s] # NoRun
      <2>1. pid[s] \in Runs
            BY <1>2 DEF Typed, TypeOK
      <2> QED
          BY <1>2, <2>1, RunMovesOn DEF KillRecorded
<1> QED
    BY <1>1, <1>2

LEMMA DoneCalm ==
  ASSUME Typed, NEW p \in Processes, Done(p)
  PROVE  Calm(p)
BY SlotsAssumption DEF Done, Nothing, Calm, Cleans, Typed, TypeOK

LEMMA EndPruneCalm ==
  ASSUME Typed, NEW p \in Processes, EndPrune(p)
  PROVE  Calm(p)
BY SlotsAssumption DEF EndPrune, Nothing, Calm, Cleans, Typed, TypeOK

(* A process that takes up nothing, or a session that has been made and is *)
(* past its launch when it is about to be cleaned.                         *)
LEMMA TurnsCalm ==
  ASSUME Typed, LaunchInv, RowsGoOn, NEW p \in Processes, NEW d \in Process,
         proc' = [proc EXCEPT ![p] = d],
         d.pc \notin {"create", "insert", "relaunch"},
         \A s \in Sessions : s \in d.todo => s \in proc[p].todo \/ state[s] # "NotCreated",
         d.sess \in Sessions => state[d.sess] # "NotCreated",
         d.pc \in {"clean", "remove", "clear"} => \A s \in d.todo : Past(s),
         d.pc \in {"remove", "clear", "discard", "delete", "undo"} =>
           d.sess \in Sessions /\ Past(d.sess)',
         d.pc \in {"launch", "attach", "start"} =>
           proc[p].pc \in {"launch", "attach", "start"} /\ d.sess = proc[p].sess
  PROVE  Calm(p)
<1>1. proc'[p] = d /\ \A q \in Processes \ {p} : proc'[q] = proc[q]
      BY DEF Typed, TypeOK
<1>2. d.todo \subseteq Sessions
      BY DEF Process
<1>3. \A s \in Sessions : Past(s) => Past(s)'
      BY DEF RowsGoOn, Past
<1>4. Cleans(p)'
      BY <1>1, <1>2, <1>3 DEF Cleans, Past
<1>5. \A s \in Sessions : d.sess = s \/ s \in d.todo => state[s] # "NotCreated"
      BY DEF LaunchInv, NewApart
<1> QED
    BY <1>1, <1>4, <1>5 DEF Calm

(* A process that goes on with the session it has.                         *)
LEMMA GotoCalm ==
  ASSUME Typed, LaunchInv, RowsGoOn, NEW p \in Processes, NEW pc \in ProcessPC, Goto(p, pc),
         proc[p].pc \notin {"create", "insert"},
         pc \notin {"create", "insert", "relaunch", "clean"},
         pc \in {"remove", "clear"} => proc[p].pc \in {"clean", "remove", "clear"},
         pc \in {"remove", "clear", "discard", "delete", "undo"} =>
           \E s \in Sessions : s = proc[p].sess /\ Past(s)',
         pc \in {"launch", "attach", "start"} => proc[p].pc \in {"launch", "attach", "start"}
  PROVE  Calm(p)
<1> DEFINE d == [proc[p] EXCEPT !.pc = pc]
<1>1. proc[p] \in Process
      BY DEF Typed, TypeOK
<1>2. d \in Process /\ d.pc = pc /\ d.sess = proc[p].sess /\ d.todo = proc[p].todo
      BY <1>1 DEF Process
<1>3. proc' = [proc EXCEPT ![p] = d]
      BY DEF Goto
<1>4. proc[p].sess \in Sessions => state[proc[p].sess] # "NotCreated"
      BY DEF LaunchInv, NewApart
<1>5. Cleans(p)
      BY DEF LaunchInv
<1>6. d.pc \in {"clean", "remove", "clear"} => \A s \in d.todo : Past(s)
      BY <1>2, <1>5 DEF Cleans
<1>7. d.pc \in {"remove", "clear", "discard", "delete", "undo"} =>
        d.sess \in Sessions /\ \A s \in Sessions : s = d.sess => Past(s)'
      BY <1>2
<1> HIDE DEF d
<1> QED
    BY <1>2, <1>3, <1>4, <1>6, <1>7, TurnsCalm

(* The steps that take up nothing new.                                     *)
LEMMA CalmSteps ==
  ASSUME Typed, LaunchInv, NoRelaunch, NEW p \in Processes,
         \/ \E s \in Sessions : BeginDelete(p, s)
         \/ BeginActivate(p) \/ BeginPrune(p)
         \/ FailLaunch(p) \/ RemoveUnlaunched(p) \/ TakeRequest(p) \/ FailRequest(p)
         \/ AttachWorktree(p) \/ DequeueStarted(p)
         \/ RemoveOne(p) \/ ClearWorktree(p) \/ DeleteRow(p) \/ ProcessCrash(p)
  PROVE  LaunchInv'
<1> DEFINE t == proc[p].sess
           o == proc[p]
<1>1. o \in Process /\ Busy(o) /\ Creates(p) /\ Cleans(p) /\ proc \in [Processes -> Process]
      BY DEF Typed, TypeOK, Grounded, LaunchInv
<1>2. /\ t \in Sessions /\ o.pc \notin {"create", "insert"} => state[t] # "NotCreated"
      /\ \A s \in o.todo : s \in Sessions /\ state[s] # "NotCreated"
      BY <1>1 DEF LaunchInv, NewApart, Process
<1>3. ASSUME NEW s \in Sessions, BeginDelete(p, s) PROVE LaunchInv'
      <2> DEFINE d == [o EXCEPT !.pc = IF s \in attached THEN "discard" ELSE "delete",
                                !.sess = s]
      <2>1. d \in Process /\ proc' = [proc EXCEPT ![p] = d]
            BY <1>1, <1>3 DEF BeginDelete, Process, ProcessPC
      <2>2. d.pc \in {"discard", "delete"} /\ d.sess = s /\ d.todo = o.todo
            BY <1>1 DEF Process
      <2>3. RowsGoOn /\ Past(s)' /\ state[s] # "NotCreated"
            BY <1>3, SameGoesOn DEF BeginDelete, rowVars, Past, Inactive
      <2> HIDE DEF d
      <2>4. Calm(p)
            BY <2>1, <2>2, <2>3, TurnsCalm
      <2> QED
          BY <1>3, <2>3, <2>4, SameGoesOn, GoesOn DEF BeginDelete
<1>4. CASE BeginActivate(p)
      <2>1. RowsGoOn
            BY <1>4, SameGoesOn DEF BeginActivate, rowVars
      <2>2. CASE Done(p)
            BY <1>4, <2>1, <2>2, DoneCalm, SameGoesOn, GoesOn DEF BeginActivate
      <2>3. CASE FreeSlots # 0
            <3> DEFINE listed == {queue[i] : i \in {j \in DOMAIN queue : j <= FreeSlots}}
                       d == [Nothing EXCEPT !.pc = "next", !.slots = FreeSlots, !.todo = listed]
            <3>1. listed \subseteq Sessions /\ \A s \in listed : state[s] # "NotCreated"
                  BY DEF Typed, TypeOK, LaunchInv, NewApart, Queued
            <3>2. FreeSlots \in 0..MaxWorktrees
                  BY FreeSlotsType DEF Typed, Grounded
            <3>3. d \in Process /\ d.pc = "next" /\ d.sess = NoSession /\ d.todo = listed
                  BY <3>1, <3>2, NothingType DEF Nothing, Process, ProcessPC
            <3>4. proc' = [proc EXCEPT ![p] = d]
                  BY <1>4, <2>3 DEF BeginActivate
            <3> HIDE DEF d, listed
            <3>5. Calm(p)
                  BY <2>1, <3>1, <3>3, <3>4, TurnsCalm, SlotsAssumption
            <3> QED
                BY <1>4, <2>1, <3>5, SameGoesOn, GoesOn DEF BeginActivate
      <2> QED
          BY <1>4, <2>2, <2>3 DEF BeginActivate
<1>5. CASE BeginPrune(p)
      <2> DEFINE listed == {s \in attached : state[s] \in Inactive}
                 d == [o EXCEPT !.pc = "clean", !.todo = listed]
      <2>1. listed \subseteq Sessions /\ \A s \in listed : Past(s)
            BY DEF Typed, TypeOK, Past, Inactive
      <2>2. d \in Process /\ d.pc = "clean" /\ d.sess = t /\ d.todo = listed
            BY <1>1, <2>1 DEF Process, ProcessPC
      <2>3. RowsGoOn /\ proc' = [proc EXCEPT ![p] = d] /\ o.pc = "idle"
            BY <1>1, <1>5, SameGoesOn DEF BeginPrune, rowVars, May, Process
      <2> HIDE DEF d, listed
      <2>4. Calm(p)
            BY <1>2, <2>1, <2>2, <2>3, TurnsCalm DEF Past
      <2> QED
          BY <1>5, <2>3, <2>4, SameGoesOn, GoesOn DEF BeginPrune
<1>6. CASE FailLaunch(p)
      <2>1. t \in Sessions /\ o.pc = "unlaunch"
            BY <1>1, <1>6 DEF FailLaunch, Busy
      <2>2. RowsGoOn
            BY <1>6, <2>1, BecomesGoesOn DEF FailLaunch
      <2>3. CASE HasRow(t) /\ CanTransition(state[t], "Failed")
            <3>1. state'[t] = "Failed"
                  BY <1>6, <2>1, <2>3 DEF FailLaunch, Becomes, Typed, TypeOK
            <3>2. Calm(p)
                  BY <1>6, <2>1, <2>2, <2>3, <3>1, GotoCalm DEF FailLaunch, ProcessPC, Past
            <3> QED
                BY <1>6, <2>2, <3>2, SameGoesOn, GoesOn DEF FailLaunch
      <2>4. CASE Done(p)
            BY <1>6, <2>2, <2>4, DoneCalm, SameGoesOn, GoesOn DEF FailLaunch
      <2> QED
          BY <1>6, <2>3, <2>4 DEF FailLaunch
<1>7. CASE RemoveUnlaunched(p)
      <2>1. t \in Sessions /\ Past(t)
            BY <1>1, <1>7 DEF RemoveUnlaunched, Busy, Cleans
      <2>2. DiskGoesOn
            BY <1>7, <2>1, RemovalGoesOn DEF RemoveUnlaunched
      <2> QED
          BY <1>7, <2>2, DoneCalm, SameGoesOn, GoesOn DEF RemoveUnlaunched, rowVars
<1>8. CASE TakeRequest(p)
      <2>1. o.pc = "next" /\ RowsGoOn /\ DiskGoesOn /\ RunsGoOn
            BY <1>8, SameGoesOn DEF TakeRequest, rowVars
      <2>2. CASE Done(p) /\ UNCHANGED queue
            BY <2>1, <2>2, DoneCalm, SameGoesOn, GoesOn
      <2>3. ASSUME NEW s \in o.todo, UNCHANGED queue,
                   proc' = [proc EXCEPT ![p].pc = "make", ![p].sess = s, ![p].todo = @ \ {s}]
            PROVE  LaunchInv'
            <3> DEFINE d == [o EXCEPT !.pc = "make", !.sess = s, !.todo = @ \ {s}]
            <3>1. d \in Process /\ proc' = [proc EXCEPT ![p] = d]
                  BY <1>1, <2>3 DEF Process, ProcessPC
            <3>2. d.pc = "make" /\ d.sess = s /\ d.todo = o.todo \ {s}
                  BY <1>1 DEF Process
            <3> HIDE DEF d
            <3>3. Calm(p)
                  BY <1>2, <2>1, <3>1, <3>2, TurnsCalm
            <3> QED
                BY <2>1, <2>3, <3>3, SameGoesOn, GoesOn
      <2>4. ASSUME NEW s \in o.todo, queue' = Without(queue, s),
                   proc' = [proc EXCEPT ![p].todo = @ \ {s}]
            PROVE  LaunchInv'
            <3> DEFINE d == [o EXCEPT !.todo = @ \ {s}]
            <3>1. d \in Process /\ proc' = [proc EXCEPT ![p] = d]
                  BY <1>1, <2>4 DEF Process, ProcessPC
            <3>2. d.pc = "next" /\ d.sess = t /\ d.todo = o.todo \ {s}
                  BY <1>1, <2>1 DEF Process
            <3> HIDE DEF d
            <3>3. Calm(p)
                  BY <1>2, <2>1, <3>1, <3>2, TurnsCalm
            <3> QED
                BY <2>1, <2>4, <3>3, WithoutGoesOn, GoesOn
      <2> QED
          BY <1>8, <2>2, <2>3, <2>4 DEF TakeRequest
<1>9. CASE FailRequest(p)
      <2>1. t \in Sessions /\ o.pc = "fail"
            BY <1>1, <1>9 DEF FailRequest, Busy
      <2>2. RowsGoOn /\ QueueGoesOn /\ DiskGoesOn /\ RunsGoOn
            BY <1>9, <2>1, BecomesGoesOn, WithoutGoesOn, SameGoesOn DEF FailRequest
      <2> DEFINE d == [o EXCEPT !.pc = "next", !.sess = NoSession]
      <2>3. d \in Process /\ d.pc = "next" /\ d.sess = NoSession /\ d.todo = o.todo
            BY <1>1 DEF Process, ProcessPC
      <2>4. proc' = [proc EXCEPT ![p] = d] \/ Done(p)
            BY <1>1, <1>9 DEF FailRequest
      <2> HIDE DEF d
      <2>5. Calm(p)
            BY <2>2, <2>3, <2>4, DoneCalm, TurnsCalm, SlotsAssumption
      <2> QED
          BY <2>2, <2>5, GoesOn
<1>10. CASE AttachWorktree(p)
      <2>1. t \in Sessions /\ o.pc = "attach" /\ state[t] # "NotCreated"
            BY <1>1, <1>2, <1>10 DEF AttachWorktree, Busy
      <2>2. RowsGoOn /\ QueueGoesOn /\ RunsGoOn
            BY <1>10, SameGoesOn DEF AttachWorktree
      <2>3. CASE HasRow(t)
            <3>1. Calm(p)
                  BY <1>10, <2>1, <2>2, <2>3, GotoCalm DEF AttachWorktree, ProcessPC
            <3> QED
                BY <1>10, <2>2, <2>3, <3>1, SameGoesOn, GoesOn DEF AttachWorktree
      <2>4. CASE ~HasRow(t)
            <3>1. Past(t)
                  BY <2>1, <2>4 DEF Past, HasRow, SessionState
            <3>2. DiskGoesOn
                  BY <1>10, <2>1, <2>4, <3>1, RemovalGoesOn DEF AttachWorktree
            <3> QED
                BY <1>10, <2>2, <2>4, <3>2, DoneCalm, GoesOn DEF AttachWorktree
      <2> QED
          BY <2>3, <2>4
<1>11. CASE DequeueStarted(p)
      <2> DEFINE d == [o EXCEPT !.pc = "next", !.sess = NoSession, !.slots = @ - 1]
      <2>1. o.slots - 1 \in 0..MaxWorktrees
            BY <1>1, <1>11, SlotsAssumption DEF DequeueStarted, Busy, Process
      <2>2. d \in Process /\ d.pc = "next" /\ d.sess = NoSession /\ d.todo = o.todo
            BY <1>1, <2>1 DEF Process, ProcessPC
      <2>3. proc' = [proc EXCEPT ![p] = d]
            BY <1>1, <1>11 DEF DequeueStarted
      <2>4. RowsGoOn /\ QueueGoesOn /\ DiskGoesOn /\ RunsGoOn
            BY <1>11, WithoutGoesOn, SameGoesOn DEF DequeueStarted, rowVars
      <2> HIDE DEF d
      <2>5. Calm(p)
            BY <2>2, <2>3, <2>4, TurnsCalm, SlotsAssumption
      <2> QED
          BY <2>4, <2>5, GoesOn
<1>12. CASE RemoveOne(p)
      <2>1. t \in Sessions /\ Past(t) /\ o.pc \in {"remove", "discard"}
            BY <1>1, <1>12 DEF RemoveOne, Busy, Cleans
      <2>2. RowsGoOn /\ QueueGoesOn /\ DiskGoesOn /\ RunsGoOn
            BY <1>12, <2>1, RemovalGoesOn, SameGoesOn DEF RemoveOne, rowVars
      <2>3. Past(t) /\ state' = state
            BY <1>12, <2>1 DEF RemoveOne, rowVars
      <2>4. Calm(p)
            BY <1>12, <2>1, <2>2, <2>3, GotoCalm DEF RemoveOne, ProcessPC, Past
      <2> QED
          BY <2>2, <2>4, GoesOn
<1>13. CASE ClearWorktree(p)
      <2>1. RowsGoOn /\ QueueGoesOn /\ DiskGoesOn /\ RunsGoOn /\ o.pc = "clear"
            BY <1>13, SameGoesOn DEF ClearWorktree
      <2> DEFINE d == [o EXCEPT !.pc = "clean", !.sess = NoSession]
      <2>2. d \in Process /\ d.pc = "clean" /\ d.sess = NoSession /\ d.todo = o.todo
            BY <1>1 DEF Process, ProcessPC
      <2>3. \A s \in o.todo : Past(s)
            BY <1>1, <2>1 DEF Cleans
      <2>4. proc' = [proc EXCEPT ![p] = d] \/ EndPrune(p)
            BY <1>1, <1>13 DEF ClearWorktree
      <2> HIDE DEF d
      <2>5. Calm(p)
            BY <2>1, <2>2, <2>3, <2>4, EndPruneCalm, TurnsCalm, SlotsAssumption
      <2> QED
          BY <2>1, <2>5, GoesOn
<1>14. CASE DeleteRow(p)
      <2>1. t \in Sessions
            BY <1>1, <1>14 DEF DeleteRow, Busy
      <2>2. RowsGoOn
            BY <1>14, <2>1 DEF DeleteRow, HasRow, SessionState, RowsGoOn, Typed, TypeOK
      <2>3. QueueGoesOn /\ DiskGoesOn /\ RunsGoOn
            BY <1>14, WithoutGoesOn, SameGoesOn DEF DeleteRow
      <2> QED
          BY <1>14, <2>2, <2>3, DoneCalm, GoesOn DEF DeleteRow
<1>15. CASE ProcessCrash(p)
      <2>1. RowsGoOn /\ QueueGoesOn /\ DiskGoesOn
            BY <1>15, SameGoesOn DEF ProcessCrash, rowVars
      <2>2. RunsGoOn
            BY <1>15 DEF ProcessCrash, RunsGoOn, Typed, TypeOK, Run
      <2> QED
          BY <1>15, <2>1, <2>2, DoneCalm, GoesOn DEF ProcessCrash
<1> QED
    BY <1>3, <1>4, <1>5, <1>6, <1>7, <1>8, <1>9, <1>10, <1>11, <1>12, <1>13, <1>14, <1>15

(* A cleaning pass takes its sessions from a list that is past its launch. *)
LEMMA CleanOneGoesOn ==
  ASSUME Typed, LaunchInv, NEW p \in Processes, CleanOne(p)
  PROVE  LaunchInv'
<1> DEFINE o == proc[p]
<1>1. o \in Process /\ Cleans(p) /\ proc \in [Processes -> Process] /\ o.pc = "clean"
      BY DEF Typed, TypeOK, LaunchInv, CleanOne
<1>2. \A s \in o.todo : s \in Sessions /\ Past(s)
      BY <1>1 DEF Cleans, Process
<1>3. QueueGoesOn /\ DiskGoesOn
      BY SameGoesOn DEF CleanOne
<1>4. CASE EndPrune(p) /\ UNCHANGED <<rowVars, run>>
      BY <1>3, <1>4, EndPruneCalm, SameGoesOn, GoesOn DEF rowVars
<1>5. ASSUME NEW s \in o.todo, NEW pc \in {"remove", "clear"},
             proc' = [proc EXCEPT ![p].pc = pc, ![p].sess = s, ![p].todo = @ \ {s}],
             RowsGoOn, RunsGoOn
      PROVE  LaunchInv'
      <2> DEFINE d == [o EXCEPT !.pc = pc, !.sess = s, !.todo = @ \ {s}]
      <2>1. d \in Process /\ proc' = [proc EXCEPT ![p] = d]
            BY <1>1, <1>2, <1>5 DEF Process, ProcessPC
      <2>2. d.pc = pc /\ d.sess = s /\ d.todo = o.todo \ {s}
            BY <1>1 DEF Process
      <2>3. Past(s)' /\ state[s] # "NotCreated"
            BY <1>2, <1>5 DEF RowsGoOn, Past
      <2> HIDE DEF d
      <2>4. Calm(p)
            BY <1>2, <1>5, <2>1, <2>2, <2>3, TurnsCalm
      <2> QED
          BY <1>3, <1>5, <2>4, GoesOn
<1>6. ASSUME NEW s \in o.todo, proc' = [proc EXCEPT ![p].todo = @ \ {s}],
             UNCHANGED <<rowVars, run>>
      PROVE  LaunchInv'
      <2> DEFINE d == [o EXCEPT !.todo = @ \ {s}]
      <2>1. d \in Process /\ proc' = [proc EXCEPT ![p] = d]
            BY <1>1, <1>6 DEF Process
      <2>2. d.pc = "clean" /\ d.sess = o.sess /\ d.todo = o.todo \ {s}
            BY <1>1 DEF Process
      <2>3. RowsGoOn /\ RunsGoOn
            BY <1>6, SameGoesOn DEF rowVars
      <2>4. o.sess \in Sessions => state[o.sess] # "NotCreated"
            BY <1>1 DEF LaunchInv, NewApart
      <2> HIDE DEF d
      <2>5. Calm(p)
            BY <1>2, <2>1, <2>2, <2>3, <2>4, TurnsCalm
      <2> QED
          BY <1>3, <2>3, <2>5, GoesOn
<1>7. ASSUME NEW s \in o.todo, KillRecorded(s), Becomes(s, "Stopped")
      PROVE  RowsGoOn /\ RunsGoOn
      BY <1>2, <1>7, BecomesGoesOn, KillGoesOn
<1>8. UNCHANGED <<rowVars, run>> => RowsGoOn /\ RunsGoOn
      BY SameGoesOn DEF rowVars
<1> QED
    BY <1>4, <1>5, <1>6, <1>7, <1>8 DEF CleanOne

(* Runs, stops and sweeps.                                                 *)
LEMMA OthersGoOn ==
  ASSUME Typed, LaunchInv,
         \/ \E r \in Runs : RunStarts(r) \/ RunEnds(r) \/ OrphanEnds(r)
         \/ \E s \in Sessions : Stop(s) \/ GoesStale(s)
         \/ UNCHANGED vars
  PROVE  LaunchInv'
<1>1. ASSUME NEW r \in Runs, RunStarts(r) PROVE LaunchInv'
      <2>1. run[r].sess \in Sessions /\ run[r].pc = "spawning"
            BY <1>1 DEF RunStarts, Typed, Grounded
      <2>2. RowsGoOn
            BY <1>1, <2>1, BecomesGoesOn DEF RunStarts
      <2>3. RunsGoOn
            BY <1>1, <2>1, RunMovesOn DEF RunStarts
      <2> QED
          BY <1>1, <2>2, <2>3, SameGoesOn, GoesOn DEF RunStarts
<1>2. ASSUME NEW r \in Runs, RunEnds(r) PROVE LaunchInv'
      <2>1. run[r].sess \in Sessions
            BY <1>2 DEF RunEnds, Typed, Grounded
      <2>2. RowsGoOn
            BY <1>2, <2>1, BecomesGoesOn DEF RunEnds
      <2>3. RunsGoOn
            BY <1>2, RunMovesOn DEF RunEnds
      <2> QED
          BY <1>2, <2>2, <2>3, SameGoesOn, GoesOn DEF RunEnds
<1>3. ASSUME NEW r \in Runs, OrphanEnds(r) PROVE LaunchInv'
      BY <1>3, RunMovesOn, SameGoesOn, GoesOn DEF OrphanEnds, rowVars
<1>4. ASSUME NEW s \in Sessions, Stop(s) PROVE LaunchInv'
      BY <1>4, BecomesGoesOn, KillGoesOn, SameGoesOn, GoesOn DEF Stop
<1>5. ASSUME NEW s \in Sessions, GoesStale(s) PROVE LaunchInv'
      BY <1>5, BecomesGoesOn, SameGoesOn, GoesOn DEF GoesStale
<1>6. CASE UNCHANGED vars
      BY <1>6, SameGoesOn, GoesOn DEF vars
<1> QED
    BY <1>1, <1>2, <1>3, <1>4, <1>5, <1>6

(* The steps that create a session, or launch it.                          *)
LEMMA BeginQueueGoesOn ==
  ASSUME Typed, LaunchInv, NEW p \in Processes, NEW s \in Sessions, BeginQueue(p, s)
  PROVE  LaunchInv'
<1> DEFINE o == proc[p]
<1>1. o \in Process /\ proc \in [Processes -> Process] /\ o.pc = "idle" /\ o.cwd = "repo"
      BY DEF Typed, TypeOK, Grounded, Busy, BeginQueue, May
<1>2. /\ proc'[p].pc \in {"create", "insert"} /\ proc'[p].sess = s /\ proc'[p].cwd = "repo"
      /\ proc'[p].todo = o.todo /\ \A q \in Processes \ {p} : proc'[q] = proc[q]
      BY <1>1 DEF BeginQueue, Process
<1>3. /\ state[s] = "NotCreated" /\ \A q \in Processes : proc[q].sess # s
      /\ UNCHANGED <<state, queue, disk, run>>
      BY DEF BeginQueue, rowVars
<1>4. NewApart'
      BY <1>2, <1>3 DEF LaunchInv, NewApart, Queued
<1>5. ASSUME NEW q \in Processes PROVE Creates(q)' /\ Cleans(q)'
      <2>1. CASE q = p
            BY <1>2, <1>3, <2>1 DEF Creates, Cleans
      <2>2. CASE q # p
            BY <1>2, <1>3, <2>2, StandsBy, SameGoesOn DEF LaunchInv
      <2> QED
          BY <2>1, <2>2
<1>6. \A q \in Processes, t \in Sessions : Launches(q, t)' => Launches(q, t)
      BY <1>2 DEF Launches
<1>7. OneLaunch' /\ OneGoes'
      BY <1>3, <1>6 DEF LaunchInv, OneLaunch, OneGoes, Launched, Going
<1> QED
    BY <1>4, <1>5, <1>7 DEF LaunchInv

LEMMA CreateWorktreeGoesOn ==
  ASSUME Typed, LaunchInv, NEW p \in Processes, CreateWorktree(p)
  PROVE  LaunchInv'
<1> DEFINE o == proc[p]
           s == o.sess
<1>1. o \in Process /\ proc \in [Processes -> Process] /\ o.pc = "create" /\ s \in Sessions
      BY DEF Typed, TypeOK, Grounded, Busy, CreateWorktree
<1>2. UNCHANGED <<state, queue, run>>
      BY DEF CreateWorktree, rowVars
<1>3. CASE Done(p) /\ UNCHANGED disk
      BY <1>2, <1>3, DoneCalm, SameGoesOn, GoesOn
<1>4. CASE AddWorktree(s) /\ proc' = [proc EXCEPT ![p].cwd = "worktree", ![p].pc = "insert"]
      <2>1. /\ proc'[p].pc = "insert" /\ proc'[p].sess = s /\ proc'[p].todo = o.todo
            /\ \A q \in Processes \ {p} : proc'[q] = proc[q]
            BY <1>1, <1>4 DEF Process
      <2>2. disk'[s] = "worktree" /\ \A t \in Sessions \ {s} : disk'[t] = disk[t]
            BY <1>1, <1>4 DEF AddWorktree, Typed, TypeOK
      <2>3. DiskGoesOn
            BY <2>2 DEF DiskGoesOn
      <2>4. NewApart'
            BY <1>1, <1>2, <2>1 DEF LaunchInv, NewApart, Queued
      <2>5. ASSUME NEW q \in Processes PROVE Creates(q)' /\ Cleans(q)'
            <3>1. CASE q = p
                  BY <1>1, <1>2, <2>1, <2>2, <3>1 DEF Creates, Cleans, LaunchInv
            <3>2. CASE q # p
                  BY <1>2, <2>1, <2>3, <3>2, StandsBy, SameGoesOn DEF LaunchInv
            <3> QED
                BY <3>1, <3>2
      <2>6. \A q \in Processes, t \in Sessions : Launches(q, t)' => Launches(q, t)
            BY <2>1 DEF Launches
      <2>7. OneLaunch' /\ OneGoes'
            BY <1>2, <2>2, <2>6 DEF LaunchInv, OneLaunch, OneGoes, Launched, Going
      <2> QED
          BY <2>4, <2>5, <2>7 DEF LaunchInv
<1> QED
    BY <1>3, <1>4 DEF CreateWorktree

LEMMA InsertSessionGoesOn ==
  ASSUME Typed, LaunchInv, NEW p \in Processes, InsertSession(p)
  PROVE  LaunchInv'
<1> DEFINE o == proc[p]
           s == o.sess
<1>1. o \in Process /\ proc \in [Processes -> Process] /\ o.pc = "insert" /\ s \in Sessions
      BY DEF Typed, TypeOK, Grounded, Busy, InsertSession
<1>2. /\ state[s] = "NotCreated" /\ (o.cwd = "worktree" => disk[s] # "absent")
      /\ \A r \in Runs : run[r].sess # s
      /\ \A q \in Processes \ {p} : proc[q].sess # s
      /\ \A q \in Processes : s \notin proc[q].todo
      BY <1>1 DEF LaunchInv, Creates, NewApart
<1>3. /\ state'[s] = "Pending" /\ \A t \in Sessions \ {s} : state'[t] = state[t]
      /\ UNCHANGED <<queue, disk, run>>
      BY <1>1 DEF InsertSession, Typed, TypeOK
<1>4. /\ proc'[p].pc = (IF o.cwd = "worktree" THEN "launch" ELSE "enqueue")
      /\ proc'[p].sess = s /\ proc'[p].todo = o.todo
      /\ \A q \in Processes \ {p} : proc'[q] = proc[q]
      BY <1>1 DEF InsertSession, Goto, Process
<1>5. NewApart'
      BY <1>1, <1>2, <1>3, <1>4 DEF LaunchInv, NewApart, Queued
<1>6. ASSUME NEW q \in Processes PROVE Creates(q)' /\ Cleans(q)'
      <2>1. CASE q = p
            BY <1>4, <2>1 DEF Creates, Cleans
      <2>2. CASE q # p
            <3>1. proc'[q] = proc[q] /\ proc[q].todo \subseteq Sessions \ {s} /\ proc[q].sess # s
                  BY <1>2, <1>4, <2>2 DEF Typed, TypeOK, Process
            <3>2. proc[q].pc \in {"create", "insert", "remove", "clear", "discard", "delete", "undo"}
                    => proc[q].sess \in Sessions \ {s}
                  BY <3>1 DEF Typed, Grounded, Busy
            <3> QED
                BY <1>3, <3>1, <3>2 DEF LaunchInv, Creates, Cleans, Past
      <2> QED
          BY <2>1, <2>2
<1>7. \A q \in Processes, t \in Sessions :
        Launches(q, t)' => Launches(q, t) \/ (q = p /\ t = s /\ o.cwd = "worktree")
      BY <1>4 DEF Launches
<1>8. ASSUME NEW t \in Sessions, t # s, state'[t] = "Pending"
      PROVE  /\ \A q, r \in Runs : Launched(q, t)' /\ Launched(r, t)' => q = r
             /\ \A a, q \in Processes : Launches(a, t)' /\ Launches(q, t)' => a = q
             /\ \A q \in Processes, r \in Runs : ~(Launches(q, t)' /\ Launched(r, t)')
             /\ \A q \in Processes : Launches(q, t)' => disk'[t] # "absent"
             /\ \A r \in Runs : Launched(r, t)' => disk'[t] # "absent"
      BY <1>3, <1>7, <1>8 DEF LaunchInv, OneLaunch, Launched
<1>9. ASSUME NEW t \in Sessions, t = s
      PROVE  /\ \A r \in Runs : ~Launched(r, t)'
             /\ \A q \in Processes : Launches(q, t)' => q = p /\ disk'[t] # "absent"
      BY <1>1, <1>2, <1>3, <1>7, <1>9 DEF Launched, Launches
<1>10. OneLaunch' /\ OneGoes'
      BY <1>3, <1>8, <1>9 DEF LaunchInv, OneLaunch, OneGoes, Going
<1> QED
    BY <1>5, <1>6, <1>10 DEF LaunchInv

LEMMA EnqueueRequestGoesOn ==
  ASSUME Typed, LaunchInv, NEW p \in Processes, EnqueueRequest(p)
  PROVE  LaunchInv'
<1> DEFINE s == proc[p].sess
<1>1. s \in Sessions /\ proc[p].pc = "enqueue" /\ queue \in Seq(Sessions)
      BY DEF Typed, TypeOK, Grounded, Busy, EnqueueRequest
<1>2. UNCHANGED <<state, disk, run>> /\ Calm(p) /\ state[s] # "NotCreated"
      BY <1>1, DoneCalm DEF EnqueueRequest, rowVars, LaunchInv, NewApart
<1>3. RowsGoOn /\ DiskGoesOn /\ RunsGoOn
      BY <1>2, SameGoesOn
<1>4. \A i \in DOMAIN queue' : queue'[i] = s \/ \E j \in DOMAIN queue : queue'[i] = queue[j]
      BY <1>1 DEF EnqueueRequest
<1>5. NewApart'
      BY <1>2, <1>3, <1>4 DEF LaunchInv, NewApart, RowsGoOn, RunsGoOn, Queued, Calm
<1>6. ASSUME NEW q \in Processes PROVE Creates(q)' /\ Cleans(q)'
      <2>1. CASE q = p
            BY <1>2, <2>1 DEF Calm, Creates
      <2>2. CASE q # p
            BY <1>2, <1>3, <2>2, StandsBy DEF Calm, LaunchInv
      <2> QED
          BY <2>1, <2>2
<1>7. \A q \in Processes, t \in Sessions : Launches(q, t)' => Launches(q, t)
      BY <1>2 DEF Calm, Launches
<1>8. OneLaunch' /\ OneGoes'
      BY <1>2, <1>7 DEF LaunchInv, OneLaunch, OneGoes, Launched, Going
<1> QED
    BY <1>5, <1>6, <1>8 DEF LaunchInv

(* The one who makes the worktree is the one who launches.                 *)
LEMMA MakeWorktreeGoesOn ==
  ASSUME Typed, LaunchInv, NEW p \in Processes, MakeWorktree(p)
  PROVE  LaunchInv'
<1> DEFINE o == proc[p]
           s == o.sess
<1>1. /\ o \in Process /\ proc \in [Processes -> Process] /\ o.pc = "make" /\ s \in Sessions
      /\ UNCHANGED <<state, queue, run>> /\ state[s] # "NotCreated"
      BY DEF Typed, TypeOK, Grounded, Busy, MakeWorktree, rowVars, LaunchInv, NewApart
<1>2. RowsGoOn /\ QueueGoesOn /\ RunsGoOn
      BY <1>1, SameGoesOn
<1>3. CASE Goto(p, "fail") /\ UNCHANGED disk
      <2>1. Calm(p)
            BY <1>1, <1>2, <1>3, GotoCalm DEF ProcessPC
      <2> QED
          BY <1>2, <1>3, <2>1, SameGoesOn, GoesOn
<1>4. CASE AddWorktree(s) /\ Goto(p, "attach")
      <2>1. /\ proc'[p].pc = "attach" /\ proc'[p].sess = s /\ proc'[p].todo = o.todo
            /\ \A q \in Processes \ {p} : proc'[q] = proc[q]
            BY <1>1, <1>4 DEF Goto, Process
      <2>2. /\ disk[s] = "absent" /\ disk'[s] = "worktree"
            /\ \A t \in Sessions \ {s} : disk'[t] = disk[t]
            BY <1>1, <1>4 DEF AddWorktree, Typed, TypeOK
      <2>3. DiskGoesOn
            BY <2>2 DEF DiskGoesOn
      <2>4. NewApart'
            BY <1>1, <2>1 DEF LaunchInv, NewApart, Queued
      <2>5. ASSUME NEW q \in Processes PROVE Creates(q)' /\ Cleans(q)'
            <3>1. CASE q = p
                  BY <2>1, <3>1 DEF Creates, Cleans
            <3>2. CASE q # p
                  BY <1>2, <2>1, <2>3, <3>2, StandsBy DEF LaunchInv
            <3> QED
                BY <3>1, <3>2
      <2>6. \A q \in Processes, t \in Sessions :
              Launches(q, t)' => Launches(q, t) \/ (q = p /\ t = s)
            BY <2>1 DEF Launches
      <2>7. ASSUME state[s] = "Pending"
            PROVE  /\ \A q \in Processes : ~Launches(q, s)
                   /\ \A r \in Runs : ~Launched(r, s)
            BY <1>1, <2>2, <2>7 DEF LaunchInv, OneLaunch
      <2>8. OneLaunch'
            BY <1>1, <2>2, <2>6, <2>7 DEF LaunchInv, OneLaunch, Launched
      <2>9. OneGoes'
            BY <1>1 DEF LaunchInv, OneGoes, Going
      <2> QED
          BY <2>4, <2>5, <2>8, <2>9 DEF LaunchInv
<1> QED
    BY <1>3, <1>4 DEF MakeWorktree

(* A launch passes from the process to the run it starts.                  *)
LEMMA StartGoesOn ==
  ASSUME Typed, LaunchInv, NEW p \in Processes, NEW cwd, NEW by,
         proc[p].pc \in {"launch", "start"}, StartRun(proc[p].sess, cwd, by),
         UNCHANGED <<state, queue>>, DiskGoesOn,
         \A q \in Processes \ {p} : proc'[q] = proc[q],
         \/ proc'[p].pc = "dequeue" /\ proc'[p].sess = proc[p].sess
              /\ proc'[p].todo = proc[p].todo
         \/ proc'[p] = Nothing
  PROVE  LaunchInv'
<1> DEFINE s == proc[p].sess
<1>1. s \in Sessions /\ state[s] # "NotCreated"
      BY DEF Typed, Grounded, Busy, LaunchInv, NewApart
<1>2. PICK r \in Runs :
        /\ run[r].pc = "unused"
        /\ run' = [run EXCEPT ![r] = [pc |-> "starting", sess |-> s, cwd |-> cwd, by |-> by]]
      BY DEF StartRun
<1>3. /\ run'[r].pc = "starting" /\ run'[r].sess = s
      /\ \A q \in Runs \ {r} : run'[q] = run[q]
      BY <1>2 DEF Typed, TypeOK
<1>4. NewApart'
      BY <1>1, <1>3, SlotsAssumption DEF LaunchInv, NewApart, Queued, Nothing
<1>5. ASSUME NEW q \in Processes PROVE Creates(q)' /\ Cleans(q)'
      <2>1. CASE q = p
            BY <2>1 DEF Creates, Cleans, Nothing
      <2>2. CASE q # p
            BY <2>2, StandsBy, SameGoesOn DEF LaunchInv
      <2> QED
          BY <2>1, <2>2
<1>6. \A q \in Processes, t \in Sessions : Launches(q, t)' => q # p /\ Launches(q, t)
      BY DEF Launches, Nothing
<1>7. \A q \in Runs, t \in Sessions : Launched(q, t)' => Launched(q, t) \/ (q = r /\ t = s)
      BY <1>3 DEF Launched
<1>8. Launches(p, s)
      BY DEF Launches
<1>9. ASSUME state[s] = "Pending"
      PROVE  /\ \A q \in Processes \ {p} : ~Launches(q, s)
             /\ \A q \in Runs : ~Launched(q, s)
             /\ disk'[s] # "absent"
      BY <1>1, <1>8, <1>9 DEF LaunchInv, OneLaunch, DiskGoesOn, Past
<1>10. OneLaunch'
      BY <1>6, <1>7, <1>9 DEF LaunchInv, OneLaunch, DiskGoesOn, Past
<1>11. OneGoes'
      BY <1>3 DEF LaunchInv, OneGoes, Going
<1> QED
    BY <1>4, <1>5, <1>10, <1>11 DEF LaunchInv

LEMMA StartQueuedGoesOn ==
  ASSUME Typed, LaunchInv, NEW p \in Processes, StartQueued(p)
  PROVE  LaunchInv'
<1>1. proc[p] \in Process /\ proc \in [Processes -> Process]
      BY DEF Typed, TypeOK
<1>2. /\ proc'[p].pc = "dequeue" /\ proc'[p].sess = proc[p].sess /\ proc'[p].todo = proc[p].todo
      /\ \A q \in Processes \ {p} : proc'[q] = proc[q]
      BY <1>1 DEF StartQueued, Goto, Process
<1> QED
    BY <1>2, StartGoesOn, SameGoesOn DEF StartQueued, rowVars

LEMMA SpawnRunnerGoesOn ==
  ASSUME Typed, LaunchInv, NEW p \in Processes, SpawnRunner(p)
  PROVE  LaunchInv'
<1> DEFINE o == proc[p]
           s == o.sess
<1>1. /\ o \in Process /\ proc \in [Processes -> Process] /\ o.pc = "launch" /\ s \in Sessions
      /\ UNCHANGED <<state, queue>>
      BY DEF Typed, TypeOK, Grounded, Busy, SpawnRunner, rowVars, LaunchInv, Cleans
<1>2. DiskGoesOn
      BY <1>1 DEF SpawnRunner, DiskGoesOn, Typed, TypeOK
<1>3. CASE StartRun(s, o.cwd, "detached") /\ Done(p)
      <2>1. proc'[p] = Nothing /\ \A q \in Processes \ {p} : proc'[q] = proc[q]
            BY <1>1, <1>3 DEF Done
      <2> QED
          BY <1>1, <1>2, <1>3, <2>1, StartGoesOn
<1>4. CASE UNCHANGED run /\ Goto(p, "unlaunch")
      <2>1. RowsGoOn /\ QueueGoesOn /\ RunsGoOn
            BY <1>1, <1>4, SameGoesOn
      <2>2. Calm(p)
            BY <1>1, <1>4, <2>1, GotoCalm DEF ProcessPC
      <2> QED
          BY <1>2, <2>1, <2>2, GoesOn
<1> QED
    BY <1>1, <1>3, <1>4 DEF SpawnRunner

(* The run that finds its session Pending is the only one.                 *)
LEMMA RunChecksGoesOn ==
  ASSUME Typed, LaunchInv, NEW r \in Runs, RunChecks(r)
  PROVE  LaunchInv'
<1> DEFINE s == run[r].sess
<1>1. /\ run[r] \in Run /\ run \in [Runs -> Run] /\ run[r].pc = "starting" /\ s \in Sessions
      /\ UNCHANGED <<state, queue, disk, proc>>
      BY DEF Typed, TypeOK, Grounded, RunChecks, rowVars
<1>2. CASE state[s] # "Pending"
      BY <1>1, <1>2, RunMovesOn, SameGoesOn, GoesOn DEF RunChecks
<1>3. CASE state[s] = "Pending"
      <2>1. /\ run'[r].pc = "spawning" /\ run'[r].sess = s
            /\ \A q \in Runs \ {r} : run'[q] = run[q]
            BY <1>1, <1>3 DEF RunChecks, Run
      <2>2. NewApart'
            BY <1>1, <2>1 DEF LaunchInv, NewApart, Queued
      <2>3. ASSUME NEW q \in Processes PROVE Creates(q)' /\ Cleans(q)'
            BY <1>1, StandsBy, SameGoesOn DEF LaunchInv
      <2>4. \A q \in Runs, t \in Sessions : Launched(q, t)' <=> Launched(q, t)
            BY <1>1, <2>1 DEF Launched
      <2>5. OneLaunch'
            BY <1>1, <2>4 DEF LaunchInv, OneLaunch, Launches
      <2>6. \A q \in Runs : Launched(q, s) => q = r
            BY <1>1, <1>3 DEF LaunchInv, OneLaunch, Launched
      <2>7. \A q \in Runs, t \in Sessions :
              Going(q, t)' => Going(q, t) \/ (q = r /\ t = s)
            BY <2>1 DEF Going
      <2>8. OneGoes'
            BY <2>6, <2>7 DEF LaunchInv, OneGoes, Going, Launched
      <2> QED
          BY <2>2, <2>3, <2>5, <2>8 DEF LaunchInv
<1> QED
    BY <1>2, <1>3

LEMMA LaunchStep ==
  ASSUME Typed, LaunchInv, NoRelaunch, [Next]_vars
  PROVE  LaunchInv'
<1>1. ASSUME NEW p \in Processes, Request(p) PROVE LaunchInv'
      <2>1. PICK s \in Sessions :
              BeginQueue(p, s) \/ BeginCleanup(p, s) \/ BeginResume(p, s) \/ BeginDelete(p, s)
            BY <1>1 DEF Request
      <2>2. ~BeginCleanup(p, s) /\ ~BeginResume(p, s)
            BY DEF BeginCleanup, BeginResume, May, NoRelaunch
      <2> QED
          BY <2>1, <2>2, BeginQueueGoesOn, CalmSteps
<1>2. ASSUME NEW p \in Processes, ProcessStep(p) PROVE LaunchInv'
      BY <1>2, CalmSteps, CleanOneGoesOn, CreateWorktreeGoesOn, InsertSessionGoesOn,
         EnqueueRequestGoesOn, MakeWorktreeGoesOn, StartQueuedGoesOn, SpawnRunnerGoesOn
      DEF ProcessStep
<1>3. ASSUME NEW p \in Processes, BeginActivate(p) \/ BeginPrune(p) \/ ProcessCrash(p)
      PROVE  LaunchInv'
      BY <1>3, CalmSteps
<1> QED
    BY <1>1, <1>2, <1>3, RunChecksGoesOn, OthersGoOn DEF Next

(* However many processes activate one queue, and wherever they die, a     *)
(* session has one agent: `git worktree add -b` refuses the second         *)
(* (create_for_session_in_repo, worktree/mod.rs), and a run looks at the   *)
(* state before it starts (run_session, manager.rs).                       *)
THEOREM OneAgentEach ==
  ASSUME NoRelaunch
  PROVE  Spec => []OneRunWorks
<1>1. Spec => []Typed
      BY TypedInit, TypedStep, PTL DEF Spec
<1>2. Typed /\ LaunchInv /\ [Next]_vars => LaunchInv'
      BY LaunchStep
<1>3. Typed /\ LaunchInv => OneRunWorks
      BY DEF LaunchInv, OneGoes, Going, OneRunWorks, Typed, Grounded
<1> QED
    BY <1>1, <1>2, <1>3, LaunchInit, PTL DEF Spec

-----------------------------------------------------------------------------
(* No request is lost, for any number of processes and every operation,    *)
(* when no process dies and no launch fails.                               *)

LaunchPC == {"launch", "relaunch", "unlaunch", "attach", "start", "fail"}

(* Something that is not the queue will launch the session, or fail it.    *)
Sure(s) ==
  \/ \E r \in Runs : run[r].sess = s /\ run[r].pc \in {"starting", "spawning"}
  \/ \E p \in Processes : proc[p].sess = s /\ proc[p].pc \in LaunchPC

(* Its request waits, and no activation pass will drop it.                 *)
Waits(s) ==
  /\ Queued(s) \/ \E p \in Processes : proc[p].sess = s /\ proc[p].pc = "enqueue"
  /\ s \notin attached
  /\ \A p \in Processes : ~(proc[p].sess = s /\ proc[p].pc = "dequeue")

Served(s) == state[s] = "Pending" => Sure(s) \/ Waits(s)

(* A session without a row belongs to its creator alone.                   *)
Unborn(s) ==
  state[s] = "NotCreated" =>
    /\ s \notin attached
    /\ \A p \in Processes : proc[p].sess = s => proc[p].pc \in {"create", "insert"}

Creating(p) ==
  proc[p].pc \in {"create", "insert"} =>
    /\ state[proc[p].sess] = "NotCreated"
    /\ \A q \in Processes : proc[q].sess = proc[p].sess => q = p

(* A recorded pid is that of an agent that has started, and a session that *)
(* waits has none: no kill takes a launch away.                            *)
PidStarted(s) ==
  /\ state[s] \in {"NotCreated", "Pending"} => pid[s] = NoRun
  /\ pid[s] # NoRun => run[pid[s]].pc \in {"working", "orphan", "over"}

PendingInv ==
  /\ \A s \in Sessions : Served(s) /\ Unborn(s) /\ PidStarted(s)
  /\ \A p \in Processes : Creating(p)

(* A dequeue drops nobody else's request.                                  *)
LEMMA WithoutKeeps ==
  ASSUME NEW q \in Seq(Sessions), NEW s \in Sessions, NEW u \in Sessions, u # s,
         NEW k \in DOMAIN q, q[k] = u
  PROVE  \E i \in DOMAIN Without(q, s) : Without(q, s)[i] = u
<1> DEFINE place == CHOOSE i \in DOMAIN q : q[i] = s
           head == SubSeq(q, 1, place - 1)
           tail == SubSeq(q, place + 1, Len(q))
<1>1. CASE \E i \in DOMAIN q : q[i] = s
      <2>1. place \in 1..Len(q) /\ q[place] = s
            BY <1>1
      <2> SUFFICES \E i \in DOMAIN (head \o tail) : (head \o tail)[i] = u
          BY <1>1 DEF Without
      <2> HIDE DEF place
      <2>2. head \in Seq(Sessions) /\ Len(head) = place - 1 /\ \A j \in 1..(place - 1) : head[j] = q[j]
            BY <2>1
      <2>3. /\ tail \in Seq(Sessions) /\ Len(tail) = Len(q) - place
            /\ \A j \in 1..(Len(q) - place) : tail[j] = q[place + j]
            BY <2>1
      <2> HIDE DEF head, tail
      <2>4. k \in 1..Len(q) /\ k # place
            BY <2>1
      <2>5. DOMAIN (head \o tail) = 1..(Len(head) + Len(tail))
            BY <2>2, <2>3
      <2>6. CASE k < place
            <3>1. (head \o tail)[k] = head[k] /\ k \in 1..(place - 1)
                  BY <2>1, <2>2, <2>3, <2>4, <2>6
            <3> QED BY <2>1, <2>2, <2>3, <2>5, <3>1
      <2>7. CASE k > place
            <3>1. PICK j \in 1..(Len(q) - place) : k = place + j
                  BY <2>1, <2>4, <2>7
            <3>2. k - 1 \in 1..(Len(head) + Len(tail)) /\ k - 1 > Len(head) /\ (k - 1) - Len(head) = j
                  BY <2>1, <2>2, <2>3, <3>1
            <3>3. (head \o tail)[k - 1] = tail[(k - 1) - Len(head)]
                  BY <2>2, <2>3, <3>2
            <3>4. tail[j] = q[place + j]
                  BY <2>3, <3>1
            <3>5. (head \o tail)[k - 1] = u
                  BY <3>1, <3>2, <3>3, <3>4
            <3> QED BY <2>5, <3>2, <3>5
      <2> QED
          BY <2>1, <2>4, <2>6, <2>7
<1>2. CASE ~\E i \in DOMAIN q : q[i] = s
      BY <1>2 DEF Without
<1> QED
    BY <1>1, <1>2

LEMMA RequestsLeft ==
  ASSUME Typed, NEW s \in Sessions, NEW u \in Sessions, u # s, Queued(u), queue' = Without(queue, s)
  PROVE  Queued(u)'
<1>1. PICK k \in DOMAIN queue : queue[k] = u
      BY DEF Queued
<1>2. PICK q \in Seq(Sessions) : q = queue
      BY DEF Typed, TypeOK
<1>3. k \in DOMAIN q /\ q[k] = u
      BY <1>1, <1>2
<1>4. \E i \in DOMAIN Without(q, s) : Without(q, s)[i] = u
      BY <1>3, WithoutKeeps
<1> QED
    BY <1>2, <1>4 DEF Queued

LEMMA PendingInit == Init => PendingInv
<1> SUFFICES ASSUME Init PROVE PendingInv
    OBVIOUS
<1>1. ASSUME NEW s \in Sessions PROVE Served(s) /\ Unborn(s) /\ PidStarted(s)
      BY <1>1, SlotsAssumption DEF Init, Nothing, Served, Unborn, PidStarted
<1>2. ASSUME NEW p \in Processes PROVE Creating(p)
      BY <1>2 DEF Init, Nothing, Creating
<1> QED
    BY <1>1, <1>2 DEF PendingInv

(* What steps do to launches, pids, attached worktrees and requests.       *)
LaunchesGoOn ==
  \A r \in Runs :
    /\ run[r].pc \in {"starting", "spawning"} /\ state'[run[r].sess] = "Pending" =>
         run'[r].sess = run[r].sess /\ run'[r].pc \in {"starting", "spawning"}
    /\ run[r].pc \in {"working", "orphan", "over"} =>
         run'[r].pc \in {"working", "orphan", "over"}

PidsGoOn ==
  \A s \in Sessions :
    \/ pid'[s] \in {NoRun, pid[s]}
    \/ /\ state'[s] \notin {"NotCreated", "Pending"}
       /\ run'[pid'[s]].pc \in {"working", "orphan", "over"}

AttachedGoOn ==
  \A s \in Sessions : s \in attached' /\ s \notin attached =>
    state[s] # "NotCreated" /\ (state'[s] = "Pending" => Sure(s)')

RequestsGoOn ==
  \A s \in Sessions : Queued(s) /\ state'[s] = "Pending" => Queued(s)' \/ Sure(s)'

(* What steps do to their process: it keeps its promises, and takes up no  *)
(* session that has no row.                                                *)
Serves(p) ==
  /\ \A q \in Processes \ {p} : proc'[q] = proc[q]
  /\ proc'[p].pc \notin {"create", "insert"}
  /\ \A s \in Sessions :
       /\ proc'[p].sess = s => state[s] # "NotCreated"
       /\ proc[p].sess = s /\ state'[s] = "Pending" =>
            /\ proc[p].pc \in LaunchPC => Sure(s)'
            /\ proc[p].pc = "enqueue" => Queued(s)'
       /\ proc'[p].sess = s /\ proc'[p].pc = "dequeue" /\ state'[s] = "Pending" => Sure(s)'

LEMMA StaysServed ==
  ASSUME Typed, PendingInv, RowsGoOn, LaunchesGoOn, PidsGoOn, AttachedGoOn, RequestsGoOn,
         UNCHANGED proc \/ \E p \in Processes : Serves(p)
  PROVE  PendingInv'
<1>1. ASSUME NEW s \in Sessions PROVE Unborn(s)'
      <2>1. CASE UNCHANGED proc
            BY <2>1 DEF PendingInv, Unborn, RowsGoOn, AttachedGoOn
      <2>2. ASSUME NEW p \in Processes, Serves(p) PROVE Unborn(s)'
            BY <2>2 DEF PendingInv, Unborn, RowsGoOn, AttachedGoOn, Serves
      <2> QED
          BY <2>1, <2>2
<1>2. ASSUME NEW q \in Processes PROVE Creating(q)'
      <2>1. proc[q].pc \in {"create", "insert"} => proc[q].sess \in Sessions
            BY DEF Typed, Grounded, Busy
      <2>2. CASE UNCHANGED proc
            BY <2>1, <2>2 DEF PendingInv, Creating, RowsGoOn
      <2>3. ASSUME NEW p \in Processes, Serves(p) PROVE Creating(q)'
            BY <2>1, <2>3 DEF PendingInv, Creating, RowsGoOn, Serves
      <2> QED
          BY <2>2, <2>3
<1>3. ASSUME NEW s \in Sessions PROVE PidStarted(s)'
      <2>1. PidStarted(s) /\ pid[s] \in Runs \cup {NoRun}
            BY DEF PendingInv, Typed, TypeOK
      <2>2. state'[s] \in {"NotCreated", "Pending"} => state[s] \in {"NotCreated", "Pending"}
            BY DEF RowsGoOn
      <2>3. CASE pid'[s] \in {NoRun, pid[s]}
            BY <2>1, <2>2, <2>3 DEF PidStarted, LaunchesGoOn
      <2>4. CASE pid'[s] \notin {NoRun, pid[s]}
            BY <2>4 DEF PidStarted, PidsGoOn
      <2> QED
          BY <2>3, <2>4
<1>4. ASSUME NEW s \in Sessions PROVE Served(s)'
      <2> SUFFICES ASSUME state'[s] = "Pending" PROVE Sure(s)' \/ Waits(s)'
          BY DEF Served
      <2>1. state[s] = "Pending" /\ (Sure(s) \/ Waits(s))
            BY DEF RowsGoOn, PendingInv, Served
      <2>2. ASSUME NEW r \in Runs, run[r].sess = s, run[r].pc \in {"starting", "spawning"}
            PROVE  Sure(s)'
            BY <2>2 DEF LaunchesGoOn, Sure
      <2>3. CASE UNCHANGED proc
            <3>1. Sure(s) => Sure(s)'
                  BY <2>2, <2>3 DEF Sure
            <3>2. Waits(s) => Sure(s)' \/ Waits(s)'
                  BY <2>3 DEF Waits, RequestsGoOn, AttachedGoOn
            <3> QED
                BY <2>1, <3>1, <3>2
      <2>4. ASSUME NEW p \in Processes, Serves(p) PROVE Sure(s)' \/ Waits(s)'
            <3>1. ASSUME NEW q \in Processes, proc[q].sess = s, proc[q].pc \in LaunchPC
                  PROVE  Sure(s)'
                  BY <2>4, <3>1 DEF Serves, Sure
            <3>2. Sure(s) => Sure(s)'
                  BY <2>2, <3>1 DEF Sure
            <3>3. ASSUME NEW q \in Processes, proc[q].sess = s, proc[q].pc = "enqueue"
                  PROVE  Queued(s)' \/ (proc'[q].sess = s /\ proc'[q].pc = "enqueue")
                  BY <2>4, <3>3 DEF Serves
            <3>4. Waits(s) /\ ~Sure(s)' =>
                    \A q \in Processes : ~(proc'[q].sess = s /\ proc'[q].pc = "dequeue")
                  BY <2>4 DEF Serves, Waits
            <3>5. Waits(s) /\ ~Sure(s)' => Waits(s)'
                  BY <3>3, <3>4 DEF Waits, RequestsGoOn, AttachedGoOn
            <3> QED
                BY <2>1, <3>2, <3>5
      <2> QED
          BY <2>3, <2>4
<1> QED
    BY <1>1, <1>2, <1>3, <1>4 DEF PendingInv

LEMMA SameServes ==
  /\ UNCHANGED state => RowsGoOn
  /\ UNCHANGED run => LaunchesGoOn
  /\ UNCHANGED pid => PidsGoOn
  /\ UNCHANGED attached => AttachedGoOn
  /\ UNCHANGED queue => RequestsGoOn
BY DEF RowsGoOn, LaunchesGoOn, PidsGoOn, AttachedGoOn, RequestsGoOn, Queued

LEMMA DequeueServes ==
  ASSUME Typed, NEW s \in Sessions, queue' = Without(queue, s),
         state'[s] = "Pending" => Sure(s)'
  PROVE  RequestsGoOn
<1> SUFFICES ASSUME NEW u \in Sessions, Queued(u), state'[u] = "Pending"
             PROVE  Queued(u)' \/ Sure(u)'
    BY DEF RequestsGoOn
<1>1. CASE u = s
      BY <1>1
<1>2. CASE u # s
      BY <1>2, RequestsLeft
<1> QED
    BY <1>1, <1>2

(* A launch that fails, and a stop, leave no session Pending.              *)
LEMMA LeavesPending ==
  ASSUME Typed, NEW s \in Sessions, NEW to \in {"Running", "Failed", "Stopped"}, Becomes(s, to)
  PROVE  state'[s] # "Pending"
BY DEF Becomes, HasRow, SessionState, CanTransition, Successors, Typed, TypeOK

LEMMA KillServes ==
  ASSUME Typed, PendingInv, NEW s \in Sessions, KillRecorded(s)
  PROVE  LaunchesGoOn
<1>1. CASE pid[s] = NoRun
      BY <1>1, SameServes DEF KillRecorded
<1>2. CASE pid[s] # NoRun
      <2>1. pid[s] \in Runs /\ run[pid[s]].pc \in {"working", "orphan", "over"}
            BY <1>2 DEF Typed, TypeOK, PendingInv, PidStarted
      <2>2. run \in [Runs -> Run]
            BY DEF Typed, TypeOK
      <2>3. \A r \in Runs : /\ r # pid[s] => run'[r] = run[r]
                            /\ r = pid[s] => run'[r].pc = "over"
            BY <1>2, <2>1, <2>2 DEF KillRecorded, Run
      <2> QED
          BY <2>1, <2>3 DEF LaunchesGoOn
<1> QED
    BY <1>1, <1>2

LEMMA NoPidServes ==
  ASSUME Typed, NEW s \in Sessions, pid' = [pid EXCEPT ![s] = NoRun]
  PROVE  PidsGoOn
BY DEF PidsGoOn, Typed, TypeOK

(* A launch: a session at whose worktree a run has been set is served.     *)
LEMMA StartServes ==
  ASSUME Typed, NEW s \in Sessions, NEW cwd, NEW by, StartRun(s, cwd, by)
  PROVE  LaunchesGoOn /\ Sure(s)'
<1>1. PICK r \in Runs :
        /\ run[r].pc = "unused"
        /\ run' = [run EXCEPT ![r] = [pc |-> "starting", sess |-> s, cwd |-> cwd, by |-> by]]
      BY DEF StartRun
<1>2. run'[r].pc = "starting" /\ run'[r].sess = s /\ \A q \in Runs \ {r} : run'[q] = run[q]
      BY <1>1 DEF Typed, TypeOK
<1> QED
    BY <1>1, <1>2 DEF LaunchesGoOn, Sure

(* A process that has promised nothing.                                    *)
LEMMA TurnsServe ==
  ASSUME Typed, PendingInv, NEW p \in Processes, NEW d \in Process,
         proc' = [proc EXCEPT ![p] = d],
         proc[p].pc \notin LaunchPC \cup {"enqueue"},
         d.pc \notin {"create", "insert", "dequeue"},
         d.sess \in Sessions => state[d.sess] # "NotCreated"
  PROVE  Serves(p)
<1>1. proc'[p] = d /\ \A q \in Processes \ {p} : proc'[q] = proc[q]
      BY DEF Typed, TypeOK
<1> QED
    BY <1>1 DEF Serves

LEMMA DoneServes ==
  ASSUME Typed, PendingInv, NEW p \in Processes, Done(p),
         proc[p].pc \notin LaunchPC \cup {"enqueue"}
  PROVE  Serves(p)
BY TurnsServe, NothingType, SlotsAssumption DEF Done, Nothing

LEMMA EndPruneServes ==
  ASSUME Typed, PendingInv, NEW p \in Processes, EndPrune(p),
         proc[p].pc \notin LaunchPC \cup {"enqueue"}
  PROVE  Serves(p)
<1> DEFINE d == [Nothing EXCEPT !.pc = IF p \in Daemons THEN "activate" ELSE "idle"]
<1>1. d \in Process /\ d.pc \in {"activate", "idle"} /\ d.sess = NoSession
      BY NothingType DEF Nothing, Process, ProcessPC
<1> HIDE DEF d
<1>2. proc' = [proc EXCEPT ![p] = d]
      BY DEF EndPrune, d
<1> QED
    BY <1>1, <1>2, TurnsServe, SlotsAssumption

(* The session at hand has a row, unless the process creates it.           *)
LEMMA HasBeenBorn ==
  ASSUME PendingInv, NEW p \in Processes, proc[p].pc \notin {"create", "insert"},
         proc[p].sess \in Sessions
  PROVE  state[proc[p].sess] # "NotCreated"
BY DEF PendingInv, Unborn

LEMMA GotoServes ==
  ASSUME Typed, PendingInv, NEW p \in Processes, NEW pc \in ProcessPC, Goto(p, pc),
         proc[p].pc \notin LaunchPC \cup {"enqueue", "create", "insert"},
         pc \notin {"create", "insert", "dequeue"}
  PROVE  Serves(p)
<1> DEFINE d == [proc[p] EXCEPT !.pc = pc]
<1>1. proc[p] \in Process
      BY DEF Typed, TypeOK
<1>2. d \in Process /\ d.pc = pc /\ d.sess = proc[p].sess
      BY <1>1 DEF Process
<1>3. proc' = [proc EXCEPT ![p] = d]
      BY DEF Goto
<1> HIDE DEF d
<1> QED
    BY <1>2, <1>3, TurnsServe, HasBeenBorn

(* The steps that take up a session that has a row, or none.               *)
LEMMA QuietServes ==
  ASSUME Typed, PendingInv, NEW p \in Processes,
         \/ \E s \in Sessions : BeginDelete(p, s) \/ BeginCleanup(p, s)
         \/ BeginActivate(p) \/ BeginPrune(p) \/ RemoveUnlaunched(p)
         \/ TakeRequest(p) \/ MakeWorktree(p) \/ DequeueStarted(p)
         \/ RemoveOne(p) \/ ClearWorktree(p) \/ DeleteRow(p)
  PROVE  PendingInv'
<1> DEFINE t == proc[p].sess
           o == proc[p]
<1>1. o \in Process /\ Busy(o) /\ proc \in [Processes -> Process]
      BY DEF Typed, TypeOK, Grounded
<1>2. o.pc \notin {"create", "insert"} /\ t \in Sessions => state[t] # "NotCreated"
      BY HasBeenBorn
<1>3. ASSUME NEW s \in Sessions, BeginDelete(p, s) PROVE PendingInv'
      <2> DEFINE d == [o EXCEPT !.pc = IF s \in attached THEN "discard" ELSE "delete",
                                !.sess = s]
      <2>1. d \in Process /\ proc' = [proc EXCEPT ![p] = d]
            BY <1>1, <1>3 DEF BeginDelete, Process, ProcessPC
      <2>2. d.pc \in {"discard", "delete"} /\ d.sess = s
            BY <1>1 DEF Process
      <2>3. state[s] # "NotCreated" /\ o.pc = "idle"
            BY <1>3 DEF BeginDelete, Inactive, May
      <2> HIDE DEF d
      <2>4. Serves(p)
            BY <2>1, <2>2, <2>3, TurnsServe DEF LaunchPC
      <2> QED
          BY <1>3, <2>4, SameServes, StaysServed DEF BeginDelete, rowVars
<1>4. ASSUME NEW s \in Sessions, BeginCleanup(p, s) PROVE PendingInv'
      <2> DEFINE d == [o EXCEPT !.pc = "clean", !.todo = {s}]
      <2>1. d \in Process /\ proc' = [proc EXCEPT ![p] = d]
            BY <1>1, <1>4 DEF BeginCleanup, Process, ProcessPC
      <2>2. d.pc = "clean" /\ d.sess = t
            BY <1>1 DEF Process
      <2>3. o.pc = "idle"
            BY <1>4 DEF BeginCleanup, May
      <2> HIDE DEF d
      <2>4. Serves(p)
            BY <1>2, <2>1, <2>2, <2>3, TurnsServe DEF LaunchPC
      <2> QED
          BY <1>4, <2>4, SameServes, StaysServed DEF BeginCleanup, rowVars
<1>5. CASE BeginActivate(p)
      <2>1. o.pc \in {"idle", "activate"}
            BY <1>5 DEF BeginActivate, May
      <2>2. CASE Done(p)
            BY <1>5, <2>1, <2>2, DoneServes, SameServes, StaysServed
            DEF BeginActivate, LaunchPC, rowVars
      <2>3. CASE FreeSlots # 0
            <3> DEFINE listed == {queue[i] : i \in {j \in DOMAIN queue : j <= FreeSlots}}
                       d == [Nothing EXCEPT !.pc = "next", !.slots = FreeSlots, !.todo = listed]
            <3>1. listed \subseteq Sessions
                  BY DEF Typed, TypeOK
            <3>2. FreeSlots \in 0..MaxWorktrees
                  BY FreeSlotsType DEF Typed, Grounded
            <3>3. d \in Process /\ d.pc = "next" /\ d.sess = NoSession
                  BY <3>1, <3>2, NothingType DEF Nothing, Process, ProcessPC
            <3>4. proc' = [proc EXCEPT ![p] = d]
                  BY <1>5, <2>3 DEF BeginActivate
            <3> HIDE DEF d
            <3>5. Serves(p)
                  BY <2>1, <3>3, <3>4, TurnsServe, SlotsAssumption DEF LaunchPC
            <3> QED
                BY <1>5, <3>5, SameServes, StaysServed DEF BeginActivate, rowVars
      <2> QED
          BY <1>5, <2>2, <2>3 DEF BeginActivate
<1>6. CASE BeginPrune(p)
      <2> DEFINE listed == {s \in attached : state[s] \in Inactive}
                 d == [o EXCEPT !.pc = "clean", !.todo = listed]
      <2>1. listed \subseteq Sessions
            BY DEF Typed, TypeOK
      <2>2. d \in Process /\ d.pc = "clean" /\ d.sess = t
            BY <1>1, <2>1 DEF Process, ProcessPC
      <2>3. proc' = [proc EXCEPT ![p] = d] /\ o.pc = "idle"
            BY <1>1, <1>6 DEF BeginPrune, May, Process
      <2> HIDE DEF d
      <2>4. Serves(p)
            BY <1>2, <2>2, <2>3, TurnsServe DEF LaunchPC
      <2> QED
          BY <1>6, <2>4, SameServes, StaysServed DEF BeginPrune, rowVars
<1>7. CASE RemoveUnlaunched(p)
      BY <1>7, DoneServes, SameServes, StaysServed DEF RemoveUnlaunched, LaunchPC, rowVars
<1>8. CASE TakeRequest(p)
      <2>1. o.pc = "next" /\ UNCHANGED <<state, pid, attached, run>>
            BY <1>8 DEF TakeRequest, rowVars
      <2>2. CASE Done(p) /\ UNCHANGED queue
            BY <2>1, <2>2, DoneServes, SameServes, StaysServed DEF LaunchPC
      <2>3. ASSUME NEW s \in o.todo, state[s] = "Pending",
                   proc' = [proc EXCEPT ![p].pc = "make", ![p].sess = s, ![p].todo = @ \ {s}],
                   UNCHANGED queue
            PROVE  PendingInv'
            <3> DEFINE d == [o EXCEPT !.pc = "make", !.sess = s, !.todo = @ \ {s}]
            <3>1. s \in Sessions
                  BY <1>1 DEF Process
            <3>2. d \in Process /\ proc' = [proc EXCEPT ![p] = d]
                  BY <1>1, <2>3, <3>1 DEF Process, ProcessPC
            <3>3. d.pc = "make" /\ d.sess = s
                  BY <1>1 DEF Process
            <3> HIDE DEF d
            <3>4. Serves(p)
                  BY <2>1, <2>3, <3>2, <3>3, TurnsServe DEF LaunchPC
            <3> QED
                BY <2>1, <2>3, <3>4, SameServes, StaysServed
      <2>4. ASSUME NEW s \in o.todo, ~(state[s] = "Pending" /\ s \notin attached /\ pid[s] = NoRun),
                   proc' = [proc EXCEPT ![p].todo = @ \ {s}], queue' = Without(queue, s)
            PROVE  PendingInv'
            <3> DEFINE d == [o EXCEPT !.todo = @ \ {s}]
            <3>1. s \in Sessions
                  BY <1>1 DEF Process
            <3>2. d \in Process /\ proc' = [proc EXCEPT ![p] = d]
                  BY <1>1, <2>4 DEF Process
            <3>3. d.pc = "next" /\ d.sess = t
                  BY <1>1, <2>1 DEF Process
            <3> HIDE DEF d
            <3>4. Serves(p)
                  BY <1>2, <2>1, <3>2, <3>3, TurnsServe DEF LaunchPC
            <3>5. state[s] = "Pending" => Sure(s)
                  BY <2>4, <3>1 DEF PendingInv, Served, PidStarted, Waits
            <3>6. Sure(s) => Sure(s)'
                  <4>1. \A q \in Processes : proc[q].pc \in LaunchPC => proc'[q] = proc[q]
                        BY <2>1, <3>4 DEF LaunchPC, Serves
                  <4> QED
                      BY <2>1, <4>1 DEF Sure
            <3>7. RequestsGoOn
                  BY <2>1, <2>4, <3>1, <3>5, <3>6, DequeueServes
            <3> QED
                BY <2>1, <3>4, <3>7, SameServes, StaysServed
      <2> QED
          BY <1>8, <2>2, <2>3, <2>4 DEF TakeRequest
<1>9. CASE MakeWorktree(p)
      <2>1. o.pc = "make" /\ (Goto(p, "attach") \/ Goto(p, "fail"))
            BY <1>9 DEF MakeWorktree
      <2>2. Serves(p)
            BY <2>1, GotoServes DEF LaunchPC, ProcessPC
      <2> QED
          BY <1>9, <2>2, SameServes, StaysServed DEF MakeWorktree, rowVars
<1>10. CASE DequeueStarted(p)
      <2> DEFINE d == [o EXCEPT !.pc = "next", !.sess = NoSession, !.slots = @ - 1]
      <2>1. o.pc = "dequeue" /\ t \in Sessions
            BY <1>1, <1>10 DEF DequeueStarted, Busy
      <2>2. o.slots - 1 \in 0..MaxWorktrees
            BY <1>1, <2>1, SlotsAssumption DEF Process, Busy
      <2>3. d \in Process /\ proc' = [proc EXCEPT ![p] = d]
            BY <1>1, <1>10, <2>2 DEF DequeueStarted, Process, ProcessPC
      <2>4. d.pc = "next" /\ d.sess = NoSession
            BY <1>1 DEF Process
      <2> HIDE DEF d
      <2>5. Serves(p)
            BY <2>1, <2>3, <2>4, TurnsServe, SlotsAssumption DEF LaunchPC
      <2>6. state[t] = "Pending" => Sure(t)
            BY <2>1 DEF PendingInv, Served, Waits
      <2>7. PICK s \in Sessions : s = t
            BY <2>1
      <2>8. Sure(s) => Sure(s)'
            <3>1. \A q \in Processes : proc[q].pc \in LaunchPC => proc'[q] = proc[q]
                  BY <2>1, <2>5 DEF LaunchPC, Serves
            <3> QED
                BY <1>10, <3>1 DEF DequeueStarted, Sure
      <2>9. RequestsGoOn
            <3>1. queue' = Without(queue, s) /\ state' = state
                  BY <1>10, <2>7 DEF DequeueStarted, rowVars
            <3>2. state'[s] = "Pending" => Sure(s)'
                  BY <2>6, <2>7, <2>8, <3>1
            <3> QED
                BY <3>1, <3>2, DequeueServes
      <2> QED
          BY <1>10, <2>5, <2>9, SameServes, StaysServed DEF DequeueStarted, rowVars
<1>11. CASE RemoveOne(p)
      <2>1. o.pc \in {"remove", "discard"} /\ (Goto(p, "clear") \/ Goto(p, "delete"))
            BY <1>11 DEF RemoveOne
      <2>2. Serves(p)
            BY <2>1, GotoServes DEF LaunchPC, ProcessPC
      <2> QED
          BY <1>11, <2>2, SameServes, StaysServed DEF RemoveOne, rowVars
<1>12. CASE ClearWorktree(p)
      <2>1. o.pc = "clear" /\ AttachedGoOn
            BY <1>12 DEF ClearWorktree, AttachedGoOn
      <2>2. CASE EndPrune(p)
            BY <1>12, <2>1, <2>2, EndPruneServes, SameServes, StaysServed
            DEF ClearWorktree, LaunchPC
      <2>3. CASE proc' = [proc EXCEPT ![p].pc = "clean", ![p].sess = NoSession]
            <3> DEFINE d == [o EXCEPT !.pc = "clean", !.sess = NoSession]
            <3>1. d \in Process /\ proc' = [proc EXCEPT ![p] = d]
                  BY <1>1, <2>3 DEF Process, ProcessPC
            <3>2. d.pc = "clean" /\ d.sess = NoSession
                  BY <1>1 DEF Process
            <3> HIDE DEF d
            <3>3. Serves(p)
                  BY <2>1, <3>1, <3>2, TurnsServe, SlotsAssumption DEF LaunchPC
            <3> QED
                BY <1>12, <2>1, <3>3, SameServes, StaysServed DEF ClearWorktree
      <2> QED
          BY <1>12, <2>2, <2>3 DEF ClearWorktree
<1>13. CASE DeleteRow(p)
      <2>1. o.pc = "delete" /\ t \in Sessions /\ state[t] # "NotCreated"
            BY <1>1, <1>2, <1>13 DEF DeleteRow, Busy
      <2>2. Serves(p)
            BY <1>13, <2>1, DoneServes DEF DeleteRow, LaunchPC
      <2>3. AttachedGoOn /\ RowsGoOn /\ PidsGoOn /\ LaunchesGoOn
            <3>1. CASE HasRow(t)
                  BY <1>13, <2>1, <3>1, NoPidServes, SameServes
                  DEF DeleteRow, AttachedGoOn, RowsGoOn, Typed, TypeOK
            <3>2. CASE ~HasRow(t)
                  BY <1>13, <3>2, SameServes DEF DeleteRow
            <3> QED BY <3>1, <3>2
      <2>4. RequestsGoOn
            <3>1. CASE HasRow(t)
                  <4>1. PICK s \in Sessions : s = t
                        BY <2>1
                  <4>2. state'[s] = "Deleted" /\ queue' = Without(queue, s)
                        BY <1>13, <3>1, <4>1 DEF DeleteRow, Typed, TypeOK
                  <4> QED
                      BY <4>2, DequeueServes
            <3>2. CASE ~HasRow(t)
                  BY <1>13, <3>2, SameServes DEF DeleteRow
            <3> QED BY <3>1, <3>2
      <2> QED
          BY <2>2, <2>3, <2>4, StaysServed
<1> QED
    BY <1>3, <1>4, <1>5, <1>6, <1>7, <1>8, <1>9, <1>10, <1>11, <1>12, <1>13

(* The steps that keep a promise, and those that fail a launch.            *)
LEMMA LaunchSteps ==
  ASSUME Typed, PendingInv, ~MayFail, NEW p \in Processes,
         SpawnRunner(p) \/ StartQueued(p)
  PROVE  PendingInv'
<1>1. proc[p] \in Process /\ Busy(proc[p]) /\ proc[p].pc \in {"launch", "relaunch", "start"}
      BY DEF Typed, TypeOK, Grounded, SpawnRunner, StartQueued
<1>2. PICK s \in Sessions : s = proc[p].sess
      BY <1>1 DEF Busy
<1>3. UNCHANGED <<rowVars, queue>> /\ \E cwd, by : StartRun(s, cwd, by)
      BY <1>2 DEF SpawnRunner, StartQueued
<1>4. LaunchesGoOn /\ Sure(s)'
      BY <1>3, StartServes
<1>5. \E d \in Process : /\ proc' = [proc EXCEPT ![p] = d]
                         /\ d.pc \in {"idle", "dequeue"} /\ d.sess \in {NoSession, s}
      <2>1. CASE SpawnRunner(p)
            BY <2>1, NothingType DEF SpawnRunner, Done, Nothing
      <2>2. CASE StartQueued(p)
            <3> DEFINE d == [proc[p] EXCEPT !.pc = "dequeue"]
            <3>1. d \in Process /\ d.pc = "dequeue" /\ d.sess = s
                  BY <1>1, <1>2 DEF Process, ProcessPC
            <3>2. proc' = [proc EXCEPT ![p] = d]
                  BY <2>2 DEF StartQueued, Goto
            <3> HIDE DEF d
            <3> QED BY <3>1, <3>2
      <2> QED
          BY <2>1, <2>2
<1>6. PICK d \in Process : /\ proc' = [proc EXCEPT ![p] = d]
                           /\ d.pc \in {"idle", "dequeue"} /\ d.sess \in {NoSession, s}
      BY <1>5
<1>7. proc'[p] = d /\ \A q \in Processes \ {p} : proc'[q] = proc[q]
      BY <1>6 DEF Typed, TypeOK
<1>8. state[s] # "NotCreated"
      BY <1>1, <1>2, HasBeenBorn
<1>9. Serves(p)
      BY <1>1, <1>2, <1>4, <1>6, <1>7, <1>8, SlotsAssumption DEF Serves
<1> QED
    BY <1>3, <1>4, <1>9, SameServes, StaysServed DEF rowVars

(* What becomes of a row goes on, unless it is made Pending.               *)
LEMMA BecomesServes ==
  ASSUME Typed, NEW s \in Sessions, NEW to \in {"Running", "Failed", "Stopped", "Stale"},
         Becomes(s, to)
  PROVE  RowsGoOn
BY DEF Becomes, HasRow, SessionState, RowsGoOn, Typed, TypeOK

LEMMA FailServes ==
  ASSUME Typed, PendingInv, NEW p \in Processes, FailLaunch(p) \/ FailRequest(p)
  PROVE  PendingInv'
<1>1. proc[p] \in Process /\ Busy(proc[p]) /\ proc[p].pc \in {"unlaunch", "fail"}
      BY DEF Typed, TypeOK, Grounded, FailLaunch, FailRequest
<1>2. PICK s \in Sessions : s = proc[p].sess
      BY <1>1 DEF Busy
<1>3. Becomes(s, "Failed") /\ UNCHANGED <<pid, attached, run>>
      BY <1>2 DEF FailLaunch, FailRequest
<1>4. RowsGoOn /\ state'[s] # "Pending"
      BY <1>3, BecomesServes, LeavesPending
<1>5. RequestsGoOn
      <2>1. CASE FailLaunch(p)
            BY <2>1, SameServes DEF FailLaunch
      <2>2. CASE FailRequest(p)
            <3>1. queue' = Without(queue, s)
                  BY <1>2, <2>2 DEF FailRequest
            <3> QED BY <1>4, <3>1, DequeueServes
      <2> QED
          BY <2>1, <2>2
<1>6. \E d \in Process : /\ proc' = [proc EXCEPT ![p] = d]
                         /\ d.pc \in {"idle", "undo", "next"} /\ d.sess \in {NoSession, s}
      <2>1. CASE Done(p)
            BY <2>1, NothingType DEF Done, Nothing
      <2>2. CASE Goto(p, "undo")
            <3> DEFINE d == [proc[p] EXCEPT !.pc = "undo"]
            <3>1. d \in Process /\ d.pc = "undo" /\ d.sess = s
                  BY <1>1, <1>2 DEF Process, ProcessPC
            <3>2. proc' = [proc EXCEPT ![p] = d]
                  BY <2>2 DEF Goto
            <3> HIDE DEF d
            <3> QED BY <3>1, <3>2
      <2>3. CASE proc' = [proc EXCEPT ![p].pc = "next", ![p].sess = NoSession]
            <3> DEFINE d == [proc[p] EXCEPT !.pc = "next", !.sess = NoSession]
            <3>1. d \in Process /\ d.pc = "next" /\ d.sess = NoSession
                  BY <1>1 DEF Process, ProcessPC
            <3>2. proc' = [proc EXCEPT ![p] = d]
                  BY <2>3 DEF Typed, TypeOK
            <3> HIDE DEF d
            <3> QED BY <3>1, <3>2
      <2> QED
          BY <2>1, <2>2, <2>3 DEF FailLaunch, FailRequest
<1>7. PICK d \in Process : /\ proc' = [proc EXCEPT ![p] = d]
                           /\ d.pc \in {"idle", "undo", "next"} /\ d.sess \in {NoSession, s}
      BY <1>6
<1>8. proc'[p] = d /\ \A q \in Processes \ {p} : proc'[q] = proc[q]
      BY <1>7 DEF Typed, TypeOK
<1>9. state[s] # "NotCreated"
      BY <1>1, <1>2, HasBeenBorn
<1>10. Serves(p)
       BY <1>1, <1>2, <1>4, <1>7, <1>8, <1>9, SlotsAssumption DEF Serves
<1> QED
    BY <1>3, <1>4, <1>5, <1>10, SameServes, StaysServed

LEMMA EnqueueServes ==
  ASSUME Typed, PendingInv, NEW p \in Processes, EnqueueRequest(p)
  PROVE  PendingInv'
<1>1. proc[p] \in Process /\ Busy(proc[p]) /\ proc[p].pc = "enqueue"
      BY DEF Typed, TypeOK, Grounded, EnqueueRequest
<1>2. PICK s \in Sessions : s = proc[p].sess
      BY <1>1 DEF Busy
<1>3. /\ UNCHANGED <<state, pid, attached, run>> /\ Done(p)
      /\ queue' = IF HasRow(s) THEN Append(queue, s) ELSE queue
      BY <1>2 DEF EnqueueRequest, rowVars
<1>4. queue \in Seq(Sessions)
      BY DEF Typed, TypeOK
<1>5. HasRow(s) => Queued(s)'
      <2> SUFFICES ASSUME HasRow(s) PROVE Queued(s)'
          OBVIOUS
      <2>1. Len(queue) + 1 \in DOMAIN queue' /\ queue'[Len(queue) + 1] = s
            BY <1>3, <1>4
      <2> QED
          BY <2>1 DEF Queued
<1>6. RequestsGoOn
      <2> SUFFICES ASSUME NEW u \in Sessions, Queued(u) PROVE Queued(u)'
          BY DEF RequestsGoOn
      <2>1. PICK k \in DOMAIN queue : queue[k] = u
            BY DEF Queued
      <2>2. k \in DOMAIN queue' /\ queue'[k] = u
            BY <1>3, <1>4, <2>1
      <2> QED
          BY <2>2 DEF Queued
<1>7. proc'[p] = Nothing /\ \A q \in Processes \ {p} : proc'[q] = proc[q]
      BY <1>3 DEF Done, Typed, TypeOK
<1>8. Serves(p)
      BY <1>1, <1>2, <1>3, <1>5, <1>7, SlotsAssumption
      DEF Serves, Nothing, HasRow, SessionState, LaunchPC
<1> QED
    BY <1>3, <1>6, <1>8, SameServes, StaysServed

LEMMA AttachServes ==
  ASSUME Typed, PendingInv, NEW p \in Processes, AttachWorktree(p)
  PROVE  PendingInv'
<1>1. proc[p] \in Process /\ Busy(proc[p]) /\ proc[p].pc = "attach"
      BY DEF Typed, TypeOK, Grounded, AttachWorktree
<1>2. PICK s \in Sessions : s = proc[p].sess
      BY <1>1 DEF Busy
<1>3. state[s] # "NotCreated" /\ UNCHANGED <<state, pid, queue, run>>
      BY <1>1, <1>2, HasBeenBorn DEF AttachWorktree
<1>4. CASE HasRow(s)
      <2> DEFINE d == [proc[p] EXCEPT !.pc = "start"]
      <2>1. d \in Process /\ d.pc = "start" /\ d.sess = s
            BY <1>1, <1>2 DEF Process, ProcessPC
      <2>2. proc' = [proc EXCEPT ![p] = d] /\ attached' = attached \cup {s}
            BY <1>2, <1>4 DEF AttachWorktree, Goto
      <2> HIDE DEF d
      <2>3. proc'[p] = d /\ \A q \in Processes \ {p} : proc'[q] = proc[q]
            BY <2>2 DEF Typed, TypeOK
      <2>4. Sure(s)'
            BY <2>1, <2>3 DEF Sure, LaunchPC
      <2>5. AttachedGoOn
            BY <1>3, <2>2, <2>4 DEF AttachedGoOn
      <2>6. Serves(p)
            BY <1>1, <1>2, <1>3, <2>1, <2>3, <2>4 DEF Serves
      <2> QED
          BY <1>3, <2>5, <2>6, SameServes, StaysServed
<1>5. CASE ~HasRow(s)
      <2>1. Done(p) /\ UNCHANGED attached
            BY <1>2, <1>5 DEF AttachWorktree
      <2>2. proc'[p] = Nothing /\ \A q \in Processes \ {p} : proc'[q] = proc[q]
            BY <2>1 DEF Done, Typed, TypeOK
      <2>3. Serves(p)
            BY <1>1, <1>2, <1>3, <1>5, <2>2, SlotsAssumption
            DEF Serves, Nothing, HasRow, SessionState
      <2> QED
          BY <1>3, <2>1, <2>3, SameServes, StaysServed
<1> QED
    BY <1>4, <1>5

LEMMA CleanServes ==
  ASSUME Typed, PendingInv, NEW p \in Processes, CleanOne(p)
  PROVE  PendingInv'
<1>1. proc[p] \in Process /\ Busy(proc[p]) /\ proc[p].pc = "clean"
      BY DEF Typed, TypeOK, Grounded, CleanOne
<1>2. UNCHANGED <<attached, queue>>
      BY DEF CleanOne, rowVars
<1>3. CASE EndPrune(p) /\ UNCHANGED <<rowVars, run>>
      BY <1>1, <1>2, <1>3, EndPruneServes, SameServes, StaysServed DEF LaunchPC, rowVars
<1>4. ASSUME NEW s \in proc[p].todo,
             state[s] = "Running", KillRecorded(s), pid' = [pid EXCEPT ![s] = NoRun],
             Becomes(s, "Stopped"),
             proc' = [proc EXCEPT ![p].pc = IF s \in attached THEN "remove" ELSE "clear",
                                  ![p].sess = s, ![p].todo = @ \ {s}]
      PROVE  PendingInv'
      <2> DEFINE d == [proc[p] EXCEPT !.pc = IF s \in attached THEN "remove" ELSE "clear",
                                      !.sess = s, !.todo = @ \ {s}]
      <2>1. s \in Sessions
            BY <1>1 DEF Process
      <2>2. d \in Process /\ d.pc \in {"remove", "clear"} /\ d.sess = s
            BY <1>1, <2>1 DEF Process, ProcessPC
      <2>3. proc' = [proc EXCEPT ![p] = d]
            BY <1>4 DEF Typed, TypeOK
      <2> HIDE DEF d
      <2>4. Serves(p)
            BY <1>1, <1>4, <2>2, <2>3, TurnsServe DEF LaunchPC
      <2> QED
          BY <1>2, <1>4, <2>1, <2>4, KillServes, NoPidServes, BecomesServes, SameServes, StaysServed
<1>5. ASSUME NEW s \in proc[p].todo, HasRow(s), UNCHANGED <<rowVars, run>>,
             proc' = [proc EXCEPT ![p].pc = "remove", ![p].sess = s, ![p].todo = @ \ {s}]
      PROVE  PendingInv'
      <2> DEFINE d == [proc[p] EXCEPT !.pc = "remove", !.sess = s, !.todo = @ \ {s}]
      <2>1. s \in Sessions
            BY <1>1 DEF Process
      <2>2. d \in Process /\ d.pc = "remove" /\ d.sess = s
            BY <1>1, <2>1 DEF Process, ProcessPC
      <2>3. proc' = [proc EXCEPT ![p] = d]
            BY <1>5 DEF Typed, TypeOK
      <2> HIDE DEF d
      <2>4. Serves(p)
            BY <1>1, <1>5, <2>2, <2>3, TurnsServe DEF LaunchPC, HasRow, SessionState
      <2> QED
          BY <1>2, <1>5, <2>4, SameServes, StaysServed DEF rowVars
<1>6. ASSUME NEW s \in proc[p].todo, UNCHANGED <<rowVars, run>>,
             proc' = [proc EXCEPT ![p].todo = @ \ {s}]
      PROVE  PendingInv'
      <2> DEFINE d == [proc[p] EXCEPT !.todo = @ \ {s}]
      <2>1. d \in Process /\ d.pc = "clean" /\ d.sess = proc[p].sess
            BY <1>1 DEF Process
      <2>2. proc' = [proc EXCEPT ![p] = d]
            BY <1>6 DEF Typed, TypeOK
      <2> HIDE DEF d
      <2>3. Serves(p)
            BY <1>1, <2>1, <2>2, HasBeenBorn, TurnsServe DEF LaunchPC
      <2> QED
          BY <1>2, <1>6, <2>3, SameServes, StaysServed DEF rowVars
<1> QED
    BY <1>3, <1>4, <1>5, <1>6 DEF CleanOne

(* Runs, stops and sweeps.                                                 *)
LEMMA RunMovesServe ==
  ASSUME Typed, NEW r \in Runs, NEW pc \in {"spawning", "working", "orphan", "over"},
         run' = [run EXCEPT ![r].pc = pc],
         run[r].pc \in {"working", "orphan", "over"} => pc \in {"working", "orphan", "over"},
         run[r].pc \in {"starting", "spawning"} /\ state'[run[r].sess] = "Pending" => pc = "spawning"
  PROVE  LaunchesGoOn /\ run'[r].pc = pc
<1>1. run \in [Runs -> Run]
      BY DEF Typed, TypeOK
<1>2. run'[r].pc = pc /\ run'[r].sess = run[r].sess /\ \A q \in Runs \ {r} : run'[q] = run[q]
      BY <1>1 DEF Run
<1> QED
    BY <1>2 DEF LaunchesGoOn

LEMMA RunsServe ==
  ASSUME Typed, PendingInv,
         \/ \E r \in Runs : RunChecks(r) \/ RunStarts(r) \/ RunEnds(r) \/ OrphanEnds(r)
         \/ \E s \in Sessions : Stop(s) \/ GoesStale(s)
  PROVE  PendingInv'
<1>1. UNCHANGED <<attached, queue, proc>>
      BY DEF RunChecks, RunStarts, RunEnds, OrphanEnds, Stop, GoesStale, rowVars
<1>2. ASSUME NEW r \in Runs, RunChecks(r) PROVE PendingInv'
      <2>1. PICK pc : pc = IF state[run[r].sess] = "Pending" THEN "spawning" ELSE "over"
            OBVIOUS
      <2>2. LaunchesGoOn
            BY <1>2, <2>1, RunMovesServe DEF RunChecks, rowVars
      <2> QED
          BY <1>1, <1>2, <2>2, SameServes, StaysServed DEF RunChecks, rowVars
<1>3. ASSUME NEW r \in Runs, RunStarts(r) PROVE PendingInv'
      <2>1. PICK s \in Sessions : s = run[r].sess
            BY <1>3 DEF RunStarts, Typed, Grounded
      <2>2. /\ run[r].pc = "spawning"
            /\ \E to \in {"Running", "Failed"}, of \in {NoRun, r}, pc \in {"working", "orphan", "over"} :
                 /\ Becomes(s, to) /\ pid' = [pid EXCEPT ![s] = of]
                 /\ run' = [run EXCEPT ![r].pc = pc]
                 /\ of = r => state'[s] = "Running"
            <3>1. HasRow(s) /\ CanTransition(state[s], "Running") /\ Becomes(s, "Running") =>
                    state'[s] = "Running"
                  BY DEF Becomes, Typed, TypeOK
            <3>2. CASE Becomes(s, "Failed") /\ pid' = [pid EXCEPT ![s] = NoRun]
                  <4>1. run' = [run EXCEPT ![r].pc = "orphan"] \/ run' = [run EXCEPT ![r].pc = "over"]
                        BY <1>3, <2>1, <3>2, SlotsAssumption DEF RunStarts, Becomes, CanTransition, Typed, TypeOK
                  <4> QED
                      BY <1>3, <3>2, <4>1, SlotsAssumption DEF RunStarts
            <3>3. CASE /\ HasRow(s) /\ CanTransition(state[s], "Running")
                       /\ Becomes(s, "Running") /\ pid' = [pid EXCEPT ![s] = r]
                       /\ run' = [run EXCEPT ![r].pc = "working"]
                  BY <1>3, <3>1, <3>3 DEF RunStarts
            <3> QED
                BY <1>3, <2>1, <3>2, <3>3 DEF RunStarts
      <2>3. PICK to \in {"Running", "Failed"}, of \in {NoRun, r}, pc \in {"working", "orphan", "over"} :
              /\ Becomes(s, to) /\ pid' = [pid EXCEPT ![s] = of]
              /\ run' = [run EXCEPT ![r].pc = pc]
              /\ of = r => state'[s] = "Running"
            BY <2>2
      <2>4. state'[s] # "Pending" /\ RowsGoOn
            BY <2>3, LeavesPending, BecomesServes
      <2>5. LaunchesGoOn /\ run'[r].pc = pc
            BY <2>1, <2>2, <2>3, <2>4, RunMovesServe
      <2>6. PidsGoOn
            BY <2>3, <2>5 DEF PidsGoOn, Typed, TypeOK
      <2> QED
          BY <1>1, <2>4, <2>5, <2>6, SameServes, StaysServed
<1>4. ASSUME NEW r \in Runs, RunEnds(r) PROVE PendingInv'
      <2>1. PICK s \in Sessions : s = run[r].sess
            BY <1>4 DEF RunEnds, Typed, Grounded
      <2>2. RowsGoOn
            BY <1>4, <2>1 DEF RunEnds, Becomes, HasRow, SessionState, RowsGoOn, Typed, TypeOK
      <2>3. LaunchesGoOn /\ PidsGoOn
            BY <1>4, <2>1, RunMovesServe, NoPidServes DEF RunEnds
      <2> QED
          BY <1>1, <2>2, <2>3, SameServes, StaysServed
<1>5. ASSUME NEW r \in Runs, OrphanEnds(r) PROVE PendingInv'
      <2>1. LaunchesGoOn
            BY <1>5, RunMovesServe DEF OrphanEnds
      <2> QED
          BY <1>1, <1>5, <2>1, SameServes, StaysServed DEF OrphanEnds, rowVars
<1>6. ASSUME NEW s \in Sessions, Stop(s) PROVE PendingInv'
      BY <1>1, <1>6, KillServes, NoPidServes, BecomesServes, SameServes, StaysServed DEF Stop
<1>7. ASSUME NEW s \in Sessions, GoesStale(s) PROVE PendingInv'
      BY <1>1, <1>7, BecomesServes, SameServes, StaysServed DEF GoesStale
<1> QED
    BY <1>2, <1>3, <1>4, <1>5, <1>6, <1>7

(* A process that takes up one session, or drops one it was creating,      *)
(* disturbs no other.                                                      *)
LEMMA OthersServed ==
  ASSUME Typed, PendingInv, NEW p \in Processes, NEW d \in Process, NEW s \in Sessions,
         proc' = [proc EXCEPT ![p] = d], d.sess \in {s, NoSession},
         proc[p].pc \notin LaunchPC \cup {"enqueue"},
         UNCHANGED <<queue, run>>,
         \A u \in Sessions \ {s} :
           /\ state'[u] = state[u] /\ pid'[u] = pid[u]
           /\ u \in attached' => u \in attached
  PROVE  \A u \in Sessions \ {s} : Served(u)' /\ Unborn(u)' /\ PidStarted(u)'
<1>1. proc'[p] = d /\ \A q \in Processes \ {p} : proc'[q] = proc[q]
      BY DEF Typed, TypeOK
<1> TAKE u \in Sessions \ {s}
<1>2. Served(u) /\ Unborn(u) /\ PidStarted(u) /\ u # NoSession
      BY SlotsAssumption DEF PendingInv
<1>3. Sure(u) => Sure(u)'
      BY <1>1 DEF Sure
<1>4. Waits(u) => Waits(u)'
      BY <1>1, <1>2 DEF Waits, Queued
<1> QED
    BY <1>1, <1>2, <1>3, <1>4 DEF Served, Unborn, PidStarted

LEMMA BeginQueueServes ==
  ASSUME Typed, PendingInv, NEW p \in Processes, NEW s \in Sessions, BeginQueue(p, s)
  PROVE  PendingInv'
<1> DEFINE d == [proc[p] EXCEPT !.sess = s, !.pc = IF FreeSlots > 0 THEN "create" ELSE "insert"]
<1>1. d \in Process /\ d.sess = s /\ d.pc \in {"create", "insert"}
      BY DEF Process, ProcessPC, Typed, TypeOK
<1>2. proc' = [proc EXCEPT ![p] = d]
      BY DEF BeginQueue, Typed, TypeOK
<1> HIDE DEF d
<1>3. /\ proc[p].pc = "idle" /\ state[s] = "NotCreated"
      /\ \A q \in Processes : proc[q].sess # s
      /\ UNCHANGED <<state, pid, attached, queue, run>>
      BY DEF BeginQueue, May, rowVars
<1>4. proc'[p] = d /\ \A q \in Processes \ {p} : proc'[q] = proc[q]
      BY <1>2 DEF Typed, TypeOK
<1>5. \A u \in Sessions \ {s} : Served(u)' /\ Unborn(u)' /\ PidStarted(u)'
      BY <1>1, <1>2, <1>3, OthersServed DEF LaunchPC
<1>6. Served(s)' /\ Unborn(s)' /\ PidStarted(s)'
      BY <1>1, <1>3, <1>4 DEF PendingInv, Served, Unborn, PidStarted
<1>7. ASSUME NEW q \in Processes PROVE Creating(q)'
      BY <1>1, <1>3, <1>4 DEF PendingInv, Creating
<1> QED
    BY <1>5, <1>6, <1>7 DEF PendingInv

LEMMA CreateWorktreeServes ==
  ASSUME Typed, PendingInv, NEW p \in Processes, CreateWorktree(p)
  PROVE  PendingInv'
<1>1. proc[p] \in Process /\ Busy(proc[p]) /\ proc[p].pc = "create"
      BY DEF Typed, TypeOK, Grounded, CreateWorktree
<1>2. PICK s \in Sessions : s = proc[p].sess
      BY <1>1 DEF Busy
<1>3. \E d \in Process : /\ proc' = [proc EXCEPT ![p] = d]
                         /\ (d.pc = "insert" /\ d.sess = s) \/ d = Nothing
      <2>1. CASE Done(p)
            BY <2>1, NothingType DEF Done
      <2>2. CASE proc' = [proc EXCEPT ![p].cwd = "worktree", ![p].pc = "insert"]
            <3> DEFINE d == [proc[p] EXCEPT !.cwd = "worktree", !.pc = "insert"]
            <3>1. d \in Process /\ d.pc = "insert" /\ d.sess = s
                  BY <1>1, <1>2 DEF Process, ProcessPC, Place
            <3>2. proc' = [proc EXCEPT ![p] = d]
                  BY <2>2 DEF Typed, TypeOK
            <3> HIDE DEF d
            <3> QED BY <3>1, <3>2
      <2> QED
          BY <2>1, <2>2 DEF CreateWorktree
<1>4. PICK d \in Process : /\ proc' = [proc EXCEPT ![p] = d]
                           /\ (d.pc = "insert" /\ d.sess = s) \/ d = Nothing
      BY <1>3
<1>5. d.sess \in {s, NoSession} /\ d.pc \in {"insert", "idle"} /\ (d.pc = "insert" => d.sess = s)
      BY <1>4 DEF Nothing
<1>6. proc'[p] = d /\ \A q \in Processes \ {p} : proc'[q] = proc[q]
      BY <1>4 DEF Typed, TypeOK
<1>7. UNCHANGED <<state, pid, attached, queue, run>>
      BY DEF CreateWorktree, rowVars
<1>8. state[s] = "NotCreated" /\ \A q \in Processes : proc[q].sess = s => q = p
      BY <1>1, <1>2 DEF PendingInv, Creating
<1>9. \A u \in Sessions \ {s} : Served(u)' /\ Unborn(u)' /\ PidStarted(u)'
      BY <1>1, <1>4, <1>5, <1>7, OthersServed DEF LaunchPC
<1>10. Served(s)' /\ PidStarted(s)'
       BY <1>7, <1>8 DEF PendingInv, Served, PidStarted
<1>11. Unborn(s)'
       <2>1. s \notin attached'
             BY <1>7, <1>8 DEF PendingInv, Unborn
       <2>2. proc'[p].sess = s => proc'[p].pc = "insert"
             BY <1>4, <1>6, SlotsAssumption DEF Nothing
       <2>3. \A q \in Processes \ {p} : proc'[q].sess # s
             BY <1>6, <1>8
       <2> QED
           BY <2>1, <2>2, <2>3 DEF Unborn
<1>12. ASSUME NEW q \in Processes PROVE Creating(q)'
       <2>1. CASE q = p
             BY <1>5, <1>6, <1>7, <1>8, <2>1 DEF Creating
       <2>2. CASE q # p
             <3>1. proc[q].pc \in {"create", "insert"} => proc[q].sess \in Sessions
                   BY DEF Typed, Grounded, Busy
             <3> QED
                 BY <1>5, <1>6, <1>7, <1>8, <2>2, <3>1, SlotsAssumption DEF PendingInv, Creating
       <2> QED
           BY <2>1, <2>2
<1> QED
    BY <1>9, <1>10, <1>11, <1>12 DEF PendingInv

LEMMA InsertSessionServes ==
  ASSUME Typed, PendingInv, NEW p \in Processes, InsertSession(p)
  PROVE  PendingInv'
<1>1. proc[p] \in Process /\ Busy(proc[p]) /\ proc[p].pc = "insert"
      BY DEF Typed, TypeOK, Grounded, InsertSession
<1>2. PICK s \in Sessions : s = proc[p].sess
      BY <1>1 DEF Busy
<1> DEFINE made == proc[p].cwd = "worktree"
           d == [proc[p] EXCEPT !.pc = IF made THEN "launch" ELSE "enqueue"]
<1>3. d \in Process /\ d.sess = s /\ d.pc = IF made THEN "launch" ELSE "enqueue"
      BY <1>1, <1>2 DEF Process, ProcessPC
<1>4. proc' = [proc EXCEPT ![p] = d]
      BY <1>2 DEF InsertSession, Goto
<1> HIDE DEF d
<1>5. proc'[p] = d /\ \A q \in Processes \ {p} : proc'[q] = proc[q]
      BY <1>4 DEF Typed, TypeOK
<1>6. /\ state' = [state EXCEPT ![s] = "Pending"] /\ UNCHANGED <<pid, queue, run>>
      /\ attached' = IF made THEN attached \cup {s} ELSE attached
      BY <1>2 DEF InsertSession
<1>7. /\ state[s] = "NotCreated" /\ \A q \in Processes : proc[q].sess = s => q = p
      /\ s \notin attached
      BY <1>1, <1>2 DEF PendingInv, Creating, Unborn
<1>8. state'[s] = "Pending" /\ \A u \in Sessions \ {s} : state'[u] = state[u]
      BY <1>6 DEF Typed, TypeOK
<1>9. \A u \in Sessions \ {s} : Served(u)' /\ Unborn(u)' /\ PidStarted(u)'
      BY <1>1, <1>3, <1>4, <1>6, <1>8, OthersServed DEF LaunchPC
<1>10. PidStarted(s)' /\ Unborn(s)'
       BY <1>6, <1>7, <1>8 DEF PendingInv, PidStarted, Unborn
<1>11. Served(s)'
       <2>1. CASE made
             BY <1>3, <1>5, <2>1 DEF Served, Sure, LaunchPC
       <2>2. CASE ~made
             BY <1>3, <1>5, <1>6, <1>7, <2>2 DEF Served, Waits
       <2> QED
           BY <2>1, <2>2
<1>12. ASSUME NEW q \in Processes PROVE Creating(q)'
       <2>1. proc[q].pc \in {"create", "insert"} => proc[q].sess \in Sessions
             BY DEF Typed, Grounded, Busy
       <2> QED
           BY <1>2, <1>3, <1>5, <1>7, <1>8, <2>1 DEF PendingInv, Creating
<1> QED
    BY <1>9, <1>10, <1>11, <1>12 DEF PendingInv

LEMMA BeginResumeServes ==
  ASSUME Typed, PendingInv, NEW p \in Processes, NEW s \in Sessions, BeginResume(p, s)
  PROVE  PendingInv'
<1> DEFINE d == [proc[p] EXCEPT !.pc = "relaunch", !.sess = s, !.cwd = home[s]]
<1>1. d \in Process /\ d.sess = s /\ d.pc = "relaunch"
      BY DEF Process, ProcessPC, Typed, TypeOK
<1>2. proc' = [proc EXCEPT ![p] = d]
      BY DEF BeginResume, Typed, TypeOK
<1> HIDE DEF d
<1>3. /\ proc[p].pc = "idle" /\ state[s] # "NotCreated"
      /\ state' = [state EXCEPT ![s] = "Pending"] /\ pid' = [pid EXCEPT ![s] = NoRun]
      /\ UNCHANGED <<attached, queue, run>>
      BY DEF BeginResume, May, HasRow, SessionState
<1>4. proc'[p] = d /\ \A q \in Processes \ {p} : proc'[q] = proc[q]
      BY <1>2 DEF Typed, TypeOK
<1>5. /\ state'[s] = "Pending" /\ pid'[s] = NoRun
      /\ \A u \in Sessions \ {s} : state'[u] = state[u] /\ pid'[u] = pid[u]
      BY <1>3 DEF Typed, TypeOK
<1>6. \A u \in Sessions \ {s} : Served(u)' /\ Unborn(u)' /\ PidStarted(u)'
      BY <1>1, <1>2, <1>3, <1>5, OthersServed DEF LaunchPC
<1>7. Served(s)' /\ Unborn(s)' /\ PidStarted(s)'
      BY <1>1, <1>4, <1>5 DEF Served, Sure, LaunchPC, Unborn, PidStarted
<1>8. ASSUME NEW q \in Processes PROVE Creating(q)'
      <2>1. proc[q].pc \in {"create", "insert"} => proc[q].sess \in Sessions
            BY DEF Typed, Grounded, Busy
      <2> QED
          BY <1>1, <1>3, <1>4, <1>5, <2>1 DEF PendingInv, Creating
<1> QED
    BY <1>6, <1>7, <1>8 DEF PendingInv

LEMMA PendingStep ==
  ASSUME ~MayCrash, ~MayFail, Typed, PendingInv, [Next]_vars
  PROVE  PendingInv'
<1>1. CASE UNCHANGED vars
      BY <1>1, SameServes, StaysServed DEF vars
<1>2. ASSUME NEW p \in Processes, NEW s \in Sessions,
             BeginQueue(p, s) \/ BeginCleanup(p, s) \/ BeginResume(p, s) \/ BeginDelete(p, s)
      PROVE  PendingInv'
      BY <1>2, BeginQueueServes, BeginResumeServes, QuietServes
<1>3. ASSUME NEW p \in Processes, BeginActivate(p) \/ BeginPrune(p) \/ ProcessStep(p)
      PROVE  PendingInv'
      BY <1>3, QuietServes, CreateWorktreeServes, InsertSessionServes, EnqueueServes, LaunchSteps,
         FailServes, AttachServes, CleanServes
      DEF ProcessStep
<1>4. ASSUME NEW p \in Processes PROVE ~ProcessCrash(p)
      BY DEF ProcessCrash
<1> QED
    BY <1>1, <1>2, <1>3, <1>4, RunsServe DEF Next, Request

(* However many processes run activation passes, and whatever else they do *)
(* meanwhile, no request is lost (PendingHasLauncher): a Pending session   *)
(* waits in the queue or is about to be launched                           *)
(* (activate_pending_worktree_sessions_with, manager.rs).                  *)
THEOREM RequestsAreKept == Spec => []PendingHasLauncher
<1>1. CASE MayCrash \/ MayFail
      <2>1. PendingHasLauncher
            BY <1>1 DEF PendingHasLauncher
      <2> QED
          BY <2>1, PTL
<1>2. CASE ~(MayCrash \/ MayFail)
      <2>1. Init => PendingInv
            BY PendingInit
      <2>2. Typed /\ PendingInv /\ [Next]_vars => PendingInv'
            BY <1>2, PendingStep
      <2>3. PendingInv => PendingHasLauncher
            BY DEF PendingInv, Served, Sure, Waits, PendingHasLauncher, LaunchUnderWay, LaunchPC
      <2> QED
          BY <2>1, <2>2, <2>3, TypedInit, TypedStep, PTL DEF Spec
<1> QED
    BY <1>1, <1>2

=============================================================================

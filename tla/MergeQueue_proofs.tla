-------------------------- MODULE MergeQueue_proofs -------------------------
(***************************************************************************)
(* Proofs about MergeQueue, for any number of sessions and processors, any *)
(* conflicts between their branches and any deaths.                        *)
(***************************************************************************)
EXTENDS MergeQueue, TLAPS

-----------------------------------------------------------------------------
(* Types.                                                                  *)

LEMMA RestsType == \A pc \in {"idle", "done"} : Rests(pc) \in Processor
BY DEF Rests, Processor

LEMMA ReportType == Ready \subseteq Sessions /\ Rebasable \subseteq Sessions
BY DEF Ready, Rebasable

(* The changes a processor makes to its own record keep its type.          *)
LEMMA Changes ==
  ASSUME NEW d \in Processor
  PROVE  /\ \A R, B \in SUBSET Sessions :
              [d EXCEPT !.pc = "next", !.ready = R, !.blocked = B, !.merged = FALSE]
                \in Processor
         /\ \A s \in Sessions : [d EXCEPT !.ready = @ \ {s}] \in Processor
         /\ \A s \in Sessions :
              [[d EXCEPT !.ready = @ \ {s}] EXCEPT !.pc = "merge", !.serving = s] \in Processor
         /\ \A m \in BOOLEAN :
              [d EXCEPT !.pc = "next", !.serving = NoSession, !.merged = @ \/ m,
                        !.wrote = FALSE, !.moved = FALSE] \in Processor
         /\ [d EXCEPT !.wrote = TRUE] \in Processor
         /\ [d EXCEPT !.moved = TRUE] \in Processor
         /\ \A pc \in {"remove", "clear", "build"} : [d EXCEPT !.pc = pc] \in Processor
         /\ \A pc \in {"next", "build"} :
              [d EXCEPT !.pc = pc, !.serving = NoSession] \in Processor
<1> DEFINE Tries == [Sessions -> Heads \cup {NoHead}]
<1>1. Processor =
        [pc : {"idle", "build", "next", "merge", "remove", "clear", "rebase", "done"},
         ready : SUBSET Sessions, blocked : SUBSET Sessions,
         serving : Sessions \cup {NoSession}, merged : BOOLEAN, tried : Tries,
         queue : BOOLEAN, keep : BOOLEAN, wrote : BOOLEAN, moved : BOOLEAN]
      BY DEF Processor
<1> HIDE DEF Tries
<1> QED
    BY <1>1

LEMMA ProcessorType == TypeOK => \A p \in Processors : processor[p] \in Processor
BY DEF TypeOK

(* A user's command merges one session or all that are finished.           *)
LEMMA BeginsWith ==
  ASSUME NEW p \in Processors, Begins(p)
  PROVE  \/ BeginQueue(p)
         \/ \E S \in SUBSET Sessions, keep \in BOOLEAN : BeginMerges(p, S, keep)
<1>1. CASE BeginQueue(p)
      BY <1>1
<1>2. ASSUME NEW s \in Sessions, NEW keep \in BOOLEAN, BeginOne(p, s, keep)
      PROVE  \E S \in SUBSET Sessions : BeginMerges(p, S, keep)
      <2>1. {s} \in SUBSET Sessions /\ BeginMerges(p, {s}, keep)
            BY <1>2 DEF BeginOne
      <2> QED
          BY <2>1
<1>3. CASE BeginAll(p)
      BY <1>3 DEF BeginAll
<1> QED
    BY <1>1, <1>2, <1>3 DEF Begins

LEMMA MovesType ==
  ASSUME TypeOK, NEW p \in Processors, NEW d \in Processor, Moves(p, d)
  PROVE  processor' \in [Processors -> Processor]
BY DEF Moves, TypeOK

LEMMA OverType ==
  ASSUME TypeOK, NEW p \in Processors, Over(p)
  PROVE  processor' \in [Processors -> Processor]
BY MovesType, RestsType DEF Over

LEMMA MarkedType ==
  ASSUME TypeOK, NEW p \in Processors, NEW what
  PROVE  Marked(p, what) \in Processor
BY ProcessorType, Changes DEF Marked

LEMMA OvertakesType ==
  ASSUME TypeOK, NEW S, NEW what, Overtakes(S, what)
  PROVE  processor' \in [Processors -> Processor]
BY ProcessorType, MarkedType DEF Overtakes

LEMMA EndsType ==
  ASSUME TypeOK, NEW p \in Processors, NEW m \in BOOLEAN
  PROVE  Ended(p, m) \in Processor
BY ProcessorType, Changes DEF Ended

(* A processor in the middle of a merge or a rebase serves a session.      *)
Serving ==
  \A p \in Processors :
    processor[p].pc \in {"merge", "remove", "clear", "rebase"} =>
      processor[p].serving \in Sessions

LEMMA TypeInit == Init => TypeOK /\ Serving
<1> SUFFICES ASSUME Init PROVE TypeOK /\ Serving
    OBVIOUS
<1>1. TypeOK
      BY RestsType DEF Init, TypeOK, Heads
<1>2. Serving
      BY DEF Init, Serving, Rests
<1> QED
    BY <1>1, <1>2

LEMMA TypeStep == TypeOK /\ Serving /\ [Next]_vars => TypeOK'
<1> SUFFICES ASSUME TypeOK, Serving, [Next]_vars PROVE TypeOK'
    OBVIOUS
<1>1. CASE UNCHANGED vars
      BY <1>1 DEF TypeOK, vars
<1>2. ASSUME NEW s \in Sessions, Write(s) PROVE TypeOK'
      <2>1. Own(s) \subseteq Units
            BY DEF Own, Units
      <2>2. processor' \in [Processors -> Processor]
            BY <1>2, OvertakesType DEF Write
      <2>3. tree' \in [Sessions -> SUBSET Units]
            BY <1>2, <2>1 DEF TypeOK, Write
      <2> QED
          BY <1>2, <2>2, <2>3 DEF TypeOK, Write
<1>3. ASSUME NEW s \in Sessions, Commit(s) PROVE TypeOK'
      <2>1. processor' \in [Processors -> Processor]
            BY <1>3, OvertakesType DEF Commit
      <2> QED
          BY <1>3, <2>1 DEF TypeOK, Commit
<1>4. ASSUME NEW s \in Sessions, Finish(s) \/ Resume(s) PROVE TypeOK'
      BY <1>4 DEF TypeOK, Finish, Resume
<1>5. ASSUME NEW s \in Sessions, Prune(s) PROVE TypeOK'
      BY <1>5 DEF TypeOK, Prune
<1>6. CASE UserCommits
      <2>1. Own(User) \subseteq Units
            BY DEF Own, Units
      <2>2. processor' \in [Processors -> Processor]
            BY <1>6, OvertakesType DEF UserCommits
      <2>3. base' \in Heads
            BY <1>6, <2>1 DEF UserCommits, TypeOK, Heads
      <2> QED
          BY <1>6, <2>2, <2>3 DEF TypeOK, UserCommits
<1>7. CASE UserEndsMerge
      BY <1>7 DEF TypeOK, UserEndsMerge
<1>8. ASSUME processor' \in [Processors -> Processor], UNCHANGED <<session, work>>
      PROVE  TypeOK'
      BY <1>8 DEF TypeOK, work
<1>9. ASSUME NEW p \in Processors, BeginQueue(p) PROVE TypeOK'
      <2>1. [Rests("idle") EXCEPT !.pc = "build", !.queue = TRUE] \in Processor
            BY DEF Rests, Processor
      <2> QED
          BY <1>8, <1>9, <2>1, MovesType DEF BeginQueue
<1>22. ASSUME NEW p \in Processors, NEW S \in SUBSET Sessions, NEW keep \in BOOLEAN,
              BeginMerges(p, S, keep)
       PROVE  TypeOK'
      <2>1. [Rests("idle") EXCEPT !.pc = "next", !.ready = S, !.keep = keep] \in Processor
            BY DEF Rests, Processor
      <2> QED
          BY <1>8, <1>22, <2>1, MovesType DEF BeginMerges
<1>10. ASSUME NEW p \in Processors, Build(p) PROVE TypeOK'
      <2>1. [processor[p] EXCEPT !.pc = "next", !.ready = Ready, !.blocked = Rebasable,
                                 !.merged = FALSE] \in Processor
            BY ReportType, ProcessorType, Changes
      <2> QED
          BY <1>8, <1>10, <2>1, MovesType, OverType DEF Build
<1>11. ASSUME NEW p \in Processors, NEW s \in Sessions, Check(p, s) PROVE TypeOK'
      <2>1. /\ [processor[p] EXCEPT !.ready = @ \ {s}] \in Processor
            /\ [[processor[p] EXCEPT !.ready = @ \ {s}] EXCEPT !.pc = "merge", !.serving = s]
                 \in Processor
            BY ProcessorType, Changes
      <2> QED
          BY <1>8, <1>11, <2>1, MovesType DEF Check
<1>12. ASSUME NEW p \in Processors, GitMerge(p) PROVE TypeOK'
      <2> DEFINE s == processor[p].serving
      <2>1. s \in Sessions
            BY <1>12 DEF GitMerge, At, Serving
      <2>2. Ended(p, TRUE) \in Processor /\ [processor[p] EXCEPT !.pc = "remove"] \in Processor
            BY ProcessorType, Changes, EndsType
      <2>3. \A q \in Processors : Marked(q, "moved") \in Processor
            BY MarkedType
      <2>4. processor' \in [Processors -> Processor]
            BY <1>12, <2>2, <2>3, ProcessorType DEF GitMerge
      <2>5. base' \in Heads
            BY <1>12, <2>1 DEF GitMerge, TypeOK, Heads
      <2> QED
          BY <1>12, <2>4, <2>5 DEF TypeOK, GitMerge
<1>13. ASSUME NEW p \in Processors, GitMergeFails(p) PROVE TypeOK'
      <2>1. processor' \in [Processors -> Processor]
            BY <1>13, EndsType, MovesType DEF GitMergeFails, Ends
      <2> QED
          BY <1>13, <2>1 DEF TypeOK, GitMergeFails
<1>14. ASSUME NEW p \in Processors, Remove(p) PROVE TypeOK'
      <2>1. [processor[p] EXCEPT !.pc = "clear"] \in Processor
            BY ProcessorType, Changes
      <2>2. processor' \in [Processors -> Processor]
            BY <1>14, <2>1, MovesType DEF Remove
      <2> QED
          BY <1>14, <2>2 DEF TypeOK, Remove
<1>15. ASSUME NEW p \in Processors, Clear(p) PROVE TypeOK'
      <2>1. processor' \in [Processors -> Processor]
            BY <1>15, EndsType, MovesType DEF Clear, Ends
      <2>2. session' \in [Sessions -> [state : {"active", "finished"}, worktree : BOOLEAN]]
            BY <1>15 DEF Clear, TypeOK
      <2> QED
          BY <1>15, <2>1, <2>2 DEF TypeOK, Clear, work
<1>16. ASSUME NEW p \in Processors, Again(p) PROVE TypeOK'
      <2>1. [processor[p] EXCEPT !.pc = "build"] \in Processor
            BY ProcessorType, Changes
      <2> QED
          BY <1>8, <1>16, <2>1, MovesType DEF Again
<1>17. ASSUME NEW p \in Processors, NEW s \in Sessions, TryRebase(p, s) PROVE TypeOK'
      <2> DEFINE rest == [processor[p] EXCEPT !.blocked = @ \ {s}]
                 tried == [rest EXCEPT !.tried[s] = base]
                 to == [tried EXCEPT !.pc = "rebase", !.serving = s]
      <2>1. rest \in Processor
            BY ProcessorType DEF Processor
      <2>2. tried \in Processor
            BY <2>1 DEF Processor, TypeOK
      <2>3. to \in Processor
            BY <2>2 DEF Processor
      <2>4. Over(p) \/ Moves(p, rest) \/ Moves(p, tried) \/ Moves(p, to)
            BY <1>17 DEF TryRebase
      <2>5. UNCHANGED <<session, work>>
            BY <1>17 DEF TryRebase
      <2> HIDE DEF rest, tried, to
      <2> QED
          BY <1>8, <2>1, <2>2, <2>3, <2>4, <2>5, MovesType, OverType
<1>18. ASSUME NEW p \in Processors, Rebase(p) PROVE TypeOK'
      <2>1. processor[p].serving \in Sessions
            BY <1>18 DEF Rebase, At, Serving
      <2>2. [processor[p] EXCEPT !.pc = "build", !.serving = NoSession] \in Processor
            BY ProcessorType, Changes
      <2>3. processor' \in [Processors -> Processor]
            BY <1>18, <2>2, MarkedType, ProcessorType DEF Rebase
      <2> QED
          BY <1>18, <2>1, <2>3 DEF TypeOK, Rebase
<1>19. ASSUME NEW p \in Processors, RebaseFails(p) PROVE TypeOK'
      <2>1. [processor[p] EXCEPT !.pc = "next", !.serving = NoSession] \in Processor
            BY ProcessorType, Changes
      <2> QED
          BY <1>8, <1>19, <2>1, MovesType DEF RebaseFails
<1>20. ASSUME NEW p \in Processors, Return(p) PROVE TypeOK'
      BY <1>8, <1>20, OverType DEF Return
<1>21. ASSUME NEW p \in Processors, Dies(p) PROVE TypeOK'
      <2>1. processor' \in [Processors -> Processor]
            BY <1>21, OverType DEF Dies
      <2>2. orphaned' \subseteq Sessions
            BY <1>21 DEF Dies, At, Serving, TypeOK
      <2> QED
          BY <1>21, <2>1, <2>2 DEF TypeOK, Dies
<1> QED
    BY <1>1, <1>2, <1>3, <1>4, <1>5, <1>6, <1>7, <1>9, <1>10, <1>11, <1>12, <1>13,
       <1>14, <1>15, <1>16, <1>17, <1>18, <1>19, <1>20, <1>21, <1>22, BeginsWith
    DEF Next, GoesOn, Others

-----------------------------------------------------------------------------
(* What a merge that has made its checks can rely on: the worktree is      *)
(* clean unless an agent wrote, the branch merges unless something moved,  *)
(* and what is about to be removed is in the base.                         *)

MergeAt(p) ==
  LET s == processor[p].serving
  IN  /\ At(p, "merge") => /\ processor[p].wrote \/ tree[s] = {}
                           /\ processor[p].moved \/ ~ConflictsWithBase(s)
      /\ At(p, "remove") => processor[p].wrote \/ tree[s] \cup branch[s] \subseteq base

MergeInv == Serving /\ \A p \in Processors : MergeAt(p)

(* A step leaves the merge of q in place and marks what it overtakes.      *)
Undisturbed(q) ==
  LET s == processor[q].serving
  IN  /\ processor'[q].pc = processor[q].pc /\ processor'[q].serving = s
      /\ processor[q].wrote => processor'[q].wrote
      /\ processor[q].moved => processor'[q].moved
      /\ Checked(q) =>
           /\ base \subseteq base'
           /\ \/ processor'[q].wrote
              \/ tree'[s] \subseteq tree[s] /\ branch'[s] \subseteq branch[s] \cup tree[s]
           /\ \/ processor'[q].moved
              \/ branch'[s] = {}
              \/ branch'[s] = branch[s] /\ base' = base /\ seen'[s] = seen[s]

LEMMA Stays ==
  ASSUME Serving, NEW q \in Processors, MergeAt(q), Undisturbed(q)
  PROVE  /\ MergeAt(q)'
         /\ processor'[q].pc \in {"merge", "remove", "clear", "rebase"} =>
              processor'[q].serving \in Sessions
<1> DEFINE s == processor[q].serving
<1>1. CASE ~Checked(q)
      BY <1>1 DEF MergeAt, Undisturbed, Checked, At, Serving
<1>2. CASE At(q, "merge")
      <2>1. processor'[q].wrote \/ tree'[s] = {}
            BY <1>2 DEF MergeAt, Undisturbed, Checked, At
      <2>2. processor'[q].moved \/ ~ConflictsWithBase(s)'
            BY <1>2 DEF MergeAt, Undisturbed, Checked, At, ConflictsWithBase, Clashing
      <2> QED
          BY <1>2, <2>1, <2>2 DEF MergeAt, Undisturbed, At, Serving
<1>3. CASE At(q, "remove")
      <2>1. processor'[q].wrote \/ tree'[s] \cup branch'[s] \subseteq base'
            BY <1>3 DEF MergeAt, Undisturbed, Checked, At
      <2> QED
          BY <1>3, <2>1 DEF MergeAt, Undisturbed, At, Serving
<1> QED
    BY <1>1, <1>2, <1>3 DEF Checked, At

(* A step in which only p moves, and that changes only the row.            *)
LEMMA OthersStay ==
  ASSUME TypeOK, NEW p \in Processors, NEW d, Moves(p, d), UNCHANGED <<tree, branch, seen, base>>
  PROVE  \A q \in Processors : q # p => Undisturbed(q)
BY DEF TypeOK, Moves, Undisturbed

LEMMA MovesOnly ==
  ASSUME TypeOK, NEW p \in Processors, NEW d, Moves(p, d)
  PROVE  processor'[p] = d
BY DEF TypeOK, Moves

(* A processor that is not in the middle of a merge.                       *)
LEMMA Elsewhere ==
  ASSUME NEW p \in Processors,
         processor'[p].pc \notin {"merge", "remove"},
         processor'[p].pc \in {"clear", "rebase"} => processor'[p].serving \in Sessions
  PROVE  /\ MergeAt(p)'
         /\ processor'[p].pc \in {"merge", "remove", "clear", "rebase"} =>
              processor'[p].serving \in Sessions
BY DEF MergeAt, At

LEMMA Overtaken ==
  ASSUME TypeOK, NEW S, NEW what \in {"wrote", "moved"}, Overtakes(S, what), NEW q \in Processors
  PROVE  /\ processor'[q].pc = processor[q].pc
         /\ processor'[q].serving = processor[q].serving
         /\ processor[q].wrote => processor'[q].wrote
         /\ processor[q].moved => processor'[q].moved
         /\ Checked(q) /\ processor[q].serving \in S =>
              IF what = "wrote" THEN processor'[q].wrote ELSE processor'[q].moved
<1>1. processor[q] \in Processor
      BY ProcessorType
<1>2. processor'[q] = IF Checked(q) /\ processor[q].serving \in S
                      THEN Marked(q, what) ELSE processor[q]
      BY DEF Overtakes
<1>3. /\ Marked(q, what).pc = processor[q].pc
      /\ Marked(q, what).serving = processor[q].serving
      /\ processor[q].wrote => Marked(q, what).wrote
      /\ processor[q].moved => Marked(q, what).moved
      /\ IF what = "wrote" THEN Marked(q, what).wrote ELSE Marked(q, what).moved
      BY <1>1 DEF Marked, Processor
<1> QED
    BY <1>2, <1>3

LEMMA EndedIs ==
  ASSUME TypeOK, NEW p \in Processors, NEW m
  PROVE  Ended(p, m).pc = "next"
BY ProcessorType DEF Ended, Processor

LEMMA OverIs ==
  ASSUME TypeOK, NEW p \in Processors, Over(p)
  PROVE  processor'[p].pc \in {"idle", "done"}
BY MovesOnly DEF Over, Rests

LEMMA MergeInvInit == Init => MergeInv
<1>1. Init => \A p \in Processors : MergeAt(p)
      BY DEF Init, MergeAt, At, Rests
<1> QED
    BY <1>1, TypeInit DEF MergeInv

LEMMA MergeInvStep == TypeOK /\ MergeInv /\ [Next]_vars => MergeInv'
<1> SUFFICES ASSUME TypeOK, MergeInv, [Next]_vars PROVE MergeInv'
    OBVIOUS
<1> DEFINE Fine(q) ==
      /\ MergeAt(q)'
      /\ processor'[q].pc \in {"merge", "remove", "clear", "rebase"} =>
           processor'[q].serving \in Sessions
<1>1. ASSUME \A q \in Processors : Undisturbed(q) PROVE MergeInv'
      <2>1. \A q \in Processors : Fine(q)
            BY <1>1, Stays DEF MergeInv
      <2> QED
          BY <2>1 DEF MergeInv, Serving
<1>2. ASSUME NEW p \in Processors, Fine(p), \A q \in Processors : q # p => Undisturbed(q)
      PROVE  MergeInv'
      <2>1. \A q \in Processors : Fine(q)
            BY <1>2, Stays DEF MergeInv
      <2> QED
          BY <2>1 DEF MergeInv, Serving
<1> HIDE DEF Fine
<1>3. ASSUME UNCHANGED <<tree, branch, seen, base, processor>> PROVE MergeInv'
      BY <1>1, <1>3 DEF Undisturbed
<1>4. ASSUME NEW p \in Processors, NEW d, Moves(p, d), UNCHANGED <<tree, branch, seen, base>>,
             d.pc \notin {"merge", "remove"},
             d.pc \in {"clear", "rebase"} => d.serving \in Sessions
      PROVE  MergeInv'
      <2>1. processor'[p] = d
            BY <1>4, MovesOnly
      <2>2. Fine(p)
            BY <1>4, <2>1, Elsewhere DEF Fine
      <2> QED
          BY <1>2, <1>4, <2>2, OthersStay
<1>5. ASSUME NEW s \in Sessions, Write(s) PROVE MergeInv'
      <2> SUFFICES ASSUME NEW q \in Processors PROVE Undisturbed(q)
          BY <1>1
      <2>1. processor[q].serving # s => tree'[processor[q].serving] = tree[processor[q].serving]
            BY <1>5 DEF Write, TypeOK
      <2> QED
          BY <1>5, <2>1, Overtaken DEF Write, Undisturbed
<1>6. ASSUME NEW s \in Sessions, Commit(s) PROVE MergeInv'
      <2> SUFFICES ASSUME NEW q \in Processors PROVE Undisturbed(q)
          BY <1>1
      <2>1. processor[q].serving # s =>
              /\ tree'[processor[q].serving] = tree[processor[q].serving]
              /\ branch'[processor[q].serving] = branch[processor[q].serving]
            BY <1>6 DEF Commit, TypeOK
      <2>2. tree'[s] = {} /\ branch'[s] = branch[s] \cup tree[s]
            BY <1>6 DEF Commit, TypeOK
      <2> QED
          BY <1>6, <2>1, <2>2, Overtaken DEF Commit, Undisturbed
<1>7. ASSUME NEW s \in Sessions, Finish(s) \/ Resume(s) PROVE MergeInv'
      BY <1>3, <1>7 DEF Finish, Resume
<1>8. ASSUME NEW s \in Sessions, Prune(s) PROVE MergeInv'
      <2> SUFFICES ASSUME NEW q \in Processors PROVE Undisturbed(q)
          BY <1>1
      <2>1. \/ processor[q].serving # s /\ tree'[processor[q].serving] = tree[processor[q].serving]
               /\ branch'[processor[q].serving] = branch[processor[q].serving]
            \/ tree'[processor[q].serving] = {} /\ branch'[processor[q].serving] = {}
            BY <1>8 DEF Prune, TypeOK
      <2> QED
          BY <1>8, <2>1 DEF Prune, Undisturbed
<1>9. CASE UserCommits
      <2> SUFFICES ASSUME NEW q \in Processors PROVE Undisturbed(q)
          BY <1>1
      <2>1. Checked(q) => processor[q].serving \in Sessions
            BY DEF Checked, MergeInv, Serving
      <2> QED
          BY <1>9, <2>1, Overtaken DEF UserCommits, Undisturbed
<1>10. CASE UserEndsMerge
       BY <1>3, <1>10 DEF UserEndsMerge
<1>11. ASSUME NEW p \in Processors, Over(p), UNCHANGED <<tree, branch, seen, base>>
       PROVE  MergeInv'
       <2>1. \A pc \in {"idle", "done"} : Rests(pc).pc = pc
             BY DEF Rests
       <2>2. PICK pc \in {"idle", "done"} : Moves(p, Rests(pc))
             BY <1>11 DEF Over
       <2> QED
           BY <1>4, <1>11, <2>1, <2>2
<1>12. ASSUME NEW p \in Processors, BeginQueue(p) PROVE MergeInv'
       <2>1. [Rests("idle") EXCEPT !.pc = "build", !.queue = TRUE].pc = "build"
             BY DEF Rests
       <2> QED
           BY <1>4, <1>12, <2>1 DEF BeginQueue, work
<1>13. ASSUME NEW p \in Processors, NEW S \in SUBSET Sessions, NEW keep \in BOOLEAN,
              BeginMerges(p, S, keep)
       PROVE  MergeInv'
       <2>1. [Rests("idle") EXCEPT !.pc = "next", !.ready = S, !.keep = keep].pc = "next"
             BY DEF Rests
       <2> QED
           BY <1>4, <1>13, <2>1 DEF BeginMerges, work
<1>14. ASSUME NEW p \in Processors, Build(p) PROVE MergeInv'
       <2> DEFINE d == [processor[p] EXCEPT !.pc = "next", !.ready = Ready,
                                            !.blocked = Rebasable, !.merged = FALSE]
       <2>1. d.pc = "next"
             BY ProcessorType DEF Processor
       <2>2. Over(p) \/ Moves(p, d)
             BY <1>14 DEF Build
       <2>3. UNCHANGED <<tree, branch, seen, base>>
             BY <1>14 DEF Build, work
       <2> HIDE DEF d
       <2> QED
           BY <1>4, <1>11, <2>1, <2>2, <2>3
<1>15. ASSUME NEW p \in Processors, NEW s \in Sessions, Check(p, s) PROVE MergeInv'
       <2> DEFINE rest == [processor[p] EXCEPT !.ready = @ \ {s}]
                  d == [rest EXCEPT !.pc = "merge", !.serving = s]
       <2>1. /\ rest.pc = "next" /\ d.pc = "merge" /\ d.serving = s
             BY <1>15, ProcessorType DEF Check, At, Processor
       <2>2. /\ IF MayMerge(s) THEN Moves(p, d) ELSE Moves(p, rest)
             /\ UNCHANGED <<tree, branch, seen, base>>
             BY <1>15 DEF Check, work
       <2> HIDE DEF rest, d
       <2>3. CASE ~MayMerge(s)
             BY <1>4, <2>1, <2>2, <2>3
       <2>4. CASE MayMerge(s)
             <3>1. processor'[p] = d
                   BY <2>2, <2>4, MovesOnly
             <3>2. tree'[s] = {} /\ ~ConflictsWithBase(s)'
                   BY <2>2, <2>4 DEF MayMerge, Dirty, ConflictsWithBase, Clashing
             <3>3. Fine(p)
                   BY <2>1, <3>1, <3>2 DEF Fine, MergeAt, At
             <3> QED
                 BY <1>2, <2>2, <2>4, <3>3, OthersStay
       <2> QED
           BY <2>3, <2>4
<1>16. ASSUME NEW p \in Processors, GitMerge(p) PROVE MergeInv'
       <2> DEFINE s == processor[p].serving
                  d == [processor[p] EXCEPT !.pc = "remove"]
       <2>1. s \in Sessions /\ (processor[p].wrote \/ tree[s] = {})
             BY <1>16 DEF GitMerge, MergeInv, Serving, MergeAt, At
       <2>2. d.pc = "remove" /\ d.serving = s /\ d.wrote = processor[p].wrote
             BY ProcessorType DEF Processor
       <2>3. Ended(p, TRUE).pc = "next"
             BY EndedIs
       <2>4. processor'[p] = Ended(p, TRUE) \/ processor'[p] = d
             BY <1>16 DEF GitMerge
       <2>5. base' = base \cup branch[s] /\ tree' = tree /\ branch' = branch /\ seen' = seen
             BY <1>16 DEF GitMerge
       <2> HIDE DEF d
       <2>6. Fine(p)
             BY <2>1, <2>2, <2>3, <2>4, <2>5 DEF Fine, MergeAt, At
       <2>7. ASSUME NEW q \in Processors, q # p PROVE Undisturbed(q)
             <3>1. processor'[q] = IF Checked(q) /\ ~(branch[s] \subseteq base)
                                   THEN Marked(q, "moved") ELSE processor[q]
                   BY <1>16, <2>7 DEF GitMerge
             <3>2. /\ Marked(q, "moved").pc = processor[q].pc
                   /\ Marked(q, "moved").serving = processor[q].serving
                   /\ Marked(q, "moved").wrote = processor[q].wrote
                   /\ Marked(q, "moved").moved
                   BY ProcessorType DEF Marked, Processor
             <3> QED
                 BY <2>5, <3>1, <3>2 DEF Undisturbed
       <2> QED
           BY <1>2, <2>6, <2>7
<1>17. ASSUME NEW p \in Processors, GitMergeFails(p) PROVE MergeInv'
       BY <1>4, <1>17, EndedIs DEF GitMergeFails, Ends
<1>18. ASSUME NEW p \in Processors, Remove(p) PROVE MergeInv'
       <2> DEFINE s == processor[p].serving
                  d == [processor[p] EXCEPT !.pc = "clear"]
       <2>1. s \in Sessions
             BY <1>18 DEF Remove, MergeInv, Serving, At
       <2>2. d.pc = "clear" /\ d.serving = s
             BY ProcessorType DEF Processor
       <2>3. Moves(p, d) /\ base' = base /\ seen' = seen
             BY <1>18 DEF Remove
       <2> HIDE DEF d
       <2>4. processor'[p] = d
             BY <2>3, MovesOnly
       <2>5. Fine(p)
             BY <2>1, <2>2, <2>4, Elsewhere DEF Fine
       <2>6. ASSUME NEW q \in Processors, q # p PROVE Undisturbed(q)
             <3>1. processor'[q] = processor[q]
                   BY <2>3, <2>6 DEF Moves, TypeOK
             <3>2. LET t == processor[q].serving
                   IN  \/ tree'[t] = tree[t] /\ branch'[t] = branch[t]
                       \/ tree'[t] = {} /\ branch'[t] = {}
                   BY <1>18 DEF Remove, TypeOK
             <3> QED
                 BY <2>3, <3>1, <3>2 DEF Undisturbed
       <2> QED
           BY <1>2, <2>5, <2>6
<1>19. ASSUME NEW p \in Processors, Clear(p) PROVE MergeInv'
       BY <1>4, <1>19, EndedIs DEF Clear, Ends, work
<1>20. ASSUME NEW p \in Processors, Again(p) PROVE MergeInv'
       <2>1. [processor[p] EXCEPT !.pc = "build"].pc = "build"
             BY ProcessorType DEF Processor
       <2> QED
           BY <1>4, <1>20, <2>1 DEF Again, work
<1>21. ASSUME NEW p \in Processors, NEW s \in Sessions, TryRebase(p, s) PROVE MergeInv'
       <2> DEFINE rest == [processor[p] EXCEPT !.blocked = @ \ {s}]
                  tried == [rest EXCEPT !.tried[s] = base]
                  to == [tried EXCEPT !.pc = "rebase", !.serving = s]
       <2>1. rest.pc = "next" /\ tried.pc = "next" /\ to.pc = "rebase" /\ to.serving = s
             BY <1>21, ProcessorType DEF TryRebase, At, Processor
       <2>2. Over(p) \/ Moves(p, rest) \/ Moves(p, tried) \/ Moves(p, to)
             BY <1>21 DEF TryRebase
       <2>3. UNCHANGED <<tree, branch, seen, base>>
             BY <1>21 DEF TryRebase, work
       <2> HIDE DEF rest, tried, to
       <2> QED
           BY <1>4, <1>11, <2>1, <2>2, <2>3
<1>22. ASSUME NEW p \in Processors, Rebase(p) PROVE MergeInv'
       <2> DEFINE s == processor[p].serving
                  d == [processor[p] EXCEPT !.pc = "build", !.serving = NoSession]
       <2>1. d.pc = "build"
             BY ProcessorType DEF Processor
       <2>2. processor'[p] = d /\ tree' = tree /\ branch' = branch /\ base' = base
             BY <1>22 DEF Rebase
       <2> HIDE DEF d
       <2>3. Fine(p)
             BY <2>1, <2>2, Elsewhere DEF Fine
       <2>4. ASSUME NEW q \in Processors, q # p PROVE Undisturbed(q)
             <3>1. processor'[q] = IF Checked(q) /\ processor[q].serving = s
                                   THEN Marked(q, "moved") ELSE processor[q]
                   BY <1>22, <2>4 DEF Rebase
             <3>2. /\ Marked(q, "moved").pc = processor[q].pc
                   /\ Marked(q, "moved").serving = processor[q].serving
                   /\ Marked(q, "moved").wrote = processor[q].wrote
                   /\ Marked(q, "moved").moved
                   BY ProcessorType DEF Marked, Processor
             <3>3. processor[q].serving # s =>
                     seen'[processor[q].serving] = seen[processor[q].serving]
                   BY <1>22 DEF Rebase, TypeOK
             <3> QED
                 BY <2>2, <3>1, <3>2, <3>3 DEF Undisturbed
       <2> QED
           BY <1>2, <2>3, <2>4
<1>23. ASSUME NEW p \in Processors, RebaseFails(p) PROVE MergeInv'
       <2>1. [processor[p] EXCEPT !.pc = "next", !.serving = NoSession].pc = "next"
             BY ProcessorType DEF Processor
       <2> QED
           BY <1>4, <1>23, <2>1 DEF RebaseFails, work
<1>24. ASSUME NEW p \in Processors, Return(p) \/ Dies(p) PROVE MergeInv'
       BY <1>11, <1>24 DEF Return, Dies, work
<1>25. CASE UNCHANGED vars
       BY <1>3, <1>25 DEF vars
<1> QED
    BY <1>5, <1>6, <1>7, <1>8, <1>9, <1>10, <1>12, <1>13, <1>14, <1>15, <1>16, <1>17,
       <1>18, <1>19, <1>20, <1>21, <1>22, <1>23, <1>24, <1>25, BeginsWith
    DEF Next, GoesOn, Others

LEMMA QueueInvariant == Spec => [](TypeOK /\ MergeInv)
<1>1. Init => TypeOK /\ MergeInv
      BY TypeInit, MergeInvInit
<1>2. TypeOK /\ MergeInv /\ [Next]_vars => (TypeOK /\ MergeInv)'
      BY TypeStep, MergeInvStep DEF MergeInv
<1> QED
    BY <1>1, <1>2, PTL DEF Spec

(* Every variable keeps its type.                                          *)
THEOREM QueueTypeCorrect == Spec => []TypeOK
BY QueueInvariant, PTL

(* A merge removes only what is in the base, or what an agent wrote after  *)
(* the checks: the row of a pruned session is cleared in the same step.    *)
THEOREM MergesLoseNothing == Spec => NothingLost
<1> DEFINE Removal ==
      \A s \in Sessions :
        s \in path \ path' /\ session'[s].worktree =>
          \/ tree[s] \cup branch[s] \subseteq base
          \/ \E p \in Processors : processor[p].serving = s /\ processor[p].wrote
<1>1. ASSUME TypeOK, MergeInv, [Next]_vars PROVE Removal
      <2>1. ASSUME path' = path PROVE Removal
            BY <2>1
      <2>2. ASSUME NEW t \in Sessions, Prune(t) PROVE Removal
            BY <1>1, <2>2 DEF Prune, TypeOK
      <2>3. ASSUME NEW p \in Processors, Remove(p) PROVE Removal
            <3>1. path' = path \ {processor[p].serving}
                  BY <2>3 DEF Remove
            <3>2. \/ processor[p].wrote
                  \/ tree[processor[p].serving] \cup branch[processor[p].serving] \subseteq base
                  BY <1>1, <2>3 DEF Remove, MergeInv, MergeAt
            <3> QED
                BY <3>1, <3>2
      <2>4. path' = path \/ (\E t \in Sessions : Prune(t)) \/ (\E p \in Processors : Remove(p))
            <3> USE DEF work
            <3>1. ASSUME NEW t \in Sessions, Write(t) \/ Commit(t) \/ Finish(t) \/ Resume(t)
                  PROVE  path' = path
                  BY <3>1 DEF Write, Commit, Finish, Resume
            <3>2. ASSUME UserCommits \/ UserEndsMerge PROVE path' = path
                  BY <3>2 DEF UserCommits, UserEndsMerge
            <3>3. ASSUME NEW p \in Processors, Begins(p) \/ Dies(p) PROVE path' = path
                  BY <3>3 DEF Begins, BeginQueue, BeginOne, BeginAll, BeginMerges, Dies
            <3>4. ASSUME NEW p \in Processors, GoesOn(p), ~Remove(p) PROVE path' = path
                  BY <3>4 DEF GoesOn, Build, GitMerge, GitMergeFails, Clear, Again, Rebase,
                              RebaseFails, Return, Check, TryRebase
            <3>5. CASE UNCHANGED vars
                  BY <3>5 DEF vars
            <3> QED
                BY <1>1, <3>1, <3>2, <3>3, <3>4, <3>5 DEF Next, Others
      <2> HIDE DEF Removal
      <2> QED
          BY <2>1, <2>2, <2>3, <2>4
<1>2. TypeOK /\ MergeInv /\ [Next]_vars => [Removal]_vars
      BY <1>1
<1>3. Spec => [][Removal]_vars
      BY <1>2, QueueInvariant, PTL DEF Spec
<1> QED
    BY <1>3 DEF NothingLost

(* git merge leaves the root in the middle of a merge only when the base   *)
(* or the branch moved after the checks.                                   *)
THEOREM MergesStopOnlyOvertaken == Spec => RootLeftInOrder
<1> DEFINE Stop ==
      root' = "merging" /\ root # "merging" =>
        \E p \in Processors : At(p, "merge") /\ processor[p].moved
<1>1. ASSUME TypeOK, MergeInv, [Next]_vars PROVE Stop
      <2>1. ASSUME root' = root \/ root' = "clean" PROVE Stop
            BY <2>1
      <2>2. ASSUME NEW p \in Processors, GitMergeFails(p) PROVE Stop
            <3>1. At(p, "merge") => processor[p].moved \/ ~ConflictsWithBase(processor[p].serving)
                  BY <1>1 DEF MergeInv, MergeAt
            <3> QED
                BY <1>1, <2>2, <3>1 DEF GitMergeFails, TypeOK
      <2>3. root' = root \/ root' = "clean" \/ (\E p \in Processors : GitMergeFails(p))
            <3> USE DEF work
            <3>1. ASSUME NEW t \in Sessions,
                         Write(t) \/ Commit(t) \/ Finish(t) \/ Resume(t) \/ Prune(t)
                  PROVE  root' = root
                  BY <3>1 DEF Write, Commit, Finish, Resume, Prune
            <3>2. ASSUME UserCommits \/ UserEndsMerge PROVE root' = root \/ root' = "clean"
                  BY <3>2 DEF UserCommits, UserEndsMerge
            <3>3. ASSUME NEW p \in Processors, Begins(p) \/ Dies(p) PROVE root' = root
                  BY <3>3 DEF Begins, BeginQueue, BeginOne, BeginAll, BeginMerges, Dies
            <3>4. ASSUME NEW p \in Processors, GoesOn(p), ~GitMergeFails(p) PROVE root' = root
                  BY <3>4 DEF GoesOn, Build, GitMerge, Remove, Clear, Again, Rebase,
                              RebaseFails, Return, Check, TryRebase
            <3>5. CASE UNCHANGED vars
                  BY <3>5 DEF vars
            <3> QED
                BY <1>1, <3>1, <3>2, <3>3, <3>4, <3>5 DEF Next, Others
      <2> HIDE DEF Stop
      <2> QED
          BY <2>1, <2>2, <2>3
<1>2. TypeOK /\ MergeInv /\ [Next]_vars => [Stop]_vars
      BY <1>1
<1>3. Spec => [][Stop]_vars
      BY <1>2, QueueInvariant, PTL DEF Spec
<1> QED
    BY <1>3 DEF RootLeftInOrder

-----------------------------------------------------------------------------
(* Rows and worktrees.                                                     *)

(* A processor that has removed a worktree keeps its place until it clears *)
(* the row or dies.                                                        *)
LEMMA ClearsOrDies ==
  ASSUME TypeOK, Serving, [Next]_vars, NEW p \in Processors, At(p, "clear"),
         ~Clear(p), ~Dies(p)
  PROVE  processor'[p] = processor[p]
<1> USE DEF At
<1>1. CASE UNCHANGED vars
      BY <1>1 DEF vars
<1>2. ASSUME NEW S, NEW what, Overtakes(S, what) PROVE processor'[p] = processor[p]
      BY <1>2 DEF Overtakes, Checked
<1>3. ASSUME NEW q \in Processors, NEW d, Moves(q, d), q # p PROVE processor'[p] = processor[p]
      BY <1>3 DEF Moves, TypeOK
<1>4. ASSUME NEW s \in Sessions, Write(s) \/ Commit(s) \/ Finish(s) \/ Resume(s) \/ Prune(s)
      PROVE  processor'[p] = processor[p]
      BY <1>2, <1>4 DEF Write, Commit, Finish, Resume, Prune
<1>5. CASE UserCommits \/ UserEndsMerge
      BY <1>2, <1>5 DEF UserCommits, UserEndsMerge
<1>6. ASSUME NEW q \in Processors, BeginQueue(q) \/ Build(q) \/ GitMergeFails(q) \/ Remove(q)
               \/ Clear(q) \/ Again(q) \/ RebaseFails(q) \/ Return(q) \/ Dies(q)
      PROVE  processor'[p] = processor[p]
      <2>1. q # p
            BY <1>6 DEF BeginQueue, Build, GitMergeFails, Remove, Again, RebaseFails, Return
      <2>2. \E d : Moves(q, d)
            BY <1>6 DEF BeginQueue, Build, GitMergeFails, Remove, Clear, Again, RebaseFails,
                        Return, Dies, Over, Ends
      <2> QED
          BY <1>3, <2>1, <2>2
<1>7. ASSUME NEW q \in Processors, NEW s \in Sessions,
             Check(q, s) \/ TryRebase(q, s)
      PROVE  processor'[p] = processor[p]
      <2>1. q # p
            BY <1>7 DEF Check, TryRebase
      <2>2. \E d : Moves(q, d)
            BY <1>7 DEF Check, TryRebase, Over
      <2> QED
          BY <1>3, <2>1, <2>2
<1>9. ASSUME NEW q \in Processors, NEW S, NEW keep, BeginMerges(q, S, keep)
      PROVE  processor'[p] = processor[p]
      <2>1. q # p
            BY <1>9 DEF BeginMerges
      <2>2. \E d : Moves(q, d)
            BY <1>9 DEF BeginMerges
      <2> QED
          BY <1>3, <2>1, <2>2
<1>8. ASSUME NEW q \in Processors, GitMerge(q) \/ Rebase(q) PROVE processor'[p] = processor[p]
      BY <1>8 DEF GitMerge, Rebase, Checked, TypeOK
<1> QED
    BY <1>1, <1>4, <1>5, <1>6, <1>7, <1>8, <1>9, BeginsWith DEF Next, GoesOn, Others

(* What a step does to the rows, the worktrees and the orphans.            *)
LEMMA RowsStep ==
  ASSUME TypeOK, Serving, [Next]_vars, NEW s \in Sessions, Listed(s)', s \notin path'
  PROVE  /\ Listed(s)
         /\ orphaned \subseteq orphaned'
         /\ s \in path => \E p \in Processors : At(p, "clear")' /\ processor'[p].serving = s
<1>1. CASE UNCHANGED <<session, path, orphaned>>
      BY <1>1 DEF Listed
<1>2. ASSUME NEW t \in Sessions, Finish(t) \/ Resume(t) \/ Prune(t)
      PROVE  Listed(s) /\ orphaned' = orphaned /\ s \notin path
      BY <1>2 DEF Finish, Resume, Prune, Listed, TypeOK
<1>3. ASSUME NEW p \in Processors, Remove(p)
      PROVE  /\ Listed(s) /\ orphaned' = orphaned
             /\ s \in path => At(p, "clear")' /\ processor'[p].serving = s
      <2> DEFINE d == [processor[p] EXCEPT !.pc = "clear"]
      <2>1. d.pc = "clear" /\ d.serving = processor[p].serving
            BY ProcessorType DEF Processor
      <2>2. Moves(p, d) /\ path' = path \ {processor[p].serving} /\ UNCHANGED <<session, orphaned>>
            BY <1>3 DEF Remove
      <2> HIDE DEF d
      <2>3. processor'[p] = d
            BY <2>2, MovesOnly
      <2> QED
          BY <2>1, <2>2, <2>3 DEF At, Listed
<1>4. ASSUME NEW p \in Processors, Clear(p)
      PROVE  Listed(s) /\ orphaned' = orphaned /\ s \notin path
      BY <1>4 DEF Clear, Listed, TypeOK, work
<1>5. ASSUME NEW p \in Processors, Dies(p)
      PROVE  Listed(s) /\ orphaned \subseteq orphaned' /\ s \notin path
      BY <1>5 DEF Dies, Listed
<1>6. \/ UNCHANGED <<session, path, orphaned>>
      \/ \E t \in Sessions : Finish(t) \/ Resume(t) \/ Prune(t)
      \/ \E p \in Processors : Remove(p) \/ Clear(p) \/ Dies(p)
      <2> USE DEF work
      <2>1. ASSUME NEW t \in Sessions, Write(t) \/ Commit(t)
            PROVE  UNCHANGED <<session, path, orphaned>>
            BY <2>1 DEF Write, Commit
      <2>2. ASSUME UserCommits \/ UserEndsMerge PROVE UNCHANGED <<session, path, orphaned>>
            BY <2>2 DEF UserCommits, UserEndsMerge
      <2>3. ASSUME NEW p \in Processors, Begins(p) PROVE UNCHANGED <<session, path, orphaned>>
            BY <2>3 DEF Begins, BeginQueue, BeginOne, BeginAll, BeginMerges
      <2>4. ASSUME NEW p \in Processors, GoesOn(p), ~Remove(p), ~Clear(p)
            PROVE  UNCHANGED <<session, path, orphaned>>
            BY <2>4 DEF GoesOn, Build, GitMerge, GitMergeFails, Again, Rebase, RebaseFails,
                        Return, Check, TryRebase
      <2>5. CASE UNCHANGED vars
            BY <2>5 DEF vars
      <2> QED
          BY <2>1, <2>2, <2>3, <2>4, <2>5 DEF Next, Others
<1> QED
    BY <1>1, <1>2, <1>3, <1>4, <1>5, <1>6

LEMMA RowsNameWorktreesStep ==
  TypeOK /\ Serving /\ RowsNameWorktrees /\ [Next]_vars => RowsNameWorktrees'
<1> SUFFICES ASSUME TypeOK, Serving, RowsNameWorktrees, [Next]_vars,
                    NEW s \in Sessions, Listed(s)', s \notin path'
             PROVE  s \in orphaned' \/ \E p \in Processors : At(p, "clear")' /\ processor'[p].serving = s
    BY DEF RowsNameWorktrees, At
<1>1. CASE s \in path \/ s \in orphaned
      BY <1>1, RowsStep
<1>2. ASSUME NEW p \in Processors, At(p, "clear"), processor[p].serving = s
      PROVE  s \in orphaned' \/ (At(p, "clear")' /\ processor'[p].serving = s)
      <2>1. CASE Clear(p)
            BY <1>2, <2>1 DEF Clear, Listed, TypeOK
      <2>2. CASE Dies(p)
            BY <1>2, <2>2 DEF Dies
      <2>3. CASE ~Clear(p) /\ ~Dies(p)
            BY <1>2, <2>3, ClearsOrDies DEF At
      <2> QED
          BY <2>1, <2>2, <2>3
<1> QED
    BY <1>1, <1>2, RowsStep DEF RowsNameWorktrees

(* A row names a worktree that is gone only between the removal and its    *)
(* record, or because the process died there.                              *)
THEOREM RowsNameTheirWorktrees == Spec => []RowsNameWorktrees
<1>1. Init => RowsNameWorktrees
      BY DEF Init, RowsNameWorktrees, Listed
<1>2. TypeOK /\ MergeInv /\ RowsNameWorktrees /\ [Next]_vars => RowsNameWorktrees'
      BY RowsNameWorktreesStep DEF MergeInv
<1> QED
    BY <1>1, <1>2, QueueInvariant, PTL DEF Spec
=============================================================================

------------------------------ MODULE MergeQueue ----------------------------
(***************************************************************************)
(* The merge queue: process_merge_queue merges the branches of sessions    *)
(* that have finished into the base branch, cleans their worktrees, and    *)
(* rebases branches that conflict with the base.  The daemon runs it in    *)
(* every cycle; users run it, or merge one session, beside it.  Agents     *)
(* write and commit meanwhile, users work in the repository's root.        *)
(*                                                                         *)
(* A branch is the set of commits a session made, and the commits of the   *)
(* base it is built on.  A merge first reads the row, the branch and the   *)
(* root, and then calls git, in processes of their own: what was read may  *)
(* be stale by then.                                                       *)
(***************************************************************************)
EXTENDS Naturals, FiniteSets

CONSTANTS
  Sessions,   \* sessions with a worktree, in the order of the queue
  Processors, \* processes that merge
  Daemons,    \* those that run the queue for ever
  Queues,     \* those that run the queue; bound: the others merge one session, or
              \* all that are finished, once
  Mortal,     \* those that may die
  Clash,      \* sets {s, t} of authors whose commits touch the same lines
  User,       \* the author of the commits made in the root
  MaxWork,    \* bound: commits of one author
  NoSession, NoHead

ASSUME QueueAssumption ==
  /\ Sessions \subseteq Nat /\ User \in Nat \ Sessions
  /\ Daemons \subseteq Queues /\ Queues \subseteq Processors /\ Mortal \subseteq Processors
  /\ \A c \in Clash : \E s, t \in Sessions \cup {User} : s # t /\ c = {s, t}
  /\ MaxWork \in Nat
  /\ NoSession \notin Sessions

\* A commit, or a change that is not committed yet: author and number.
Units == (Sessions \cup {User}) \X (1 .. MaxWork)
Own(s) == {s} \X (1 .. MaxWork)
Heads == SUBSET Units \* the heads of the base, each named by what it holds

VARIABLES
  session,    \* the rows of the sessions
  path,       \* sessions whose worktree and branch exist
  tree,       \* changes in each worktree that are not committed
  branch,     \* commits of each session on its branch
  seen,       \* commits of the base that each branch is built on
  base,       \* commits of the base branch
  root,       \* the checkout of the base branch
  processor,  \* what each processor has read and is doing
  orphaned    \* sessions whose worktree is gone and its processor died (history)

vars == <<session, path, tree, branch, seen, base, root, processor, orphaned>>
work == <<path, tree, branch, seen, base, root, orphaned>>

Processor ==
  [pc : {"idle", "build", "next", "merge", "remove", "clear", "rebase", "done"},
   ready : SUBSET Sessions,    \* entries still to be merged
   blocked : SUBSET Sessions,  \* entries still to be rebased
   serving : Sessions \cup {NoSession},
   merged : BOOLEAN,           \* merged_any
   tried : [Sessions -> Heads \cup {NoHead}], \* attempted_rebase_heads
   queue : BOOLEAN,            \* the queue, or a single pass
   keep : BOOLEAN,             \* --keep-worktree
   wrote : BOOLEAN,            \* an agent wrote since the checks of the merge
   moved : BOOLEAN]            \* the base or the branch moved since then (history)

Rests(pc) ==
  [pc |-> pc, ready |-> {}, blocked |-> {}, serving |-> NoSession,
   merged |-> FALSE, tried |-> [s \in Sessions |-> NoHead],
   queue |-> FALSE, keep |-> FALSE, wrote |-> FALSE, moved |-> FALSE]

TypeOK ==
  /\ session \in [Sessions -> [state : {"active", "finished"}, worktree : BOOLEAN]]
  /\ path \subseteq Sessions
  /\ tree \in [Sessions -> SUBSET Units] /\ branch \in [Sessions -> SUBSET Units]
  /\ seen \in [Sessions -> Heads] /\ base \in Heads
  /\ root \in {"clean", "merging"}
  /\ processor \in [Processors -> Processor]
  /\ orphaned \subseteq Sessions

Init ==
  /\ session = [s \in Sessions |-> [state |-> "active", worktree |-> TRUE]]
  /\ path = Sessions
  /\ tree = [s \in Sessions |-> {}] /\ branch = [s \in Sessions |-> {}]
  /\ seen = [s \in Sessions |-> {}] /\ base = {}
  /\ root = "clean"
  /\ processor = [p \in Processors |-> Rests("idle")]
  /\ orphaned = {}

-----------------------------------------------------------------------------
(* What git says.                                                          *)

Clashing(A, B) == \E u \in A, v \in B : {u[1], v[1]} \in Clash

\* merge_readiness: the commits that only one side has touch the same lines.
ConflictsWithBase(s) == Clashing(branch[s] \ base, base \ (seen[s] \cup branch[s]))

\* branch_conflict_preview
ConflictsWith(s, t) == Clashing(branch[s] \ seen[t], branch[t] \ seen[s])

Dirty(s) == tree[s] # {}
Finished(s) == session[s].state = "finished"
Listed(s) == session[s].worktree

-----------------------------------------------------------------------------
(* build_merge_queue.                                                      *)

Mergeable == {s \in Sessions : /\ Listed(s) /\ Finished(s)
                               /\ ~ConflictsWithBase(s) /\ ~Dirty(s)}

\* Mutant of Ready: an entry waits for every entry before it that it conflicts with.
ReadyBehindAll ==
  {s \in Mergeable : \A t \in {x \in Sessions : Listed(x) /\ x < s} : ~ConflictsWith(s, t)}

\* An entry waits for the mergeable entries before it that it conflicts with, and
\* only for those that do not wait themselves.
IsReady[s \in Sessions] ==
  /\ s \in Mergeable
  /\ \A t \in Sessions : t < s /\ IsReady[t] => ~ConflictsWith(s, t)

Ready == {s \in Sessions : IsReady[s]}

\* can_auto_rebase_merge_queue_entry, which does not ask for the state.
Rebasable == {s \in Sessions : Listed(s) /\ ~Dirty(s) /\ ConflictsWithBase(s)}

\* One worktree that is gone makes the whole report fail.
ReportFails == \E s \in Sessions : Listed(s) /\ s \notin path

-----------------------------------------------------------------------------
(* Agents and users.                                                       *)

\* The mark that a merge finds out of date what its checks have read.
Marked(p, what) ==
  IF what = "wrote" THEN [processor[p] EXCEPT !.wrote = TRUE]
                    ELSE [processor[p] EXCEPT !.moved = TRUE]
Checked(p) == processor[p].pc \in {"merge", "remove"}
Overtakes(S, what) ==
  processor' = [p \in Processors |-> IF Checked(p) /\ processor[p].serving \in S
                                     THEN Marked(p, what) ELSE processor[p]]

\* The agent of a session that was stopped may live on, so a worktree may change
\* as long as it is there.
Write(s) ==
  /\ s \in path
  /\ \E u \in Own(s) \ (tree[s] \cup branch[s]) :
       tree' = [tree EXCEPT ![s] = @ \cup {u}]
  /\ Overtakes({s}, "wrote")
  /\ UNCHANGED <<session, path, branch, seen, base, root, orphaned>>

Commit(s) ==
  /\ s \in path
  /\ Dirty(s)
  /\ branch' = [branch EXCEPT ![s] = @ \cup tree[s]]
  /\ tree' = [tree EXCEPT ![s] = {}]
  /\ Overtakes({s}, "moved")
  /\ UNCHANGED <<session, path, seen, base, root, orphaned>>

Finish(s) ==
  /\ ~Finished(s) /\ Listed(s)
  /\ session' = [session EXCEPT ![s].state = "finished"]
  /\ UNCHANGED <<path, tree, branch, seen, base, root, processor, orphaned>>

Resume(s) ==
  /\ Finished(s) /\ Listed(s)
  /\ session' = [session EXCEPT ![s].state = "active"]
  /\ UNCHANGED <<path, tree, branch, seen, base, root, processor, orphaned>>

\* prune_inactive_worktrees and cleanup_session_worktree, merged or not.
Prune(s) ==
  /\ Finished(s) /\ Listed(s)
  /\ session' = [session EXCEPT ![s].worktree = FALSE]
  /\ path' = path \ {s}
  /\ tree' = [tree EXCEPT ![s] = {}]
  /\ branch' = [branch EXCEPT ![s] = {}]
  /\ UNCHANGED <<seen, base, root, processor, orphaned>>

\* A commit in the root.
UserCommits ==
  /\ root = "clean"
  /\ \E u \in Own(User) \ base : base' = base \cup {u}
  /\ Overtakes(Sessions, "moved")
  /\ UNCHANGED <<session, path, tree, branch, seen, root, orphaned>>

\* The user puts the root in order.
UserEndsMerge ==
  /\ root = "merging"
  /\ root' = "clean"
  /\ UNCHANGED <<session, path, tree, branch, seen, base, processor, orphaned>>

-----------------------------------------------------------------------------
(* process_merge_queue and merge_session_worktree.                         *)

At(p, pc) == processor[p].pc = pc
Moves(p, q) == processor' = [processor EXCEPT ![p] = q]
IsFirst(s, S) == s \in S /\ \A t \in S : s <= t

\* bound: a user's command runs once.
Over(p) == Moves(p, Rests(IF p \in Daemons THEN "idle" ELSE "done"))

BeginQueue(p) ==
  /\ p \in Queues /\ At(p, "idle")
  /\ Moves(p, [Rests("idle") EXCEPT !.pc = "build", !.queue = TRUE])
  /\ UNCHANGED <<session, work>>

BeginMerges(p, S, keep) ==
  /\ p \notin Queues /\ At(p, "idle")
  /\ Moves(p, [Rests("idle") EXCEPT !.pc = "next", !.ready = S, !.keep = keep])
  /\ UNCHANGED <<session, work>>

BeginOne(p, s, keep) == BeginMerges(p, {s}, keep)

\* merge_ready_worktrees_one_pass, which keeps the worktrees.
BeginAll(p) == BeginMerges(p, {s \in Sessions : Listed(s) /\ Finished(s)}, TRUE)

Build(p) ==
  /\ At(p, "build")
  /\ IF ReportFails THEN Over(p)
     ELSE Moves(p, [processor[p] EXCEPT !.pc = "next", !.ready = Ready,
                                        !.blocked = Rebasable, !.merged = FALSE])
  /\ UNCHANGED <<session, work>>

\* Mutants of MayMerge: the worktree, or the branch, was checked by the report.
MayMergeDirty(s) ==
  Finished(s) /\ Listed(s) /\ s \in path /\ ~ConflictsWithBase(s) /\ root = "clean"
MayMergeUnread(s) ==
  Finished(s) /\ Listed(s) /\ s \in path /\ ~Dirty(s) /\ root = "clean"

\* merge_session_worktree and merge_into_base before they call git merge.
MayMerge(s) ==
  /\ Finished(s) /\ Listed(s) /\ s \in path
  /\ ~ConflictsWithBase(s) /\ ~Dirty(s)
  /\ root = "clean"

\* Mutant of Check: an entry that may not be merged counts as merged.
CheckCountsAll(p, s) ==
  /\ At(p, "next") /\ IsFirst(s, processor[p].ready)
  /\ LET rest == [processor[p] EXCEPT !.ready = @ \ {s}]
     IN  Moves(p, IF MayMerge(s) THEN [rest EXCEPT !.pc = "merge", !.serving = s]
                  ELSE [rest EXCEPT !.merged = TRUE])
  /\ UNCHANGED <<session, work>>

Check(p, s) ==
  /\ At(p, "next") /\ IsFirst(s, processor[p].ready)
  /\ LET rest == [processor[p] EXCEPT !.ready = @ \ {s}]
     IN  Moves(p, IF MayMerge(s) THEN [rest EXCEPT !.pc = "merge", !.serving = s]
                  ELSE rest)
  /\ UNCHANGED <<session, work>>

\* The merge of an entry is over; the queue goes on.
Ended(p, merged) ==
  [processor[p] EXCEPT !.pc = "next", !.serving = NoSession, !.merged = @ \/ merged,
                       !.wrote = FALSE, !.moved = FALSE]
Ends(p, merged) == Moves(p, Ended(p, merged))

GitMerge(p) ==
  LET s == processor[p].serving
      after == [q \in Processors |->
                  IF q # p /\ Checked(q) /\ ~(branch[s] \subseteq base)
                  THEN Marked(q, "moved") ELSE processor[q]]
  IN  /\ At(p, "merge")
      /\ s \in path /\ root = "clean" /\ ~ConflictsWithBase(s)
      /\ base' = base \cup branch[s]
      /\ processor' = [after EXCEPT ![p] = IF @.keep THEN Ended(p, TRUE)
                                          ELSE [@ EXCEPT !.pc = "remove"]]
      /\ UNCHANGED <<session, path, tree, branch, seen, root, orphaned>>

\* A conflict is left in the root: there is no git merge --abort.
GitMergeFails(p) ==
  LET s == processor[p].serving
  IN  /\ At(p, "merge")
      /\ s \notin path \/ root # "clean" \/ ConflictsWithBase(s)
      /\ root' = IF s \in path /\ root = "clean" THEN "merging" ELSE root
      /\ Ends(p, FALSE)
      /\ UNCHANGED <<session, path, tree, branch, seen, base, orphaned>>

\* worktree::remove: git worktree remove --force and git branch -D.
Remove(p) ==
  LET s == processor[p].serving
  IN  /\ At(p, "remove")
      /\ path' = path \ {s}
      /\ tree' = [tree EXCEPT ![s] = {}]
      /\ branch' = [branch EXCEPT ![s] = {}]
      /\ Moves(p, [processor[p] EXCEPT !.pc = "clear"])
      /\ UNCHANGED <<session, seen, base, root, orphaned>>

\* Mutant of Clear: the row keeps the worktree.
ClearNothing(p) ==
  /\ At(p, "clear")
  /\ Ends(p, TRUE)
  /\ UNCHANGED <<session, work>>

Clear(p) ==
  /\ At(p, "clear")
  /\ session' = [session EXCEPT ![processor[p].serving].worktree = FALSE]
  /\ Ends(p, TRUE)
  /\ UNCHANGED work

\* Something was merged: build the report again.
Again(p) ==
  /\ At(p, "next") /\ processor[p].ready = {}
  /\ processor[p].queue /\ processor[p].merged
  /\ Moves(p, [processor[p] EXCEPT !.pc = "build"])
  /\ UNCHANGED <<session, work>>

\* Each entry is tried once for each head of the base.
TryRebase(p, s) ==
  /\ At(p, "next") /\ processor[p].ready = {} /\ ~processor[p].merged
  /\ IsFirst(s, processor[p].blocked)
  /\ LET rest == [processor[p] EXCEPT !.blocked = @ \ {s}]
         tried == [rest EXCEPT !.tried[s] = base]
     IN  IF Listed(s) /\ s \notin path THEN Over(p)
         ELSE Moves(p, IF ~Listed(s) \/ rest.tried[s] = base THEN rest
                       ELSE IF Finished(s) /\ ~Dirty(s)
                            THEN [tried EXCEPT !.pc = "rebase", !.serving = s]
                            ELSE tried)
  /\ UNCHANGED <<session, work>>

Rebase(p) ==
  LET s == processor[p].serving
      after == [q \in Processors |-> IF Checked(q) /\ processor[q].serving = s
                                     THEN Marked(q, "moved") ELSE processor[q]]
  IN  /\ At(p, "rebase")
      /\ s \in path /\ ~Dirty(s)
      /\ seen' = [seen EXCEPT ![s] = base]
      /\ processor' = [after EXCEPT ![p] = [processor[p] EXCEPT !.pc = "build",
                                                             !.serving = NoSession]]
      /\ UNCHANGED <<session, path, tree, branch, base, root, orphaned>>

\* Mutant of RebaseFails: without git rebase --abort the conflict stays in the worktree.
RebaseFailsMidway(p) ==
  /\ At(p, "rebase")
  /\ tree' = [tree EXCEPT ![processor[p].serving] = @ \cup {<<processor[p].serving, 0>>}]
  /\ Moves(p, [processor[p] EXCEPT !.pc = "next", !.serving = NoSession])
  /\ UNCHANGED <<session, path, branch, seen, base, root, orphaned>>

\* git rebase stops at a conflict and is aborted.
RebaseFails(p) ==
  /\ At(p, "rebase")
  /\ Moves(p, [processor[p] EXCEPT !.pc = "next", !.serving = NoSession])
  /\ UNCHANGED <<session, work>>

Return(p) ==
  /\ At(p, "next") /\ processor[p].ready = {}
  /\ processor[p].queue => processor[p].blocked = {} /\ ~processor[p].merged
  /\ Over(p)
  /\ UNCHANGED <<session, work>>

Dies(p) ==
  /\ p \in Mortal /\ processor[p].pc \notin {"idle", "done"}
  /\ orphaned' = orphaned \cup (IF At(p, "clear") THEN {processor[p].serving} ELSE {})
  /\ Over(p)
  /\ UNCHANGED <<session, path, tree, branch, seen, base, root>>

-----------------------------------------------------------------------------
GoesOn(p) ==
  \/ Build(p) \/ GitMerge(p) \/ GitMergeFails(p) \/ Remove(p) \/ Clear(p)
  \/ Again(p) \/ Rebase(p) \/ RebaseFails(p) \/ Return(p)
  \/ \E s \in Sessions : Check(p, s) \/ TryRebase(p, s)

Begins(p) ==
  \/ BeginQueue(p)
  \/ \E s \in Sessions, keep \in BOOLEAN : BeginOne(p, s, keep)
  \/ BeginAll(p)

Others ==
  \/ \E s \in Sessions : Write(s) \/ Commit(s) \/ Finish(s) \/ Resume(s) \/ Prune(s)
  \/ UserCommits \/ UserEndsMerge

Next == (\E p \in Processors : GoesOn(p) \/ Begins(p) \/ Dies(p)) \/ Others

Spec == Init /\ [][Next]_vars

\* The daemon goes on as long as it lives, and begins again; agents, users and
\* their commands owe nothing.
FairSpec ==
  /\ Spec
  /\ \A p \in Daemons : WF_vars(GoesOn(p) \/ BeginQueue(p))

-----------------------------------------------------------------------------
(* Properties.                                                             *)

\* A merge removes a worktree and a branch only when all they hold is in the base,
\* unless an agent wrote between the checks of the merge and the removal.
NothingLost ==
  [][\A s \in Sessions :
       s \in path \ path' /\ session'[s].worktree =>
         \/ tree[s] \cup branch[s] \subseteq base
         \/ \E p \in Processors : processor[p].serving = s /\ processor[p].wrote]_vars

\* git merge stops in the middle, which ends all merging until a user puts the
\* root in order, only if the base or the branch moved after the checks.
RootLeftInOrder ==
  [][root' = "merging" /\ root # "merging" =>
       \E p \in Processors : At(p, "merge") /\ processor[p].moved]_vars

\* A row names a worktree that is gone, which makes every report fail, only
\* between the removal and the record of it, or if the process died there.
RowsNameWorktrees ==
  \A s \in Sessions : Listed(s) /\ s \notin path =>
    s \in orphaned \/ \E p \in Processors : At(p, "clear") /\ processor[p].serving = s

\* The queue comes to an end, whatever fails, is merged or is rebased meanwhile.
QueueReturns == \A p \in Daemons : At(p, "build") ~> At(p, "idle")

\* An entry with nothing mergeable before it that it conflicts with does not stay
\* so for ever, unless the root is not in order or a worktree is gone: entries
\* that cannot be merged hold up nobody.
First(s) ==
  s \in Mergeable /\ \A t \in Mergeable : t < s => ~ConflictsWith(s, t)

FirstEntriesMerge ==
  \A s \in Sessions : First(s) ~> (~First(s) \/ root # "clean" \/ ReportFails)

=============================================================================

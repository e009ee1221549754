------------------------ MODULE HandoffRouting_proofs ------------------------
(***************************************************************************)
(* Proofs about HandoffRouting, for any number of sessions, routers and    *)
(* handoffs and any choice of the limits: routers are well typed,          *)
(* dispatching never forgets a handoff, and a router that is alone passes  *)
(* each handoff on once.                                                   *)
(***************************************************************************)
EXTENDS HandoffRouting, SequenceTheorems, FiniteSetTheorems, TLAPS

(***************************************************************************)
(* Typing.                                                                 *)
(***************************************************************************)

\* What a router has read is there: a lead while it works for one, a target
\* while it sends, and handoffs that exist.
Grounded(r) ==
  /\ r.pc \in {"crowd", "route", "assign", "spawn", "send", "mark"} => r.lead \in Sessions
  /\ r.pc = "send" => r.to \in Sessions
  /\ r.inbox \subseteq DOMAIN mail
  /\ r.pc \in {"assign", "spawn", "send", "mark"} => r.msg \in DOMAIN mail

Typed == TypeOK /\ \A p \in Routers : Grounded(router[p])

\* A step that writes one router's record, and writes it well, and takes no
\* handoff away, keeps everything typed.
LEMMA OneRouterTyped ==
  ASSUME Typed, NEW p \in Routers, NEW r \in Router,
         Moves(p, r),
         life' \in [Sessions -> {"absent", "active", "ended"}],
         mail' \in Seq(Message), DOMAIN mail \subseteq DOMAIN mail',
         Grounded(r)
  PROVE  Typed'
<1>1. TypeOK'
  BY DEF Typed, TypeOK, Moves
<1>2. ASSUME NEW q \in Routers PROVE Grounded(router[q])'
  <2>1. router'[q] = IF q = p THEN r ELSE router[q]
    BY DEF Typed, TypeOK, Moves
  <2>2. Grounded(router[q])
    BY DEF Typed
  <2> QED BY <2>1, <2>2 DEF Grounded
<1> QED BY <1>1, <1>2 DEF Typed

\* The special case of a step that only reads the database.
LEMMA ReadTyped ==
  ASSUME Typed, NEW p \in Routers, NEW r \in Router,
         Moves(p, r),
         UNCHANGED <<life, mail>>, Grounded(r)
  PROVE  Typed'
BY OneRouterTyped DEF Typed, TypeOK

LEMMA IdleTyped ==
  ASSUME NEW pass \in {"dispatch", "rebalance"}, NEW d \in Nat, NEW e \in Nat
  PROVE  Idle(pass, d, e) \in Router /\ Grounded(Idle(pass, d, e))
BY DEF Idle, Router, Grounded

LEMMA TypedInit == RoutingInit => Typed
<1> SUFFICES ASSUME RoutingInit PROVE Typed
  OBVIOUS
<1>1. mail \in Seq(Message)
  <2>1. mail \in Seq([from : Leads, to : Leads, via : {0}, read : {"unread", "seen"}])
    BY RoutingAssumption DEF RoutingInit
  <2>2. [from : Leads, to : Leads, via : {0}, read : {"unread", "seen"}] \subseteq Message
    BY RoutingAssumption DEF Message
  <2> QED BY <2>1, <2>2, SeqMonotonic
<1>2. \A p \in Routers : router[p] \in Router /\ Grounded(router[p])
  BY IdleTyped DEF RoutingInit
<1>3. router \in [Routers -> Router]
  BY <1>2 DEF RoutingInit
<1> QED BY <1>1, <1>2, <1>3 DEF Typed, TypeOK, RoutingInit

LEMMA BeginTyped ==
  ASSUME Typed, NEW p \in Routers, NEW pass \in {"dispatch", "rebalance"},
         BeginPass(p, pass)
  PROVE  Typed'
<1>1. PICK leads \in SUBSET Sessions :
        Moves(p, [Idle(pass, 0, 0) EXCEPT !.pc = "teams", !.leads = leads])
  BY DEF BeginPass, Targets, RecentActive
<1> DEFINE r == [Idle(pass, 0, 0) EXCEPT !.pc = "teams", !.leads = leads]
<1>2. r \in Router /\ Grounded(r)
  BY DEF Idle, Router, Grounded
<1> QED BY <1>1, <1>2, ReadTyped DEF BeginPass

\* The steps that look for work.
LEMMA SearchTyped ==
  ASSUME Typed, NEW p \in Routers,
         \/ EndPass(p) \/ DrainLead(p) \/ RelieveTeam(p) \/ LeaveTeam(p)
         \/ RelieveDelegate(p) \/ LeaveInbox(p) \/ TakeHandoff(p)
  PROVE  Typed'
<1> DEFINE o == router[p]
<1>o. o \in Router /\ Grounded(o)
  BY DEF Typed, TypeOK
<1>1. CASE EndPass(p)
  BY <1>1, <1>o, IdleTyped, ReadTyped DEF EndPass, Router
<1>2. CASE DrainLead(p)
  <2>1. PICK l \in o.leads :
          Moves(p, [o EXCEPT !.pc = "route", !.leads = @ \ {l}, !.lead = l,
                             !.holder = l, !.inbox = Oldest(Backlog(l), PerLead)])
    BY <1>2 DEF DrainLead
  <2>2. Oldest(Backlog(l), PerLead) \subseteq DOMAIN mail
    BY DEF Oldest, Backlog
  <2>3. DOMAIN mail \subseteq Nat
    BY DEF Typed, TypeOK
  <2> DEFINE r == [o EXCEPT !.pc = "route", !.leads = @ \ {l}, !.lead = l,
                            !.holder = l, !.inbox = Oldest(Backlog(l), PerLead)]
  <2>4. r \in Router
    BY <1>o, <2>2, <2>3 DEF Router
  <2>5. Grounded(r)
    BY <1>o, <2>2 DEF Router, Grounded
  <2> QED BY <1>2, <2>1, <2>4, <2>5, ReadTyped DEF DrainLead
<1>3. CASE RelieveTeam(p)
  <2>1. PICK l \in o.leads, crowd \in SUBSET Sessions :
          Moves(p, [o EXCEPT !.pc = "crowd", !.leads = @ \ {l}, !.lead = l,
                             !.crowd = crowd, !.moved = 0])
    BY <1>3 DEF RelieveTeam, Crowded, Team
  <2> DEFINE r == [o EXCEPT !.pc = "crowd", !.leads = @ \ {l}, !.lead = l,
                            !.crowd = crowd, !.moved = 0]
  <2>2. r \in Router
    BY <1>o DEF Router
  <2>3. Grounded(r)
    BY <1>o DEF Router, Grounded
  <2> QED BY <1>3, <2>1, <2>2, <2>3, ReadTyped DEF RelieveTeam
<1>4. CASE LeaveTeam(p)
  <2> DEFINE r == [o EXCEPT !.pc = "teams", !.lead = NoSession, !.crowd = {}, !.moved = 0]
  <2>1. r \in Router /\ Grounded(r)
    BY <1>o DEF Router, Grounded
  <2> QED BY <1>4, <2>1, ReadTyped DEF LeaveTeam
<1>5. CASE RelieveDelegate(p)
  <2>1. PICK d \in o.crowd :
          Moves(p, [o EXCEPT !.pc = "route", !.crowd = @ \ {d}, !.holder = d,
                             !.inbox = Oldest(Backlog(d), PerLead - o.moved)])
    BY <1>5 DEF RelieveDelegate
  <2>2. Oldest(Backlog(d), PerLead - o.moved) \subseteq DOMAIN mail
    BY DEF Oldest, Backlog
  <2>3. DOMAIN mail \subseteq Nat
    BY DEF Typed, TypeOK
  <2> DEFINE r == [o EXCEPT !.pc = "route", !.crowd = @ \ {d}, !.holder = d,
                            !.inbox = Oldest(Backlog(d), PerLead - o.moved)]
  <2>4. r \in Router
    BY <1>o, <2>2, <2>3 DEF Router
  <2>5. Grounded(r)
    BY <1>o, <1>5, <2>2 DEF Router, Grounded, RelieveDelegate, At
  <2> QED BY <1>5, <2>1, <2>4, <2>5, ReadTyped DEF RelieveDelegate
<1>6. CASE LeaveInbox(p)
  <2> DEFINE r == IF o.pass = "dispatch"
                  THEN [o EXCEPT !.pc = "teams", !.lead = NoSession, !.holder = NoSession]
                  ELSE [o EXCEPT !.pc = "crowd", !.holder = NoSession, !.inbox = {}]
  <2>1. r \in Router
    BY <1>o DEF Router
  <2>2. Grounded(r)
    BY <1>o, <1>6 DEF Router, Grounded, LeaveInbox, At
  <2> QED BY <1>6, <2>1, <2>2, ReadTyped DEF LeaveInbox
<1>7. CASE TakeHandoff(p)
  <2>1. PICK i \in o.inbox :
          Moves(p, IF LeavesAlone(p, i)
                   THEN [o EXCEPT !.inbox = @ \ {i}]
                   ELSE [o EXCEPT !.pc = "assign", !.inbox = @ \ {i}, !.msg = i])
    BY <1>7 DEF TakeHandoff
  <2> DEFINE r == IF LeavesAlone(p, i)
                  THEN [o EXCEPT !.inbox = @ \ {i}]
                  ELSE [o EXCEPT !.pc = "assign", !.inbox = @ \ {i}, !.msg = i]
  <2>2. r \in Router
    BY <1>o DEF Router
  <2>3. Grounded(r)
    BY <1>o, <1>7 DEF Router, Grounded, TakeHandoff, At
  <2> QED BY <1>7, <2>1, <2>2, <2>3, ReadTyped DEF TakeHandoff
<1> QED BY <1>1, <1>2, <1>3, <1>4, <1>5, <1>6, <1>7

\* The three ways a statement writes the table of messages.
LEMMA AppendTyped ==
  ASSUME TypeOK, NEW m \in Message, mail' = Append(mail, m)
  PROVE  /\ mail' \in Seq(Message)
         /\ DOMAIN mail' = DOMAIN mail \cup {Len(mail) + 1}
         /\ DOMAIN mail \subseteq DOMAIN mail'
         /\ Len(mail) + 1 \notin DOMAIN mail
         /\ \A i \in DOMAIN mail : mail'[i] = mail[i]
         /\ mail'[Len(mail) + 1] = m
BY DEF TypeOK

LEMMA ReadFlagTyped ==
  ASSUME TypeOK, NEW i \in DOMAIN mail,
         NEW flag \in {"unread", "seen", "routed", "moved"},
         mail' = [mail EXCEPT ![i].read = flag]
  PROVE  /\ mail' \in Seq(Message)
         /\ DOMAIN mail' = DOMAIN mail
         /\ \A j \in DOMAIN mail : mail'[j] = IF j = i THEN [mail[j] EXCEPT !.read = flag]
                                              ELSE mail[j]
<1>1. mail[i] \in Message /\ i \in 1..Len(mail)
  BY DEF TypeOK
<1>2. [mail[i] EXCEPT !.read = flag] \in Message
  BY <1>1 DEF Message
<1>3. mail' = [mail EXCEPT ![i] = [mail[i] EXCEPT !.read = flag]]
  OBVIOUS
<1> QED BY <1>1, <1>2, <1>3 DEF TypeOK

\* The steps of assign.
LEMMA AssignTyped ==
  ASSUME Typed, NEW p \in Routers,
         \/ AssignToNew(p) \/ ReuseActive(p) \/ DeferSaturated(p)
         \/ SpawnDelegate(p) \/ SendHandoff(p)
  PROVE  Typed'
<1> DEFINE o == router[p]
<1>o. o \in Router /\ Grounded(o)
  BY DEF Typed, TypeOK
<1>1. CASE AssignToNew(p)
  <2> DEFINE r == [o EXCEPT !.pc = "spawn"]
  <2>1. r \in Router /\ Grounded(r)
    BY <1>o, <1>1 DEF Router, Grounded, AssignToNew, At
  <2> QED BY <1>1, <2>1, ReadTyped DEF AssignToNew
<1>2. CASE ReuseActive(p)
  <2>1. PICK d \in Sessions : Moves(p, [o EXCEPT !.pc = "send", !.to = d])
    BY <1>2 DEF ReuseActive, Team
  <2> DEFINE r == [o EXCEPT !.pc = "send", !.to = d]
  <2>2. r \in Router /\ Grounded(r)
    BY <1>o, <1>2 DEF Router, Grounded, ReuseActive, At
  <2> QED BY <1>2, <2>1, <2>2, ReadTyped DEF ReuseActive
<1>3. CASE DeferSaturated(p)
  <2> DEFINE r == IF o.pass = "dispatch"
                  THEN [o EXCEPT !.pc = "route", !.msg = 0, !.deferred = @ + 1]
                  ELSE [o EXCEPT !.pc = "mark", !.to = o.lead]
  <2>0. o.pc = "assign" /\ o.lead \in Sessions
    BY <1>o, <1>3 DEF Grounded, DeferSaturated, At
  <2>1. r \in Router
    <3>1. o.deferred + 1 \in Nat
      BY <1>o DEF Router
    <3> QED BY <1>o, <2>0, <3>1 DEF Router
  <2>2. Grounded(r)
    BY <1>o, <2>0 DEF Router, Grounded
  <2> QED BY <1>3, <2>1, <2>2, ReadTyped DEF DeferSaturated
<1>4. CASE SpawnDelegate(p)
  <2>1. PICK s \in Sessions : /\ life' = [life EXCEPT ![s] = "active"]
                              /\ Moves(p, [o EXCEPT !.pc = "send", !.to = s])
    BY <1>4 DEF SpawnDelegate
  <2> DEFINE r == [o EXCEPT !.pc = "send", !.to = s]
  <2>2. r \in Router /\ Grounded(r)
    BY <1>o, <1>4 DEF Router, Grounded, SpawnDelegate, At
  <2>3. life' \in [Sessions -> {"absent", "active", "ended"}]
    BY <2>1 DEF Typed, TypeOK
  <2>4. mail' = mail
    BY <1>4 DEF SpawnDelegate
  <2>5. mail' \in Seq(Message) /\ DOMAIN mail \subseteq DOMAIN mail'
    BY <2>4 DEF Typed, TypeOK
  <2> QED BY <2>1, <2>2, <2>3, <2>5, OneRouterTyped
<1>5. CASE SendHandoff(p)
  <2> DEFINE m == [from |-> o.lead, to |-> o.to, via |-> o.msg, read |-> "unread"]
             r == IF o.pass = "rebalance" /\ o.to = o.holder
                  THEN [o EXCEPT !.pc = "route", !.msg = 0, !.to = NoSession]
                  ELSE [o EXCEPT !.pc = "mark"]
  <2>1. m \in Message
    BY <1>o, <1>5 DEF Router, Grounded, SendHandoff, At, Message
  <2>2. mail' \in Seq(Message) /\ DOMAIN mail \subseteq DOMAIN mail'
    BY <1>5, <2>1, AppendTyped DEF SendHandoff, Typed
  <2>3. r \in Router /\ Grounded(r)
    BY <1>o, <1>5 DEF Router, Grounded, SendHandoff, At
  <2>4. life' \in [Sessions -> {"absent", "active", "ended"}]
    BY <1>5 DEF SendHandoff, Typed, TypeOK
  <2> QED BY <1>5, <2>2, <2>3, <2>4, OneRouterTyped DEF SendHandoff
<1> QED BY <1>1, <1>2, <1>3, <1>4, <1>5

LEMMA MarkTyped ==
  ASSUME Typed, NEW p \in Routers, MarkRead(p)
  PROVE  Typed'
<1> DEFINE o == router[p]
           flag == IF mail[o.msg].read # "unread" THEN mail[o.msg].read
                   ELSE IF o.pass = "dispatch" THEN "routed" ELSE "moved"
           moved == IF o.pass = "dispatch" THEN o.moved ELSE o.moved + 1
           r == [o EXCEPT !.pc = "route", !.msg = 0, !.to = NoSession, !.done = @ + 1,
                          !.moved = moved]
<1>1. o \in Router /\ Grounded(o)
  BY DEF Typed, TypeOK
<1>2. o.msg \in DOMAIN mail
  BY <1>1 DEF Grounded, MarkRead, At
<1>3. flag \in {"unread", "seen", "routed", "moved"}
  <2>1. mail[o.msg] \in Message
    BY <1>2 DEF Typed, TypeOK
  <2>2. mail[o.msg].read \in {"unread", "seen", "routed", "moved"}
    BY <2>1 DEF Message
  <2> QED BY <2>2
<1>4. mail' = [mail EXCEPT ![o.msg].read = flag]
  BY DEF MarkRead
<1>5. mail' \in Seq(Message) /\ DOMAIN mail' = DOMAIN mail
  BY <1>2, <1>3, <1>4, ReadFlagTyped DEF Typed
<1>6. r \in Router
  <2>1. moved \in Nat /\ o.done + 1 \in Nat
    BY <1>1 DEF Router
  <2> HIDE DEF moved
  <2> QED BY <1>1, <2>1 DEF Router
<1>7. Grounded(r)
  <2>1. o.lead \in Sessions
    BY <1>1 DEF Grounded, MarkRead, At
  <2> HIDE DEF moved
  <2> QED BY <1>1, <2>1 DEF Router, Grounded
<1>8. Moves(p, r) /\ life' \in [Sessions -> {"absent", "active", "ended"}]
  BY DEF MarkRead, Typed, TypeOK
<1> QED BY <1>5, <1>6, <1>7, <1>8, OneRouterTyped

LEMMA GiveUpTyped ==
  ASSUME Typed, NEW p \in Routers, GiveUp(p)
  PROVE  Typed'
BY IdleTyped, ReadTyped DEF GiveUp

\* What others do to the tables leaves routers as they are.
LEMMA OthersTyped ==
  ASSUME Typed,
         UNCHANGED router,
         life' \in [Sessions -> {"absent", "active", "ended"}],
         mail' \in Seq(Message), DOMAIN mail \subseteq DOMAIN mail'
  PROVE  Typed'
<1>1. ASSUME NEW q \in Routers PROVE Grounded(router[q])'
  BY DEF Typed, Grounded
<1> QED BY <1>1 DEF Typed, TypeOK

LEMMA SeenChanges ==
  ASSUME TypeOK, NEW s \in Sessions, Seen(s)
  PROVE  /\ mail' \in Seq(Message)
         /\ DOMAIN mail' = DOMAIN mail
         /\ \A i \in DOMAIN mail :
              mail'[i] = mail[i] \/ mail'[i] = [mail[i] EXCEPT !.read = "seen"]
<1> DEFINE m(i) == IF i \in Backlog(s) THEN [mail[i] EXCEPT !.read = "seen"] ELSE mail[i]
<1>1. mail' = [i \in DOMAIN mail |-> m(i)]
  BY DEF Seen
<1>2. ASSUME NEW i \in DOMAIN mail PROVE m(i) \in Message
  <2>1. mail[i] \in Message
    BY DEF TypeOK
  <2>2. [mail[i] EXCEPT !.read = "seen"] \in Message
    BY <2>1 DEF Message
  <2> QED BY <2>1, <2>2
<1>3. DOMAIN mail = 1..Len(mail) /\ Len(mail) \in Nat
  BY DEF TypeOK
<1>4. mail' \in [1..Len(mail) -> Message]
  BY <1>1, <1>2, <1>3
<1>5. mail' \in Seq(Message)
  BY <1>3, <1>4, SeqDef
<1> QED BY <1>1, <1>5

LEMMA OthersStepTyped == Typed /\ Others => Typed'
<1> SUFFICES ASSUME Typed, Others PROVE Typed'
  OBVIOUS
<1> USE DEF Typed
<1>1. ASSUME NEW f \in Sessions, NEW t \in Sessions, UserSends(f, t) PROVE Typed'
  <2>1. [from |-> f, to |-> t, via |-> 0, read |-> "unread"] \in Message
    BY DEF Message
  <2>2. mail' \in Seq(Message) /\ DOMAIN mail \subseteq DOMAIN mail'
    BY <1>1, <2>1, AppendTyped DEF UserSends
  <2> QED BY <1>1, <2>2, OthersTyped DEF UserSends, TypeOK
<1>2. ASSUME NEW s \in Sessions, Seen(s) PROVE Typed'
  BY <1>2, SeenChanges, OthersTyped DEF Seen, TypeOK
<1>3. ASSUME NEW s \in Sessions, SessionEnds(s) \/ SessionResumes(s) PROVE Typed'
  <2>1. life' \in [Sessions -> {"absent", "active", "ended"}] /\ UNCHANGED <<mail, router>>
    BY <1>3 DEF SessionEnds, SessionResumes, TypeOK
  <2> QED BY <2>1, OthersTyped DEF TypeOK
<1> QED BY <1>1, <1>2, <1>3 DEF Others

\* The steps of routers that may begin any pass, whatever Passes leaves out.
AnyStep ==
  \/ \E p \in Routers :
       \/ \E pass \in {"dispatch", "rebalance"} : BeginPass(p, pass)
       \/ RouterStep(p)
       \/ GiveUp(p)
  \/ Others

LEMMA NextIsAnyStep == [RoutingNext]_routingVars => [AnyStep]_routingVars
BY RoutingAssumption DEF RoutingNext, AnyStep

LEMMA StepTyped == Typed /\ [AnyStep]_routingVars => Typed'
<1> SUFFICES ASSUME Typed, [AnyStep]_routingVars PROVE Typed'
  OBVIOUS
<1>1. ASSUME NEW p \in Routers, NEW pass \in {"dispatch", "rebalance"}, BeginPass(p, pass)
      PROVE  Typed'
  BY <1>1, BeginTyped
<1>2. ASSUME NEW p \in Routers, RouterStep(p) PROVE Typed'
  BY <1>2, SearchTyped, AssignTyped, MarkTyped DEF RouterStep
<1>3. ASSUME NEW p \in Routers, GiveUp(p) PROVE Typed'
  BY <1>3, GiveUpTyped
<1>4. CASE Others
  BY <1>4, OthersStepTyped
<1>5. CASE UNCHANGED routingVars
  BY <1>5 DEF routingVars, Typed, TypeOK, Grounded
<1> QED BY <1>1, <1>2, <1>3, <1>4, <1>5 DEF AnyStep

LEMMA AlwaysTyped == RoutingSpec => []Typed
BY TypedInit, StepTyped, NextIsAnyStep, PTL DEF RoutingSpec

\* Every variable of the routers keeps its type, however many of them run passes
\* and wherever they stop.
THEOREM RoutingTypeCorrect == RoutingSpec => []TypeOK
<1>1. Typed => TypeOK BY DEF Typed
<1> QED BY <1>1, AlwaysTyped, PTL

(***************************************************************************)
(* Dispatching.  DispatchLosesNothing is not inductive: what is missing is *)
(* that a router about to mark a handoff has sent it.                      *)
(***************************************************************************)

SentBy(p) ==
  router[p].pc = "mark" /\ router[p].pass = "dispatch" => SuccessorsOf(router[p].msg) # {}

SentBeforeMark == \A p \in Routers : SentBy(p)

DispatchInv == DispatchLosesNothing /\ SentBeforeMark

\* No step takes a handoff's successors away.
MailGrows ==
  /\ DOMAIN mail \subseteq DOMAIN mail'
  /\ \A i \in DOMAIN mail : mail'[i].via = mail[i].via

LEMMA SuccessorsKept ==
  ASSUME MailGrows, NEW i
  PROVE  SuccessorsOf(i) \subseteq SuccessorsOf(i)'
BY DEF MailGrows, SuccessorsOf

\* No statement but MarkRead writes the flag that dispatching writes.
LEMMA UnmarkedKept ==
  ASSUME DispatchLosesNothing, MailGrows,
         \A i \in DOMAIN mail' : mail'[i].read = "routed"
                                   => i \in DOMAIN mail /\ mail[i].read = "routed"
  PROVE  DispatchLosesNothing'
BY SuccessorsKept DEF DispatchLosesNothing

\* Nor what another router has sent.
LEMMA SentKept ==
  ASSUME SentBeforeMark, MailGrows, NEW q \in Routers, router'[q] = router[q]
  PROVE  SentBy(q)'
<1>1. SuccessorsOf(router[q].msg) \subseteq SuccessorsOf(router[q].msg)'
  <2> DEFINE i == router[q].msg
  <2>1. \A j \in DOMAIN mail : mail[j].via = i => j \in DOMAIN mail' /\ mail'[j].via = i
    BY DEF MailGrows
  <2>2. (SuccessorsOf(router[q].msg))' = {j \in DOMAIN mail' : mail'[j].via = i}
    BY DEF SuccessorsOf
  <2> QED BY <2>1, <2>2 DEF SuccessorsOf
<1> QED BY <1>1 DEF SentBeforeMark, SentBy

LEMMA OneRouterMoves ==
  ASSUME Typed, NEW p \in Routers, NEW r, Moves(p, r)
  PROVE  router'[p] = r /\ \A q \in Routers \ {p} : router'[q] = router[q]
BY DEF Typed, TypeOK, Moves

\* A router that only reads, or spawns, does not come to mark a dispatch.
Quiet(p) ==
  /\ UNCHANGED mail
  /\ ~(router'[p].pc = "mark" /\ router'[p].pass = "dispatch")
  /\ \A q \in Routers \ {p} : router'[q] = router[q]

LEMMA MovesQuietly ==
  ASSUME Typed, NEW p \in Routers, NEW r, Moves(p, r), UNCHANGED mail,
         ~(r.pc = "mark" /\ r.pass = "dispatch")
  PROVE  Quiet(p)
BY OneRouterMoves DEF Quiet

LEMMA ReadersQuiet ==
  ASSUME Typed, NEW p \in Routers,
         \/ \E pass \in {"dispatch", "rebalance"} : BeginPass(p, pass)
         \/ EndPass(p) \/ DrainLead(p) \/ RelieveTeam(p) \/ LeaveTeam(p)
         \/ RelieveDelegate(p) \/ LeaveInbox(p) \/ TakeHandoff(p)
         \/ AssignToNew(p) \/ ReuseActive(p) \/ DeferSaturated(p)
         \/ SpawnDelegate(p) \/ GiveUp(p)
  PROVE  Quiet(p)
<1> DEFINE o == router[p]
<1>o. o \in Router
  BY DEF Typed, TypeOK
<1>1. ASSUME NEW pass \in {"dispatch", "rebalance"}, BeginPass(p, pass) PROVE Quiet(p)
  <2>1. PICK leads : Moves(p, [Idle(pass, 0, 0) EXCEPT !.pc = "teams", !.leads = leads])
    BY <1>1 DEF BeginPass
  <2>2. [Idle(pass, 0, 0) EXCEPT !.pc = "teams", !.leads = leads].pc = "teams"
    BY DEF Idle
  <2> QED BY <1>1, MovesQuietly, <2>1, <2>2 DEF BeginPass
<1>2. CASE EndPass(p)
  <2>1. Idle(o.pass, o.done, o.deferred).pc = "idle"
    BY DEF Idle
  <2> QED BY <1>2, MovesQuietly, <2>1 DEF EndPass
<1>3. CASE DrainLead(p)
  <2>1. PICK l \in o.leads :
          Moves(p, [o EXCEPT !.pc = "route", !.leads = @ \ {l}, !.lead = l,
                             !.holder = l, !.inbox = Oldest(Backlog(l), PerLead)])
    BY <1>3 DEF DrainLead
  <2>2. [o EXCEPT !.pc = "route", !.leads = @ \ {l}, !.lead = l,
                  !.holder = l, !.inbox = Oldest(Backlog(l), PerLead)].pc = "route"
    BY <1>o DEF Router
  <2> QED BY <1>3, MovesQuietly, <2>1, <2>2 DEF DrainLead
<1>4. CASE RelieveTeam(p)
  <2>1. PICK l \in o.leads, crowd \in SUBSET Sessions :
          Moves(p, [o EXCEPT !.pc = "crowd", !.leads = @ \ {l}, !.lead = l,
                             !.crowd = crowd, !.moved = 0])
    BY <1>4 DEF RelieveTeam, Crowded, Team
  <2>2. [o EXCEPT !.pc = "crowd", !.leads = @ \ {l}, !.lead = l,
                  !.crowd = crowd, !.moved = 0].pc = "crowd"
    BY <1>o DEF Router
  <2> QED BY <1>4, MovesQuietly, <2>1, <2>2 DEF RelieveTeam
<1>5. CASE LeaveTeam(p)
  <2> DEFINE r == [o EXCEPT !.pc = "teams", !.lead = NoSession, !.crowd = {}, !.moved = 0]
  <2>1. r.pc = "teams"
    BY <1>o DEF Router
  <2> QED BY <1>5, MovesQuietly, <2>1 DEF LeaveTeam
<1>6. CASE RelieveDelegate(p)
  <2>1. PICK d \in o.crowd :
          Moves(p, [o EXCEPT !.pc = "route", !.crowd = @ \ {d}, !.holder = d,
                             !.inbox = Oldest(Backlog(d), PerLead - o.moved)])
    BY <1>6 DEF RelieveDelegate
  <2>2. [o EXCEPT !.pc = "route", !.crowd = @ \ {d}, !.holder = d,
                  !.inbox = Oldest(Backlog(d), PerLead - o.moved)].pc = "route"
    BY <1>o DEF Router
  <2> QED BY <1>6, MovesQuietly, <2>1, <2>2 DEF RelieveDelegate
<1>7. CASE LeaveInbox(p)
  <2> DEFINE r == IF o.pass = "dispatch"
                  THEN [o EXCEPT !.pc = "teams", !.lead = NoSession, !.holder = NoSession]
                  ELSE [o EXCEPT !.pc = "crowd", !.holder = NoSession, !.inbox = {}]
  <2>1. r.pc \in {"teams", "crowd"}
    BY <1>o DEF Router
  <2> QED BY <1>7, MovesQuietly, <2>1 DEF LeaveInbox
<1>8. CASE TakeHandoff(p)
  <2>1. PICK i \in o.inbox :
          Moves(p, IF LeavesAlone(p, i)
                   THEN [o EXCEPT !.inbox = @ \ {i}]
                   ELSE [o EXCEPT !.pc = "assign", !.inbox = @ \ {i}, !.msg = i])
    BY <1>8 DEF TakeHandoff
  <2> DEFINE r == IF LeavesAlone(p, i)
                  THEN [o EXCEPT !.inbox = @ \ {i}]
                  ELSE [o EXCEPT !.pc = "assign", !.inbox = @ \ {i}, !.msg = i]
  <2>2. r.pc \in {"route", "assign"}
    BY <1>o, <1>8 DEF Router, TakeHandoff, At
  <2> QED BY <1>8, MovesQuietly, <2>1, <2>2 DEF TakeHandoff
<1>9. CASE AssignToNew(p)
  <2>1. [o EXCEPT !.pc = "spawn"].pc = "spawn"
    BY <1>o DEF Router
  <2> QED BY <1>9, MovesQuietly, <2>1 DEF AssignToNew
<1>10. CASE ReuseActive(p)
  <2>1. PICK d : Moves(p, [o EXCEPT !.pc = "send", !.to = d])
    BY <1>10 DEF ReuseActive
  <2>2. [o EXCEPT !.pc = "send", !.to = d].pc = "send"
    BY <1>o DEF Router
  <2> QED BY <1>10, MovesQuietly, <2>1, <2>2 DEF ReuseActive
<1>11. CASE DeferSaturated(p)
  <2> DEFINE r == IF o.pass = "dispatch"
                  THEN [o EXCEPT !.pc = "route", !.msg = 0, !.deferred = @ + 1]
                  ELSE [o EXCEPT !.pc = "mark", !.to = o.lead]
  <2>1. r.pc = "route" \/ r.pass # "dispatch"
    BY <1>o DEF Router
  <2> QED BY <1>11, MovesQuietly, <2>1 DEF DeferSaturated
<1>12. CASE SpawnDelegate(p)
  <2>1. PICK s : Moves(p, [o EXCEPT !.pc = "send", !.to = s])
    BY <1>12 DEF SpawnDelegate
  <2>2. [o EXCEPT !.pc = "send", !.to = s].pc = "send"
    BY <1>o DEF Router
  <2> QED BY <1>12, MovesQuietly, <2>1, <2>2 DEF SpawnDelegate
<1>13. CASE GiveUp(p)
  <2>1. Idle("dispatch", 0, 0).pc = "idle"
    BY DEF Idle
  <2> QED BY <1>13, MovesQuietly, <2>1 DEF GiveUp
<1> QED BY <1>1, <1>2, <1>3, <1>4, <1>5, <1>6, <1>7, <1>8, <1>9, <1>10, <1>11, <1>12, <1>13

LEMMA ReadersSafe ==
  ASSUME Typed, DispatchInv, NEW p \in Routers,
         \/ \E pass \in {"dispatch", "rebalance"} : BeginPass(p, pass)
         \/ EndPass(p) \/ DrainLead(p) \/ RelieveTeam(p) \/ LeaveTeam(p)
         \/ RelieveDelegate(p) \/ LeaveInbox(p) \/ TakeHandoff(p)
         \/ AssignToNew(p) \/ ReuseActive(p) \/ DeferSaturated(p)
         \/ SpawnDelegate(p) \/ GiveUp(p)
  PROVE  DispatchInv'
<1>1. UNCHANGED mail /\ MailGrows
  BY ReadersQuiet DEF Quiet, MailGrows
<1>2. DispatchLosesNothing'
  BY <1>1, UnmarkedKept DEF DispatchInv
<1>3. SentBy(p)'
  BY ReadersQuiet DEF Quiet, SentBy
<1>4. \A q \in Routers \ {p} : SentBy(q)'
  BY <1>1, ReadersQuiet, SentKept DEF Quiet, DispatchInv
<1> QED BY <1>2, <1>3, <1>4 DEF DispatchInv, SentBeforeMark

LEMMA SendSafe ==
  ASSUME Typed, DispatchInv, NEW p \in Routers, SendHandoff(p)
  PROVE  DispatchInv'
<1> DEFINE o == router[p]
           m == [from |-> o.lead, to |-> o.to, via |-> o.msg, read |-> "unread"]
           r == IF o.pass = "rebalance" /\ o.to = o.holder
                THEN [o EXCEPT !.pc = "route", !.msg = 0, !.to = NoSession]
                ELSE [o EXCEPT !.pc = "mark"]
<1>1. o \in Router /\ m \in Message
  BY DEF Typed, TypeOK, Router, Grounded, SendHandoff, At, Message
<1>2. /\ DOMAIN mail' = DOMAIN mail \cup {Len(mail) + 1}
      /\ \A i \in DOMAIN mail : mail'[i] = mail[i]
      /\ mail'[Len(mail) + 1] = m
  BY <1>1, AppendTyped DEF SendHandoff, Typed
<1>3. MailGrows
  BY <1>2 DEF MailGrows
<1>4. DispatchLosesNothing'
  BY <1>2, <1>3, UnmarkedKept DEF DispatchInv
<1>5. Moves(p, r)
  BY DEF SendHandoff
<1>6. r.pc = "mark" => r.msg = o.msg
  BY <1>1 DEF Router
<1>7. Len(mail) + 1 \in {j \in DOMAIN mail' : mail'[j].via = o.msg}
  BY <1>2
<1>8. SentBy(p)'
  <2>1. router'[p] = r
    BY <1>5, OneRouterMoves
  <2>2. router'[p].pc = "mark" => router'[p].msg = o.msg
    BY <1>6, <2>1
  <2> QED BY <1>7, <2>2 DEF SentBy, SuccessorsOf
<1>9. \A q \in Routers \ {p} : SentBy(q)'
  BY <1>3, <1>5, OneRouterMoves, SentKept DEF DispatchInv
<1> QED BY <1>4, <1>8, <1>9 DEF DispatchInv, SentBeforeMark

LEMMA MarkSafe ==
  ASSUME Typed, DispatchInv, NEW p \in Routers, MarkRead(p)
  PROVE  DispatchInv'
<1> DEFINE o == router[p]
           flag == IF mail[o.msg].read # "unread" THEN mail[o.msg].read
                   ELSE IF o.pass = "dispatch" THEN "routed" ELSE "moved"
           moved == IF o.pass = "dispatch" THEN o.moved ELSE o.moved + 1
           r == [o EXCEPT !.pc = "route", !.msg = 0, !.to = NoSession, !.done = @ + 1,
                          !.moved = moved]
<1>1. o \in Router /\ Grounded(o) /\ o.pc = "mark"
  BY DEF Typed, TypeOK, MarkRead, At
<1>2. o.msg \in DOMAIN mail
  BY <1>1 DEF Grounded
<1>3. mail[o.msg] \in Message
  BY <1>2 DEF Typed, TypeOK
<1>4. flag \in {"unread", "seen", "routed", "moved"}
  BY <1>3 DEF Message
<1>5. mail' = [mail EXCEPT ![o.msg].read = flag]
  BY DEF MarkRead
<1>6. /\ DOMAIN mail' = DOMAIN mail
      /\ \A i \in DOMAIN mail : mail'[i] = IF i = o.msg THEN [mail[i] EXCEPT !.read = flag]
                                           ELSE mail[i]
  <2> HIDE DEF flag
  <2> QED BY <1>2, <1>4, <1>5, ReadFlagTyped DEF Typed
<1>7. \A i \in DOMAIN mail : mail'[i].via = mail[i].via
                             /\ mail'[i].read = IF i = o.msg THEN flag ELSE mail[i].read
  <2> HIDE DEF flag
  <2> SUFFICES ASSUME NEW i \in DOMAIN mail
               PROVE  mail'[i].via = mail[i].via
                      /\ mail'[i].read = IF i = o.msg THEN flag ELSE mail[i].read
    OBVIOUS
  <2>1. mail[i] \in Message
    BY DEF Typed, TypeOK
  <2> QED BY <1>6, <2>1 DEF Message
<1>8. MailGrows
  BY <1>6, <1>7 DEF MailGrows
<1>9. flag = "routed" => SuccessorsOf(o.msg) # {}
  <2>1. CASE mail[o.msg].read = "routed"
    BY <1>2, <2>1 DEF DispatchInv, DispatchLosesNothing
  <2>2. CASE o.pass = "dispatch"
    BY <1>1, <2>2 DEF DispatchInv, SentBeforeMark, SentBy
  <2> QED BY <2>1, <2>2
<1>10. DispatchLosesNothing'
  <2> SUFFICES ASSUME NEW i \in DOMAIN mail', mail'[i].read = "routed"
               PROVE  SuccessorsOf(i)' # {}
    BY DEF DispatchLosesNothing
  <2>1. SuccessorsOf(i) # {}
    BY <1>6, <1>7, <1>9 DEF DispatchInv, DispatchLosesNothing
  <2> QED BY <1>8, <2>1, SuccessorsKept
<1>11. Moves(p, r)
  BY DEF MarkRead
<1>12. r.pc = "route"
  BY <1>1 DEF Router
<1>13. SentBy(p)'
  <2> HIDE DEF r
  <2> QED BY <1>11, <1>12, OneRouterMoves DEF SentBy
<1>14. \A q \in Routers \ {p} : SentBy(q)'
  <2> HIDE DEF r
  <2> QED BY <1>8, <1>11, OneRouterMoves, SentKept DEF DispatchInv
<1> QED BY <1>10, <1>13, <1>14 DEF DispatchInv, SentBeforeMark

LEMMA OthersSafe ==
  ASSUME Typed, DispatchInv, Others
  PROVE  DispatchInv'
<1>1. /\ MailGrows
      /\ \A i \in DOMAIN mail' : mail'[i].read = "routed"
                                   => i \in DOMAIN mail /\ mail[i].read = "routed"
      /\ UNCHANGED router
  <2> USE DEF MailGrows
  <2>1. ASSUME NEW f \in Sessions, NEW t \in Sessions, UserSends(f, t) PROVE <1>1!:
    <3>1. [from |-> f, to |-> t, via |-> 0, read |-> "unread"] \in Message
      BY DEF Message
    <3> QED BY <2>1, <3>1, AppendTyped DEF UserSends, Typed
  <2>2. ASSUME NEW s \in Sessions, Seen(s) PROVE <1>1!:
    <3>1. \A i \in DOMAIN mail : mail[i] \in Message
      BY DEF Typed, TypeOK
    <3>2. \A i \in DOMAIN mail : mail'[i].via = mail[i].via
                                 /\ mail'[i].read \in {mail[i].read, "seen"}
      BY <2>2, <3>1, SeenChanges DEF Typed, Message
    <3>3. DOMAIN mail' = DOMAIN mail
      BY <2>2, SeenChanges DEF Typed
    <3> QED BY <2>2, <3>2, <3>3 DEF Seen
  <2>3. ASSUME NEW s \in Sessions, SessionEnds(s) \/ SessionResumes(s) PROVE <1>1!:
    BY <2>3 DEF SessionEnds, SessionResumes
  <2> QED BY <2>1, <2>2, <2>3 DEF Others
<1>2. DispatchLosesNothing'
  BY <1>1, UnmarkedKept DEF DispatchInv
<1>3. SentBeforeMark'
  BY <1>1, SentKept DEF DispatchInv, SentBeforeMark
<1> QED BY <1>2, <1>3 DEF DispatchInv

LEMMA DispatchInit == RoutingInit => DispatchInv
<1> SUFFICES ASSUME RoutingInit PROVE DispatchInv
  OBVIOUS
<1> DEFINE S == [from : Leads, to : Leads, via : {0}, read : {"unread", "seen"}]
<1>1. mail \in Seq(S)
  BY RoutingAssumption DEF RoutingInit
<1>2. ASSUME NEW i \in DOMAIN mail PROVE mail[i].read # "routed"
  <2> HIDE DEF S
  <2>1. mail[i] \in S
    BY <1>1
  <2>2. mail[i].read \in {"unread", "seen"}
    BY <2>1 DEF S
  <2> QED BY <2>2
<1>3. \A p \in Routers : router[p].pc = "idle"
  BY DEF RoutingInit, Idle
<1> QED BY <1>2, <1>3 DEF DispatchInv, DispatchLosesNothing, SentBeforeMark, SentBy

LEMMA DispatchStep == Typed /\ DispatchInv /\ [AnyStep]_routingVars => DispatchInv'
<1> SUFFICES ASSUME Typed, DispatchInv, [AnyStep]_routingVars PROVE DispatchInv'
  OBVIOUS
<1>1. ASSUME NEW p \in Routers,
             \/ \E pass \in {"dispatch", "rebalance"} : BeginPass(p, pass)
             \/ GiveUp(p)
      PROVE  DispatchInv'
  BY <1>1, ReadersSafe
<1>2. ASSUME NEW p \in Routers, RouterStep(p) PROVE DispatchInv'
  BY <1>2, ReadersSafe, SendSafe, MarkSafe DEF RouterStep
<1>3. CASE Others
  BY <1>3, OthersSafe
<1>4. CASE UNCHANGED routingVars
  BY <1>4 DEF routingVars, DispatchInv, DispatchLosesNothing, SentBeforeMark, SentBy,
              SuccessorsOf
<1> QED BY <1>1, <1>2, <1>3, <1>4 DEF AnyStep

\* DispatchLosesNothing for every instance: any number of routers that dispatch
\* and rebalance at once and die anywhere, any number of handoffs, leads and
\* delegates, with users and dashboards in between.
THEOREM DispatchSafe == RoutingSpec => []DispatchLosesNothing
<1>1. DispatchInv => DispatchLosesNothing
  BY DEF DispatchInv
<1> QED BY <1>1, DispatchInit, DispatchStep, NextIsAnyStep, AlwaysTyped, PTL DEF RoutingSpec

(***************************************************************************)
(* One router.  While a single process routes and does not die, a handoff  *)
(* is passed on once, and rebalancing keeps it in its team.  Neither is    *)
(* inductive: what is missing is what the router has read and still needs. *)
(***************************************************************************)

\* A handoff nobody has passed on or marked, except by looking at it.
Fresh(i) == mail[i].read \in {"unread", "seen"} /\ SuccessorsOf(i) = {}

\* A rebalancing router relieves a session that exists of handoffs that its lead
\* sent to it.  It sends one back to its holder only if it is unread no longer.
Relieves(r) ==
  /\ \A d \in r.crowd : life[d] # "absent"
  /\ r.pc \in {"route", "assign", "spawn", "send", "mark"} =>
       /\ r.holder \in Sessions /\ life[r.holder] # "absent"
       /\ \A i \in r.inbox : mail[i].to = r.holder
  /\ r.pc \in {"assign", "spawn", "send", "mark"} =>
       mail[r.msg].from = r.lead /\ mail[r.msg].to = r.holder
  /\ r.pc = "send" /\ r.to = r.holder => mail[r.msg].read # "unread"
  /\ r.pc = "mark" => \A j \in SuccessorsOf(r.msg) :
       mail[j].from = mail[r.msg].from /\ mail[j].to # mail[r.msg].to

Holds(r) ==
  /\ \A i \in r.inbox : Fresh(i)
  /\ r.pc \in {"assign", "spawn", "send"} => Fresh(r.msg)
  /\ r.pc \in {"assign", "spawn", "send", "mark"} => r.msg \notin r.inbox
  /\ r.pass = "rebalance" => Relieves(r)

\* An unread handoff has been passed on only if it is about to be marked.
UnreadIsNew(r) ==
  \A i \in DOMAIN mail :
    mail[i].read = "unread" /\ SuccessorsOf(i) # {} => r.pc = "mark" /\ i = r.msg

PassesOnKnown == \A j \in DOMAIN mail : mail[j].via <= Len(mail)

OnceInv(p) ==
  /\ PassesOnKnown
  /\ RoutedOnce
  /\ RebalanceStaysInTeam
  /\ UnreadIsNew(router[p])
  /\ Holds(router[p])

LEMMA InitOnce ==
  ASSUME RoutingInit, NEW p \in Routers
  PROVE  OnceInv(p)
<1> DEFINE S == [from : Leads, to : Leads, via : {0}, read : {"unread", "seen"}]
<1>1. mail \in Seq(S)
  BY RoutingAssumption DEF RoutingInit
<1>2. ASSUME NEW i \in DOMAIN mail PROVE mail[i].via = 0 /\ mail[i].read \in {"unread", "seen"}
  <2> HIDE DEF S
  <2>1. mail[i] \in S
    BY <1>1
  <2> QED BY <2>1 DEF S
<1>3. Len(mail) \in Nat /\ DOMAIN mail = 1..Len(mail)
  <2> HIDE DEF S
  <2> QED BY <1>1
<1>4. \A i \in DOMAIN mail : SuccessorsOf(i) = {}
  BY <1>2, <1>3 DEF SuccessorsOf
<1>5. Cardinality({}) = 0
  BY FS_EmptySet
<1>6. /\ router[p].pc = "idle" /\ router[p].pass = "dispatch"
      /\ router[p].inbox = {}
  BY DEF RoutingInit, Idle
<1>7. PassesOnKnown
  BY <1>2, <1>3 DEF PassesOnKnown
<1>8. RoutedOnce /\ RebalanceStaysInTeam /\ UnreadIsNew(router[p])
  BY <1>2, <1>4, <1>5 DEF RoutedOnce, RebalanceStaysInTeam, UnreadIsNew
<1>9. Holds(router[p])
  BY <1>6 DEF Holds
<1> QED BY <1>7, <1>8, <1>9 DEF OnceInv

\* Nobody's row goes away.
RowsStay == \A s \in Sessions : life[s] # "absent" => life'[s] # "absent"

\* What a router holds is still so when others leave its handoffs alone but for
\* looking at them.
LEMMA HoldsOn ==
  ASSUME Typed, NEW r \in Router, Grounded(r), Holds(r), RowsStay,
         DOMAIN mail \subseteq DOMAIN mail',
         \A i \in DOMAIN mail : /\ mail'[i].from = mail[i].from
                                /\ mail'[i].to = mail[i].to
                                /\ mail'[i].read \in {mail[i].read, "seen"}
                                /\ SuccessorsOf(i)' = SuccessorsOf(i),
         \A i \in DOMAIN mail : SuccessorsOf(i) \subseteq DOMAIN mail
  PROVE  Holds(r)'
<1>1. r.inbox \subseteq DOMAIN mail /\ r.crowd \subseteq Sessions
  BY DEF Grounded, Router
<1>2. \A i \in DOMAIN mail : Fresh(i) => Fresh(i)'
  BY DEF Fresh
<1>3. r.pc \in {"assign", "spawn", "send", "mark"} => r.msg \in DOMAIN mail
  BY DEF Grounded
<1>4. Relieves(r) => Relieves(r)'
  <2> SUFFICES ASSUME Relieves(r) PROVE Relieves(r)'
    OBVIOUS
  <2>1. \A d \in r.crowd : life'[d] # "absent"
    BY <1>1 DEF Relieves, RowsStay
  <2>2. r.pc \in {"route", "assign", "spawn", "send", "mark"} =>
          /\ r.holder \in Sessions /\ life'[r.holder] # "absent"
          /\ \A i \in r.inbox : mail'[i].to = r.holder
    BY <1>1 DEF Relieves, RowsStay
  <2>3. r.pc \in {"assign", "spawn", "send", "mark"} =>
          mail'[r.msg].from = r.lead /\ mail'[r.msg].to = r.holder
    BY <1>3 DEF Relieves
  <2>4. r.pc = "send" /\ r.to = r.holder => mail'[r.msg].read # "unread"
    BY <1>3 DEF Relieves
  <2>5. ASSUME r.pc = "mark"
        PROVE  \A j \in SuccessorsOf(r.msg)' :
                 mail'[j].from = mail'[r.msg].from /\ mail'[j].to # mail'[r.msg].to
    <3>1. SuccessorsOf(r.msg)' = SuccessorsOf(r.msg) /\ SuccessorsOf(r.msg) \subseteq DOMAIN mail
      BY <1>3, <2>5
    <3> QED BY <1>3, <2>5, <3>1 DEF Relieves
  <2> QED BY <2>1, <2>2, <2>3, <2>4, <2>5 DEF Relieves
<1> QED BY <1>1, <1>2, <1>3, <1>4 DEF Holds

\* A step of the router that writes no message, and not the one after mark.
LEMMA ReadOnce ==
  ASSUME Typed, NEW p \in Routers, OnceInv(p), NEW r \in Router, Grounded(r), Holds(r),
         Moves(p, r), UNCHANGED mail, RowsStay, router[p].pc # "mark"
  PROVE  OnceInv(p)'
<1>1. router'[p] = r
  BY DEF Typed, TypeOK, Moves
<1>2. \A i \in DOMAIN mail : SuccessorsOf(i)' = SuccessorsOf(i)
                             /\ SuccessorsOf(i) \subseteq DOMAIN mail
  BY DEF SuccessorsOf
<1>3. Holds(r)'
  BY <1>2, HoldsOn
<1>4. Holds(router[p])'
  BY <1>1, <1>3 DEF Holds, Fresh, Relieves, SuccessorsOf
<1>5. UnreadIsNew(router[p])'
  BY <1>1, <1>2 DEF OnceInv, UnreadIsNew
<1>6. PassesOnKnown' /\ RoutedOnce' /\ RebalanceStaysInTeam'
  BY <1>2 DEF OnceInv, PassesOnKnown, RoutedOnce, RebalanceStaysInTeam
<1> QED BY <1>4, <1>5, <1>6 DEF OnceInv

\* An inbox is listed when nothing is about to be marked: what is unread is fresh.
LEMMA ListedIsFresh ==
  ASSUME NEW p \in Routers, OnceInv(p), router[p].pc # "mark",
         NEW s \in Sessions, NEW n, NEW i \in Oldest(Backlog(s), n)
  PROVE  Fresh(i) /\ mail[i].to = s
BY DEF OnceInv, UnreadIsNew, Fresh, Oldest, Backlog

\* The steps that look for work.
LEMMA SearchOnce ==
  ASSUME Typed, NEW p \in Routers, OnceInv(p),
         \/ \E pass \in {"dispatch", "rebalance"} : BeginPass(p, pass)
         \/ EndPass(p) \/ DrainLead(p) \/ RelieveTeam(p) \/ LeaveTeam(p)
         \/ RelieveDelegate(p) \/ LeaveInbox(p) \/ TakeHandoff(p)
  PROVE  OnceInv(p)'
<1> DEFINE o == router[p]
<1>o. o \in Router /\ Grounded(o) /\ Holds(o)
  BY DEF Typed, TypeOK, OnceInv
<1>n. \A i : i \in DOMAIN mail => i \in Nat
  BY DEF Typed, TypeOK
<1>a. ASSUME NEW r \in Router, Grounded(r), Holds(r), Moves(p, r), UNCHANGED <<life, mail>>,
             o.pc # "mark"
      PROVE  OnceInv(p)'
  BY <1>a, ReadOnce DEF RowsStay
<1>1. ASSUME NEW pass \in {"dispatch", "rebalance"}, BeginPass(p, pass) PROVE OnceInv(p)'
  <2>1. PICK leads \in SUBSET Sessions :
          Moves(p, [Idle(pass, 0, 0) EXCEPT !.pc = "teams", !.leads = leads])
    BY <1>1 DEF BeginPass, Targets, RecentActive
  <2> DEFINE r == [Idle(pass, 0, 0) EXCEPT !.pc = "teams", !.leads = leads]
  <2>2. r \in Router /\ Grounded(r)
    BY DEF Idle, Router, Grounded
  <2>3. Holds(r)
    BY DEF Idle, Holds, Relieves
  <2> QED BY <1>1, <1>a, <2>1, <2>2, <2>3 DEF BeginPass, At
<1>2. CASE EndPass(p)
  <2> DEFINE r == Idle(o.pass, o.done, o.deferred)
  <2>1. r \in Router /\ Grounded(r)
    BY <1>o, IdleTyped DEF Router
  <2>2. Holds(r)
    BY DEF Idle, Holds, Relieves
  <2> QED BY <1>2, <1>a, <2>1, <2>2 DEF EndPass, At
<1>3. CASE DrainLead(p)
  <2>1. PICK l \in o.leads :
          Moves(p, [o EXCEPT !.pc = "route", !.leads = @ \ {l}, !.lead = l,
                             !.holder = l, !.inbox = Oldest(Backlog(l), PerLead)])
    BY <1>3 DEF DrainLead
  <2>2. l \in Sessions
    BY <1>o DEF Router
  <2>3. Oldest(Backlog(l), PerLead) \subseteq DOMAIN mail
    BY DEF Oldest, Backlog
  <2>4. \A i \in Oldest(Backlog(l), PerLead) : Fresh(i)
    BY <1>3, <2>2, ListedIsFresh DEF DrainLead, At
  <2> DEFINE r == [o EXCEPT !.pc = "route", !.leads = @ \ {l}, !.lead = l,
                            !.holder = l, !.inbox = Oldest(Backlog(l), PerLead)]
  <2>5. r \in Router
    BY <1>o, <1>n, <2>3 DEF Router
  <2>6. Grounded(r)
    BY <1>o, <2>3 DEF Router, Grounded
  <2>7. Holds(r)
    BY <1>o, <1>3, <2>4 DEF Router, Holds, DrainLead
  <2> HIDE DEF r
  <2> QED BY <1>3, <1>a, <2>1, <2>5, <2>6, <2>7 DEF DrainLead, At, r
<1>4. CASE RelieveTeam(p)
  <2>1. PICK l \in o.leads :
          Moves(p, [o EXCEPT !.pc = "crowd", !.leads = @ \ {l}, !.lead = l, !.moved = 0,
                             !.crowd = IF HasRoom(l) THEN Crowded(l) ELSE {}])
    BY <1>4 DEF RelieveTeam
  <2> DEFINE crowd == IF HasRoom(l) THEN Crowded(l) ELSE {}
             r == [o EXCEPT !.pc = "crowd", !.leads = @ \ {l}, !.lead = l, !.moved = 0,
                            !.crowd = crowd]
  <2>2. crowd \in SUBSET Sessions /\ \A d \in crowd : life[d] = "active"
    BY DEF Crowded, Team
  <2>3. Moves(p, r)
    BY <2>1
  <2> HIDE DEF crowd
  <2>4. r \in Router
    BY <1>o, <2>2 DEF Router
  <2>5. Grounded(r)
    BY <1>o DEF Router, Grounded
  <2>6. Holds(r)
    BY <1>o, <2>2 DEF Router, Holds, Relieves
  <2> HIDE DEF r
  <2> QED BY <1>4, <1>a, <2>3, <2>4, <2>5, <2>6 DEF RelieveTeam, At
<1>5. CASE LeaveTeam(p)
  <2> DEFINE r == [o EXCEPT !.pc = "teams", !.lead = NoSession, !.crowd = {}, !.moved = 0]
  <2>1. r \in Router /\ Grounded(r)
    BY <1>o DEF Router, Grounded
  <2>2. Holds(r)
    BY <1>o DEF Router, Holds, Relieves
  <2> QED BY <1>5, <1>a, <2>1, <2>2 DEF LeaveTeam, At
<1>6. CASE RelieveDelegate(p)
  <2>1. PICK d \in o.crowd :
          Moves(p, [o EXCEPT !.pc = "route", !.crowd = @ \ {d}, !.holder = d,
                             !.inbox = Oldest(Backlog(d), PerLead - o.moved)])
    BY <1>6 DEF RelieveDelegate
  <2>2. d \in Sessions
    BY <1>o DEF Router
  <2>3. Oldest(Backlog(d), PerLead - o.moved) \subseteq DOMAIN mail
    BY DEF Oldest, Backlog
  <2>4. \A i \in Oldest(Backlog(d), PerLead - o.moved) : Fresh(i) /\ mail[i].to = d
    BY <1>6, <2>2, ListedIsFresh DEF RelieveDelegate, At
  <2> DEFINE r == [o EXCEPT !.pc = "route", !.crowd = @ \ {d}, !.holder = d,
                            !.inbox = Oldest(Backlog(d), PerLead - o.moved)]
  <2>5. r \in Router
    BY <1>o, <1>n, <2>3 DEF Router
  <2>6. Grounded(r)
    BY <1>o, <1>6, <2>3 DEF Router, Grounded, RelieveDelegate, At
  <2>7. Holds(r)
    BY <1>o, <2>2, <2>4 DEF Router, Holds, Relieves
  <2> HIDE DEF r
  <2> QED BY <1>6, <1>a, <2>1, <2>5, <2>6, <2>7 DEF RelieveDelegate, At, r
<1>7. CASE LeaveInbox(p)
  <2> DEFINE r == IF o.pass = "dispatch"
                  THEN [o EXCEPT !.pc = "teams", !.lead = NoSession, !.holder = NoSession]
                  ELSE [o EXCEPT !.pc = "crowd", !.holder = NoSession, !.inbox = {}]
  <2>1. r \in Router
    BY <1>o DEF Router
  <2>2. Grounded(r)
    BY <1>o, <1>7 DEF Router, Grounded, LeaveInbox, At
  <2>3. Holds(r)
    <3>1. CASE o.pass = "dispatch"
      BY <1>o, <3>1 DEF Router, Holds
    <3>2. CASE o.pass # "dispatch"
      BY <1>o, <3>2 DEF Router, Holds, Relieves
    <3> QED BY <3>1, <3>2
  <2> QED BY <1>7, <1>a, <2>1, <2>2, <2>3 DEF LeaveInbox, At
<1>8. CASE TakeHandoff(p)
  <2>1. PICK i \in o.inbox :
          Moves(p, IF LeavesAlone(p, i)
                   THEN [o EXCEPT !.inbox = @ \ {i}]
                   ELSE [o EXCEPT !.pc = "assign", !.inbox = @ \ {i}, !.msg = i])
    BY <1>8 DEF TakeHandoff
  <2> DEFINE r == IF LeavesAlone(p, i)
                  THEN [o EXCEPT !.inbox = @ \ {i}]
                  ELSE [o EXCEPT !.pc = "assign", !.inbox = @ \ {i}, !.msg = i]
  <2>2. r \in Router
    BY <1>o DEF Router
  <2>3. Grounded(r)
    BY <1>o, <1>8 DEF Router, Grounded, TakeHandoff, At
  <2>4. o.pc = "route"
    BY <1>8 DEF TakeHandoff, At
  <2>5. Holds(r)
    <3>1. CASE LeavesAlone(p, i)
      <4>1. r = [o EXCEPT !.inbox = @ \ {i}]
        BY <3>1
      <4> HIDE DEF r
      <4> QED BY <1>o, <2>4, <4>1 DEF Router, Holds, Relieves
    <3>2. CASE ~LeavesAlone(p, i)
      <4>1. r = [o EXCEPT !.pc = "assign", !.inbox = @ \ {i}, !.msg = i]
        BY <3>2
      <4>2. o.pass = "rebalance" => mail[i].from = o.lead
        BY <3>2 DEF LeavesAlone
      <4> HIDE DEF r
      <4> QED BY <1>o, <2>4, <4>1, <4>2 DEF Router, Holds, Relieves
    <3> QED BY <3>1, <3>2
  <2> HIDE DEF r
  <2> QED BY <1>8, <1>a, <2>1, <2>2, <2>3, <2>4, <2>5 DEF TakeHandoff, r
<1> QED BY <1>1, <1>2, <1>3, <1>4, <1>5, <1>6, <1>7, <1>8

\* The steps of assign up to the send.
LEMMA AssignOnce ==
  ASSUME Typed, NEW p \in Routers, OnceInv(p),
         AssignToNew(p) \/ ReuseActive(p) \/ DeferSaturated(p) \/ SpawnDelegate(p)
  PROVE  OnceInv(p)'
<1> DEFINE o == router[p]
<1>o. o \in Router /\ Grounded(o) /\ Holds(o)
  BY DEF Typed, TypeOK, OnceInv
<1>a. ASSUME NEW r \in Router, Grounded(r), Holds(r), Moves(p, r), UNCHANGED <<life, mail>>,
             o.pc # "mark"
      PROVE  OnceInv(p)'
  BY <1>a, ReadOnce DEF RowsStay
<1>1. CASE AssignToNew(p)
  <2> DEFINE r == [o EXCEPT !.pc = "spawn"]
  <2>0. o.pc = "assign"
    BY <1>1 DEF AssignToNew, At
  <2>1. r \in Router /\ Grounded(r)
    BY <1>o, <2>0 DEF Router, Grounded
  <2>2. Holds(r)
    BY <1>o, <2>0 DEF Router, Holds, Relieves
  <2> QED BY <1>1, <1>a, <2>0, <2>1, <2>2 DEF AssignToNew
<1>2. CASE ReuseActive(p)
  <2>0. o.pc = "assign"
    BY <1>2 DEF ReuseActive, At
  <2>1. PICK d \in Sessions :
          Moves(p, [o EXCEPT !.pc = "send", !.to = d]) /\ Backlog(d) = {}
    BY <1>2 DEF ReuseActive, Team
  <2> DEFINE r == [o EXCEPT !.pc = "send", !.to = d]
  <2>2. r \in Router /\ Grounded(r)
    BY <1>o, <2>0 DEF Router, Grounded
  <2>3. o.msg \in DOMAIN mail
    BY <1>o, <2>0 DEF Grounded
  <2>4. mail[o.msg].to = d => mail[o.msg].read # "unread"
    BY <2>1, <2>3 DEF Backlog
  <2>5. Holds(r)
    BY <1>o, <2>0, <2>4 DEF Router, Holds, Relieves
  <2> QED BY <1>2, <1>a, <2>0, <2>1, <2>2, <2>5 DEF ReuseActive
<1>3. CASE DeferSaturated(p)
  <2> DEFINE r == IF o.pass = "dispatch"
                  THEN [o EXCEPT !.pc = "route", !.msg = 0, !.deferred = @ + 1]
                  ELSE [o EXCEPT !.pc = "mark", !.to = o.lead]
  <2>0. o.pc = "assign"
    BY <1>3 DEF DeferSaturated, At
  <2>1. r \in Router
    <3>1. o.lead \in Sessions /\ o.deferred + 1 \in Nat
      BY <1>o, <2>0 DEF Router, Grounded
    <3> QED BY <1>o, <3>1 DEF Router
  <2>2. Grounded(r)
    BY <1>o, <2>0 DEF Router, Grounded
  <2>3. Holds(r)
    <3>1. CASE o.pass = "dispatch"
      BY <1>o, <2>0, <3>1 DEF Router, Holds
    <3>2. CASE o.pass # "dispatch"
      <4>1. r = [o EXCEPT !.pc = "mark", !.to = o.lead]
        BY <3>2
      <4>2. SuccessorsOf(o.msg) = {}
        BY <1>o, <2>0 DEF Holds, Fresh
      <4> HIDE DEF r
      <4> QED BY <1>o, <2>0, <4>1, <4>2 DEF Router, Holds, Relieves
    <3> QED BY <3>1, <3>2
  <2> QED BY <1>3, <1>a, <2>0, <2>1, <2>2, <2>3 DEF DeferSaturated
<1>4. CASE SpawnDelegate(p)
  <2>0. o.pc = "spawn"
    BY <1>4 DEF SpawnDelegate, At
  <2>1. PICK s \in Sessions : /\ life[s] = "absent"
                              /\ life' = [life EXCEPT ![s] = "active"]
                              /\ Moves(p, [o EXCEPT !.pc = "send", !.to = s])
    BY <1>4 DEF SpawnDelegate
  <2> DEFINE r == [o EXCEPT !.pc = "send", !.to = s]
  <2>2. r \in Router /\ Grounded(r)
    BY <1>o, <2>0 DEF Router, Grounded
  <2>3. Holds(r)
    BY <1>o, <2>0, <2>1 DEF Router, Holds, Relieves
  <2>4. RowsStay
    BY <2>1 DEF RowsStay, Typed, TypeOK
  <2> QED BY <1>4, <2>0, <2>1, <2>2, <2>3, <2>4, ReadOnce DEF SpawnDelegate
<1> QED BY <1>1, <1>2, <1>3, <1>4

\* Without crashes a pass is given up before the handoff is sent.
LEMMA GiveUpOnce ==
  ASSUME ~MayCrash, Typed, NEW p \in Routers, OnceInv(p), GiveUp(p)
  PROVE  OnceInv(p)'
<1> DEFINE r == Idle("dispatch", 0, 0)
<1>1. r \in Router /\ Grounded(r)
  BY IdleTyped
<1>2. Holds(r)
  BY DEF Idle, Holds
<1>3. router[p].pc # "mark" /\ Moves(p, r) /\ UNCHANGED mail /\ RowsStay
  BY DEF GiveUp, At, RowsStay
<1> QED BY <1>1, <1>2, <1>3, ReadOnce

\* A handoff that is sent has no successor, and is the only new one.
LEMMA SentSuccessors ==
  ASSUME Typed, PassesOnKnown, NEW m \in Message, m.via <= Len(mail),
         NEW n, n = Len(mail) + 1, mail' = Append(mail, m)
  PROVE  /\ DOMAIN mail' = DOMAIN mail \cup {n} /\ n \notin DOMAIN mail
         /\ \A i \in DOMAIN mail : mail'[i] = mail[i]
         /\ mail'[n] = m
         /\ PassesOnKnown'
         /\ SuccessorsOf(n)' = {}
         /\ \A i \in DOMAIN mail :
              /\ SuccessorsOf(i) \subseteq DOMAIN mail
              /\ SuccessorsOf(i)' = IF i = m.via THEN SuccessorsOf(i) \cup {n}
                                    ELSE SuccessorsOf(i)
<1>1. /\ DOMAIN mail' = DOMAIN mail \cup {n} /\ n \notin DOMAIN mail
      /\ \A i \in DOMAIN mail : mail'[i] = mail[i]
      /\ mail'[n] = m
  BY AppendTyped DEF Typed
<1>2. Len(mail) \in Nat /\ Len(mail') = n
  BY DEF Typed, TypeOK
<1>3. \A j \in DOMAIN mail : mail[j].via \in Nat /\ mail[j].via <= Len(mail)
  <2>1. \A j \in DOMAIN mail : mail[j] \in Message
    BY DEF Typed, TypeOK
  <2> QED BY <2>1 DEF PassesOnKnown, Message
<1>4. m.via \in Nat /\ n # m.via
  BY <1>2 DEF Message
<1>5. PassesOnKnown'
  <2> SUFFICES ASSUME NEW j \in DOMAIN mail' PROVE mail'[j].via <= n
    BY <1>2 DEF PassesOnKnown
  <2> QED BY <1>1, <1>2, <1>3, <1>4
<1>6. ASSUME NEW i
      PROVE  SuccessorsOf(i)' = IF i = m.via THEN SuccessorsOf(i) \cup {n} ELSE SuccessorsOf(i)
  BY <1>1 DEF SuccessorsOf
<1>7. SuccessorsOf(n) = {}
  BY <1>2, <1>3 DEF SuccessorsOf
<1>8. SuccessorsOf(n)' = {}
  BY <1>4, <1>6, <1>7
<1> QED BY <1>1, <1>5, <1>6, <1>8 DEF SuccessorsOf

LEMMA SendOnce ==
  ASSUME Typed, NEW p \in Routers, OnceInv(p), SendHandoff(p)
  PROVE  OnceInv(p)'
<1> DEFINE o == router[p]
<1>k. PICK k : k = o.msg
  OBVIOUS
<1>m. PICK m : m = [from |-> o.lead, to |-> o.to, via |-> k, read |-> "unread"]
  OBVIOUS
<1>1. o \in Router /\ Grounded(o) /\ Holds(o) /\ o.pc = "send"
  BY DEF Typed, TypeOK, OnceInv, SendHandoff, At
<1>2. m \in Message
  BY <1>1, <1>k, <1>m DEF Router, Grounded, Message
<1>3. k \in DOMAIN mail /\ k <= Len(mail) /\ Fresh(k) /\ k \notin o.inbox
  BY <1>1, <1>k DEF Grounded, Holds, Typed, TypeOK
<1>4. PICK n : n = Len(mail) + 1
  OBVIOUS
<1>5. /\ DOMAIN mail' = DOMAIN mail \cup {n} /\ n \notin DOMAIN mail
      /\ \A i \in DOMAIN mail : mail'[i] = mail[i]
      /\ mail'[n] = m
      /\ PassesOnKnown'
      /\ SuccessorsOf(n)' = {}
      /\ \A i \in DOMAIN mail :
           /\ SuccessorsOf(i) \subseteq DOMAIN mail
           /\ SuccessorsOf(i)' = IF i = k THEN SuccessorsOf(i) \cup {n}
                                 ELSE SuccessorsOf(i)
  <2>1. m.via = k /\ mail' = Append(mail, m)
    BY <1>k, <1>m DEF SendHandoff
  <2>2. PassesOnKnown
    BY DEF OnceInv
  <2> QED BY <1>2, <1>3, <1>4, <2>1, <2>2, SentSuccessors
<1>6. SuccessorsOf(k) = {}
  BY <1>3 DEF Fresh
<1>7. Cardinality({}) = 0 /\ Cardinality({n}) = 1
  BY FS_EmptySet, FS_Singleton
<1>8. RoutedOnce'
  <2> SUFFICES ASSUME NEW i \in DOMAIN mail' PROVE Cardinality(SuccessorsOf(i)') <= 1
    BY DEF RoutedOnce
  <2>1. CASE i = n
    BY <1>5, <1>7, <2>1
  <2>2. CASE i = k
    <3>1. SuccessorsOf(i)' = {n}
      BY <1>3, <1>5, <1>6, <2>2
    <3> QED BY <1>7, <3>1
  <2>3. CASE i \in DOMAIN mail \ {k}
    BY <1>5, <2>3 DEF OnceInv, RoutedOnce
  <2> QED BY <1>5, <2>1, <2>2, <2>3
<1>9. RebalanceStaysInTeam'
  <2> SUFFICES ASSUME NEW i \in DOMAIN mail', mail'[i].read = "moved",
                      NEW j \in SuccessorsOf(i)'
               PROVE  mail'[j].from = mail'[i].from /\ mail'[j].to # mail'[i].to
    BY DEF RebalanceStaysInTeam
  <2>1. i \in DOMAIN mail \ {k}
    BY <1>3, <1>5, <1>m DEF Fresh
  <2> QED BY <1>5, <2>1 DEF OnceInv, RebalanceStaysInTeam
<1>10. PICK r : r = IF o.pass = "rebalance" /\ o.to = o.holder
                  THEN [o EXCEPT !.pc = "route", !.msg = 0, !.to = NoSession]
                  ELSE [o EXCEPT !.pc = "mark"]
  OBVIOUS
<1>11. router'[p] = r
  BY <1>10 DEF SendHandoff, Moves, Typed, TypeOK
<1>12. /\ r.inbox = o.inbox /\ r.crowd = o.crowd
       /\ r.pass = o.pass /\ r.holder = o.holder /\ r.lead = o.lead
       /\ \/ r.pc = "route" /\ o.pass = "rebalance" /\ o.to = o.holder
          \/ r.pc = "mark" /\ r.msg = k /\ ~(o.pass = "rebalance" /\ o.to = o.holder)
  <2>1. CASE o.pass = "rebalance" /\ o.to = o.holder
    BY <1>1, <1>10, <2>1 DEF Router
  <2>2. CASE ~(o.pass = "rebalance" /\ o.to = o.holder)
    BY <1>1, <1>k, <1>10, <2>2 DEF Router
  <2> QED BY <2>1, <2>2
<1>13. r.pc = "route" => mail[k].read # "unread"
  BY <1>1, <1>k, <1>12 DEF Holds, Relieves
<1>14. UnreadIsNew(r)'
  <2> SUFFICES ASSUME NEW i \in DOMAIN mail', mail'[i].read = "unread",
                      SuccessorsOf(i)' # {}
               PROVE  r.pc = "mark" /\ i = r.msg
    BY DEF UnreadIsNew
  <2>1. i \in DOMAIN mail
    BY <1>5
  <2>2. i = k
    BY <1>1, <1>k, <1>5, <2>1 DEF OnceInv, UnreadIsNew
  <2> QED BY <1>5, <1>12, <1>13, <2>1, <2>2
<1>15. \A i \in o.inbox : Fresh(i)' /\ mail'[i] = mail[i]
  BY <1>1, <1>3, <1>5 DEF Grounded, Holds, Fresh
<1>16. o.pass = "rebalance" => Relieves(r)'
  <2> SUFFICES ASSUME o.pass = "rebalance" PROVE Relieves(r)'
    OBVIOUS
  <2>1. Relieves(o) /\ UNCHANGED life
    BY <1>1 DEF Holds, SendHandoff
  <2>2. /\ \A d \in r.crowd : life'[d] # "absent"
        /\ r.holder \in Sessions /\ life'[r.holder] # "absent"
        /\ \A i \in r.inbox : mail'[i].to = r.holder
    BY <1>1, <1>12, <1>15, <2>1 DEF Relieves
  <2>3. ASSUME r.pc = "mark"
        PROVE  /\ mail'[r.msg].from = r.lead /\ mail'[r.msg].to = r.holder
               /\ \A j \in SuccessorsOf(r.msg)' :
                    mail'[j].from = mail'[r.msg].from /\ mail'[j].to # mail'[r.msg].to
    <3>1. r.msg = k /\ o.to # o.holder /\ SuccessorsOf(k)' = {n}
      BY <1>3, <1>5, <1>6, <1>12, <2>3
    <3>2. mail'[k].from = o.lead /\ mail'[k].to = o.holder
      BY <1>1, <1>k, <1>3, <1>5, <2>1 DEF Relieves
    <3>3. mail'[n].from = o.lead /\ mail'[n].to = o.to
      BY <1>m, <1>5
    <3> QED BY <1>12, <3>1, <3>2, <3>3
  <2> QED BY <1>12, <2>2, <2>3 DEF Relieves
<1>17. Holds(r)'
  BY <1>3, <1>12, <1>15, <1>16 DEF Holds
<1>18. Holds(router[p])' /\ UnreadIsNew(router[p])'
  BY <1>11, <1>14, <1>17 DEF Holds, Fresh, Relieves, SuccessorsOf, UnreadIsNew
<1> QED BY <1>5, <1>8, <1>9, <1>18 DEF OnceInv

LEMMA MarkOnce ==
  ASSUME Typed, NEW p \in Routers, OnceInv(p), MarkRead(p)
  PROVE  OnceInv(p)'
<1> DEFINE o == router[p]
           flag == IF mail[o.msg].read # "unread" THEN mail[o.msg].read
                   ELSE IF o.pass = "dispatch" THEN "routed" ELSE "moved"
           moved == IF o.pass = "dispatch" THEN o.moved ELSE o.moved + 1
<1>1. o \in Router /\ Grounded(o) /\ Holds(o) /\ o.pc = "mark"
  BY DEF Typed, TypeOK, OnceInv, MarkRead, At
<1>2. o.msg \in DOMAIN mail /\ o.msg \notin o.inbox /\ o.inbox \subseteq DOMAIN mail
  BY <1>1 DEF Grounded, Holds
<1>3. \A i \in DOMAIN mail : mail[i] \in Message
  BY DEF Typed, TypeOK
<1>4. flag \in {"unread", "seen", "routed", "moved"}
  BY <1>2, <1>3 DEF Message
<1>5. mail' = [mail EXCEPT ![o.msg].read = flag]
  BY DEF MarkRead
<1>6. flag # "unread"
  OBVIOUS
<1>7. flag = "moved" => mail[o.msg].read = "moved" \/ o.pass = "rebalance"
  BY <1>1 DEF Router
<1> HIDE DEF flag
<1>8. /\ mail' \in Seq(Message) /\ DOMAIN mail' = DOMAIN mail
      /\ \A i \in DOMAIN mail : mail'[i] = IF i = o.msg THEN [mail[i] EXCEPT !.read = flag]
                                           ELSE mail[i]
  BY <1>2, <1>4, <1>5, ReadFlagTyped DEF Typed
<1>9. /\ \A i \in DOMAIN mail : /\ mail'[i].via = mail[i].via
                                /\ mail'[i].from = mail[i].from
                                /\ mail'[i].to = mail[i].to
                                /\ i # o.msg => mail'[i].read = mail[i].read
      /\ mail'[o.msg].read = flag
  BY <1>2, <1>3, <1>8 DEF Message
<1>10. \A i \in DOMAIN mail : SuccessorsOf(i)' = SuccessorsOf(i)
                              /\ SuccessorsOf(i) \subseteq DOMAIN mail
  BY <1>8, <1>9 DEF SuccessorsOf
<1>11. Len(mail') = Len(mail)
  BY <1>8 DEF Typed, TypeOK
<1>12. PassesOnKnown' /\ RoutedOnce'
  BY <1>8, <1>9, <1>10, <1>11 DEF OnceInv, PassesOnKnown, RoutedOnce
<1>13. RebalanceStaysInTeam'
  <2> SUFFICES ASSUME NEW i \in DOMAIN mail', mail'[i].read = "moved",
                      NEW j \in SuccessorsOf(i)'
               PROVE  mail'[j].from = mail'[i].from /\ mail'[j].to # mail'[i].to
    BY DEF RebalanceStaysInTeam
  <2>1. i \in DOMAIN mail /\ j \in SuccessorsOf(i) /\ j \in DOMAIN mail
    BY <1>8, <1>10
  <2>2. mail[j].from = mail[i].from /\ mail[j].to # mail[i].to
    <3>1. CASE mail[i].read = "moved"
      BY <2>1, <3>1 DEF OnceInv, RebalanceStaysInTeam
    <3>2. CASE mail[i].read # "moved"
      <4>1. i = o.msg /\ o.pass = "rebalance"
        BY <1>7, <1>9, <2>1, <3>2
      <4> QED BY <1>1, <2>1, <4>1 DEF Holds, Relieves
    <3> QED BY <3>1, <3>2
  <2> QED BY <1>9, <2>1, <2>2
<1>14. PICK r : r = [o EXCEPT !.pc = "route", !.msg = 0, !.to = NoSession, !.done = @ + 1,
                              !.moved = moved]
  OBVIOUS
<1>15. router'[p] = r
  BY <1>14 DEF MarkRead, Moves, Typed, TypeOK
<1>16. /\ r.inbox = o.inbox /\ r.crowd = o.crowd /\ r.pc = "route"
       /\ r.pass = o.pass /\ r.holder = o.holder
  <2> HIDE DEF moved
  <2> QED BY <1>1, <1>14 DEF Router
<1>17. UnreadIsNew(r)'
  <2>1. \A i \in DOMAIN mail : mail[i].read = "unread" /\ SuccessorsOf(i) # {} => i = o.msg
    BY DEF OnceInv, UnreadIsNew
  <2>2. \A i \in DOMAIN mail' : ~(mail'[i].read = "unread" /\ SuccessorsOf(i)' # {})
    BY <1>6, <1>8, <1>9, <1>10, <2>1
  <2> QED BY <2>2 DEF UnreadIsNew
<1>18. \A i \in r.inbox : Fresh(i)'
  BY <1>1, <1>2, <1>9, <1>10, <1>16 DEF Holds, Fresh
<1>19. r.pass = "rebalance" => Relieves(r)'
  BY <1>1, <1>2, <1>9, <1>16 DEF Holds, Relieves, MarkRead
<1>20. Holds(r)'
  BY <1>16, <1>18, <1>19 DEF Holds
<1>21. Holds(router[p])' /\ UnreadIsNew(router[p])'
  BY <1>15, <1>17, <1>20 DEF Holds, Fresh, Relieves, SuccessorsOf, UnreadIsNew
<1> QED BY <1>12, <1>13, <1>21 DEF OnceInv

\* Users and dashboards.
LEMMA OthersOnce ==
  ASSUME Typed, NEW p \in Routers, OnceInv(p), Others
  PROVE  OnceInv(p)'
<1>0. UNCHANGED router
  BY DEF Others, UserSends, Seen, SessionEnds, SessionResumes
<1>1. PICK r : r = router[p]
  OBVIOUS
<1>2. r \in Router /\ Grounded(r) /\ Holds(r) /\ UnreadIsNew(r)
  BY <1>1 DEF Typed, TypeOK, OnceInv
<1>3. \A i \in DOMAIN mail : mail[i] \in Message
  BY DEF Typed, TypeOK
<1>4. ASSUME Holds(r)', UnreadIsNew(r)'
      PROVE  Holds(router[p])' /\ UnreadIsNew(router[p])'
  BY <1>0, <1>1, <1>4 DEF Holds, Fresh, Relieves, SuccessorsOf, UnreadIsNew
<1>5. ASSUME NEW f \in Sessions, NEW t \in Sessions, UserSends(f, t) PROVE OnceInv(p)'
  <2> DEFINE m == [from |-> f, to |-> t, via |-> 0, read |-> "unread"]
  <2>1. m \in Message /\ m.via = 0 /\ m.via <= Len(mail) /\ mail' = Append(mail, m)
    BY <1>5 DEF Message, UserSends, Typed, TypeOK
  <2>2. PICK n : n = Len(mail) + 1
    OBVIOUS
  <2>3. 0 \notin DOMAIN mail
    BY DEF Typed, TypeOK
  <2> HIDE DEF m
  <2>4. /\ DOMAIN mail' = DOMAIN mail \cup {n} /\ n \notin DOMAIN mail
        /\ \A i \in DOMAIN mail : mail'[i] = mail[i]
        /\ mail'[n] = m
        /\ PassesOnKnown'
        /\ SuccessorsOf(n)' = {}
        /\ \A i \in DOMAIN mail : SuccessorsOf(i) \subseteq DOMAIN mail
                                 /\ SuccessorsOf(i)' = SuccessorsOf(i)
    BY <2>1, <2>2, <2>3, SentSuccessors DEF OnceInv
  <2>5. RoutedOnce'
    <3>1. Cardinality({}) = 0
      BY FS_EmptySet
    <3> QED BY <2>4, <3>1 DEF OnceInv, RoutedOnce
  <2>6. RebalanceStaysInTeam'
    <3> SUFFICES ASSUME NEW i \in DOMAIN mail', mail'[i].read = "moved",
                        NEW j \in SuccessorsOf(i)'
                 PROVE  mail'[j].from = mail'[i].from /\ mail'[j].to # mail'[i].to
      BY DEF RebalanceStaysInTeam
    <3>1. i \in DOMAIN mail /\ j \in SuccessorsOf(i) /\ j \in DOMAIN mail
      BY <2>4
    <3> QED BY <2>4, <3>1 DEF OnceInv, RebalanceStaysInTeam
  <2>7. Holds(r)'
    <3>1. RowsStay
      BY <1>5 DEF UserSends, RowsStay
    <3> QED BY <1>2, <2>4, <3>1, HoldsOn
  <2>8. UnreadIsNew(r)'
    BY <1>2, <2>4 DEF UnreadIsNew
  <2> QED BY <1>4, <2>4, <2>5, <2>6, <2>7, <2>8 DEF OnceInv
<1>6. ASSUME NEW s \in Sessions, Seen(s) PROVE OnceInv(p)'
  <2>1. /\ DOMAIN mail' = DOMAIN mail /\ mail' \in Seq(Message)
        /\ \A i \in DOMAIN mail : /\ mail'[i].via = mail[i].via
                                 /\ mail'[i].from = mail[i].from
                                 /\ mail'[i].to = mail[i].to
                                 /\ mail'[i].read \in {mail[i].read, "seen"}
    BY <1>3, <1>6, SeenChanges DEF Typed, Message
  <2>2. \A i \in DOMAIN mail : SuccessorsOf(i)' = SuccessorsOf(i)
                               /\ SuccessorsOf(i) \subseteq DOMAIN mail
    BY <2>1 DEF SuccessorsOf
  <2>3. Len(mail') = Len(mail)
    BY <2>1 DEF Typed, TypeOK
  <2>4. PassesOnKnown' /\ RoutedOnce'
    BY <2>1, <2>2, <2>3 DEF OnceInv, PassesOnKnown, RoutedOnce
  <2>5. RebalanceStaysInTeam'
    <3> SUFFICES ASSUME NEW i \in DOMAIN mail', mail'[i].read = "moved",
                        NEW j \in SuccessorsOf(i)'
                 PROVE  mail'[j].from = mail'[i].from /\ mail'[j].to # mail'[i].to
      BY DEF RebalanceStaysInTeam
    <3>1. i \in DOMAIN mail /\ j \in SuccessorsOf(i) /\ j \in DOMAIN mail
          /\ mail[i].read = "moved"
      BY <2>1, <2>2
    <3> QED BY <2>1, <3>1 DEF OnceInv, RebalanceStaysInTeam
  <2>6. Holds(r)'
    <3>1. RowsStay
      BY <1>6 DEF Seen, RowsStay
    <3> QED BY <1>2, <2>1, <2>2, <3>1, HoldsOn
  <2>7. UnreadIsNew(r)'
    BY <1>2, <2>1, <2>2 DEF UnreadIsNew
  <2> QED BY <1>4, <2>4, <2>5, <2>6, <2>7 DEF OnceInv
<1>7. ASSUME NEW s \in Sessions, SessionEnds(s) \/ SessionResumes(s) PROVE OnceInv(p)'
  <2>1. RowsStay /\ UNCHANGED mail
    BY <1>7 DEF RowsStay, SessionEnds, SessionResumes, Typed, TypeOK
  <2>2. \A i \in DOMAIN mail : SuccessorsOf(i)' = SuccessorsOf(i)
                               /\ SuccessorsOf(i) \subseteq DOMAIN mail
    BY <2>1 DEF SuccessorsOf
  <2>3. Holds(r)'
    BY <1>2, <2>1, <2>2, HoldsOn
  <2>4. UnreadIsNew(r)'
    BY <1>2, <2>1, <2>2 DEF UnreadIsNew
  <2>5. PassesOnKnown' /\ RoutedOnce' /\ RebalanceStaysInTeam'
    BY <2>1, <2>2 DEF OnceInv, PassesOnKnown, RoutedOnce, RebalanceStaysInTeam
  <2> QED BY <1>4, <2>3, <2>4, <2>5 DEF OnceInv
<1> QED BY <1>5, <1>6, <1>7 DEF Others

LEMMA OnceStep ==
  ASSUME ~MayCrash, NEW p, Routers = {p}
  PROVE  Typed /\ OnceInv(p) /\ [AnyStep]_routingVars => OnceInv(p)'
<1> SUFFICES ASSUME Typed, OnceInv(p), [AnyStep]_routingVars PROVE OnceInv(p)'
  OBVIOUS
<1>1. CASE \E pass \in {"dispatch", "rebalance"} : BeginPass(p, pass)
  BY <1>1, SearchOnce
<1>2. CASE RouterStep(p)
  BY <1>2, SearchOnce, AssignOnce, SendOnce, MarkOnce DEF RouterStep
<1>3. CASE GiveUp(p)
  BY <1>3, GiveUpOnce
<1>4. CASE Others
  BY <1>4, OthersOnce
<1>5. CASE UNCHANGED routingVars
  BY <1>5 DEF routingVars, OnceInv, PassesOnKnown, RoutedOnce, RebalanceStaysInTeam,
              UnreadIsNew, Holds, Fresh, Relieves, SuccessorsOf
<1> QED BY <1>1, <1>2, <1>3, <1>4, <1>5 DEF AnyStep

=============================================================================

--------------------------- MODULE SessionService ---------------------------
(***************************************************************************)
(* What ECC2 promises the owner of a session, whatever clients do to it at *)
(* the same time: it is made once, and gone for good once deleted.  Each   *)
(* request for an agent, by its creation or by a resume, starts one agent  *)
(* at most, and only when the session waits for one.  An agent is          *)
(* announced once, after it has started, and its end is reported once,     *)
(* after it has ended, as the success or the failure that it was.  A       *)
(* client disturbs only the session it has taken up, and kills only its    *)
(* agents.                                                                 *)
(***************************************************************************)
CONSTANTS Sessions, Agents, Clients, NoSession

VARIABLES
  shown,    \* what the owner sees of each session
  stage,    \* how far each agent has come, as the one who watches it tells
  owner,    \* the session each agent is asked for
  health,   \* the process of each agent
  client    \* what each client is about to do, and to which session

agents == <<stage, owner, health>>

Exists(s) == shown[s] \in {"waiting", "working", "halted", "completed"}
Idle == [wants |-> "nothing", sess |-> NoSession]

Init ==
  /\ shown  = [s \in Sessions |-> "absent"]
  /\ stage  = [a \in Agents |-> "unused"]
  /\ owner  = [a \in Agents |-> NoSession]
  /\ health = [a \in Agents |-> "none"]
  /\ client = [c \in Clients |-> Idle]

Show(s, what) == Exists(s) /\ shown' = [shown EXCEPT ![s] = what]

-----------------------------------------------------------------------------
(* Agents, and those who watch them.                                       *)

Comes(a, from, to) == stage[a] = from /\ stage' = [stage EXCEPT ![a] = to]

Decline(a) == Comes(a, "asked", "silent") /\ UNCHANGED <<shown, health>>

Admit(a) ==
  /\ Comes(a, "asked", "admitted") /\ shown[owner[a]] = "waiting"
  /\ UNCHANGED <<shown, health>>

Start(a) ==
  /\ health[a] = "none" /\ health' = [health EXCEPT ![a] = "alive"]
  /\ Comes(a, "admitted", "started")
  /\ UNCHANGED shown

Announce(a) ==
  /\ Comes(a, "started", "announced") /\ Show(owner[a], "working")
  /\ UNCHANGED health

Report(a) ==
  /\ health[a] \in {"success", "failure"}
  /\ Comes(a, "announced", "silent")
  /\ Show(owner[a], IF health[a] = "success" THEN "completed" ELSE "halted")
  /\ UNCHANGED health

\* Where something goes wrong, no more than a failure is told.
Break(a) ==
  /\ \E from \in {"admitted", "started", "announced"} : Comes(a, from, "broken")
  /\ UNCHANGED <<shown, health>>

Apologise(a) ==
  /\ Comes(a, "broken", "silent")
  /\ UNCHANGED shown \/ Show(owner[a], "halted")
  /\ UNCHANGED health

AgentStep(a) ==
  /\ \/ Decline(a) \/ Admit(a) \/ Start(a) \/ Announce(a)
     \/ Report(a) \/ Break(a) \/ Apologise(a)
  /\ UNCHANGED <<owner, client>>

End(a) ==
  /\ health[a] = "alive"
  /\ \E end \in {"success", "failure"} : health' = [health EXCEPT ![a] = end]
  /\ UNCHANGED <<shown, stage, owner>>

-----------------------------------------------------------------------------
(* Clients.                                                                *)

Wants(c, what) == client[c].wants = what
Turns(c, what, s) == client' = [client EXCEPT ![c] = [wants |-> what, sess |-> s]]

Create(c, s) ==
  /\ shown[s] = "absent" /\ shown' = [shown EXCEPT ![s] = "waiting"]
  /\ client[c] = Idle /\ Turns(c, "agent", s)
  /\ UNCHANGED agents

\* What a client may take up depends on what it sees then, not on what is there
\* when it acts.
TakeUp(c, s) ==
  /\ client[c] = Idle
  /\ \/ shown[s] \in {"waiting", "halted"} /\ Turns(c, "renewal", s)
     \/ shown[s] \in {"completed", "halted"} /\ Turns(c, "removal", s)
     \/ Exists(s) /\ Turns(c, "halt", s)
  /\ UNCHANGED <<shown, agents>>

Renew(c, s) ==
  /\ Wants(c, "renewal") /\ Turns(c, "agent", s)
  /\ Show(s, "waiting")
  /\ UNCHANGED agents

Ask(c, s) ==
  /\ Wants(c, "agent") /\ client' = [client EXCEPT ![c] = Idle]
  /\ \E a \in Agents :
       Comes(a, "unused", "asked") /\ owner' = [owner EXCEPT ![a] = s]
  /\ UNCHANGED <<shown, health>>

\* A client that cannot have the agent of a new session says so in the row.
Despair(c, s) ==
  /\ Wants(c, "agent") /\ Turns(c, "halt", s)
  /\ UNCHANGED <<shown, agents>>

Kill(c, s) ==
  /\ Wants(c, "halt")
  /\ \E a \in Agents : owner[a] = s /\ End(a)
  /\ UNCHANGED client

Halt(c, s) ==
  /\ Wants(c, "halt") /\ client' = [client EXCEPT ![c] = Idle]
  /\ Show(s, "halted")
  /\ UNCHANGED agents

Remove(c, s) ==
  /\ Wants(c, "removal") /\ client' = [client EXCEPT ![c] = Idle]
  /\ Show(s, "gone")
  /\ UNCHANGED agents

GiveUp(c) ==
  /\ client[c] # Idle /\ client' = [client EXCEPT ![c] = Idle]
  /\ UNCHANGED <<shown, agents>>

ClientStep(c) ==
  \/ \E s \in Sessions : Create(c, s) \/ TakeUp(c, s)
  \/ LET s == client[c].sess IN
       Renew(c, s) \/ Ask(c, s) \/ Despair(c, s) \/ Kill(c, s) \/ Halt(c, s) \/ Remove(c, s)
  \/ GiveUp(c)

Next ==
  \/ \E a \in Agents : AgentStep(a) \/ (End(a) /\ UNCHANGED client)
  \/ \E c \in Clients : ClientStep(c)

Spec == Init /\ [][Next]_<<shown, agents, client>>
=============================================================================

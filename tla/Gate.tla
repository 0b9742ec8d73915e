-------------------------------- MODULE Gate --------------------------------
(***************************************************************************)
(* The gate and its supervisor (nawa/gate/src/lib.rs): agents, their       *)
(* budgets, the questions put to a human, and the verbs through which      *)
(* everything is touched.  It composes AMAN's capability table (Aman) and  *)
(* the budget arithmetic (Budget).                                         *)
(*                                                                         *)
(* One core, no preemption of kernel code: each verb is one step.  An      *)
(* agent's step function runs between StepBegin and StepEnd with no lock   *)
(* held and calls the verbs under its own id; outside a step the kernel    *)
(* (boot code, model broker, tool host, consent surface) calls them.       *)
(*                                                                         *)
(* Agent ids and approval ids are the positions in their vectors: both     *)
(* counters start at 1, move by one per push, and nothing is ever removed. *)
(* Which ready agent goes first is left open here (module Scheduler);      *)
(* goals, notes, cursors and the crossings counter are not modelled.       *)
(***************************************************************************)
EXTENDS Aman, Budget, FiniteSetsExt

CONSTANTS RootBudgets,            \* <<money, wall>> the kernel spawns with
          ShareBudgets,           \* <<money, wall>> asked of `delegate`
          SpendAmounts,           \* amounts asked of `spend`
          Charges,                \* amounts the kernel charges afterwards
          Reports,                \* what step functions return
          Elapsed,                \* wall-clock time a step may take
          MAX_CAPABILITIES,       \* length of an agent's capability list
          MAX_PENDING_APPROVALS,  \* open questions per agent
          MaxAgents, MaxApprovals, MaxUsed   \* bounds of the model

Progress == {"Continue", "AwaitConsent", "Done", "Failed"}

ASSUME GateAssumption ==
  /\ Reports \subseteq Progress
  /\ RootBudgets \subseteq Nat \X Nat /\ ShareBudgets \subseteq Nat \X Nat
  /\ SpendAmounts \subseteq Nat /\ Charges \subseteq Nat /\ Elapsed \subseteq Nat
  /\ MAX_CAPABILITIES \in Nat \ {0} /\ MAX_PENDING_APPROVALS \in Nat
  /\ MaxAgents \in Nat /\ MaxApprovals \in Nat /\ MaxUsed \in Nat
  /\ \A b \in RootBudgets \cup ShareBudgets : b[1] <= WordMax

VARIABLES agents,     \* Supervisor.agents
          approvals,  \* Supervisor.approvals
          running,    \* the agent whose step function is on the stack, or Kernel
          acts        \* history: irreversible crossings, with the yes each used

gateVars == <<slots, emitted, agents, approvals, running, acts>>

Kernel == 0
NoRequest == 0

State == {"Runnable", "AwaitingConsent", "Suspended", "Finished", "Killed"}

Agent == [parent : Nat, state : State, budget : Budgets,
          capabilities : Seq(Nat), awaiting : Nat]
ApprovalRequest == [agent : Nat, capability : Nat,
                    answered : {"None", "Yes", "No"}, consumed : BOOLEAN]
Act == [agent : Nat, capability : Nat, request : Nat]

GateInit ==
  /\ AmanInit
  /\ agents = <<>>
  /\ approvals = <<>>
  /\ running = Kernel
  /\ acts = <<>>

-----------------------------------------------------------------------------
(* SmallVec::push: a full list refuses, and the callers that push derived  *)
(* capabilities do not look.                                               *)
push_capability(agent, capability) ==
  IF Len(agent.capabilities) < MAX_CAPABILITIES
    THEN [agent EXCEPT !.capabilities = Append(@, capability)]
    ELSE agent

(* An agent as it is born. *)
new_agent(parent, budget) ==
  [parent |-> parent, state |-> "Runnable", budget |-> budget,
   capabilities |-> <<>>, awaiting |-> NoRequest]

(* Kernel-side entry: a root agent is born. *)
spawn(budget) ==
  /\ running = Kernel
  /\ agents' = Append(agents, new_agent(Kernel, budget))
  /\ emitted' = <<entry(Len(agents) + 1, "Spawned")>>
  /\ UNCHANGED <<slots, approvals, running, acts>>

(* Root authority enters: minted first, then listed if there is room. *)
grant(a, authority) ==
  /\ running = Kernel
  /\ mint(a, authority)
  /\ agents' = [agents EXCEPT ![a] = push_capability(@, Len(slots) + 1)]
  /\ UNCHANGED <<approvals, running, acts>>

(* Who may be calling a verb under the id a. *)
CallerOf(a) == running \in {Kernel, a}

(* The parent's share is carved out and the child joins the agents. *)
fund_child(a, money, wall, capabilities) ==
  agents' = Append([agents EXCEPT ![a].budget = carved(@, money, wall)],
                   [new_agent(a, Budget_new(money, wall)) EXCEPT
                      !.capabilities = capabilities])

(* Mutant: budget and child committed before the attenuation is checked,   *)
(* as an earlier version of the code did.                                  *)
gate_delegate_CommitFirst(a, c, narrower, money, wall) ==
  /\ CallerOf(a)
  /\ may_carve(agents[a].budget, money, wall)
  /\ ~may_derive(a, c, narrower)
  /\ fund_child(a, money, wall, <<>>)
  /\ deny(a)
  /\ UNCHANGED <<approvals, running, acts>>

(* Validate first, commit second: the attenuation, then the funding, and   *)
(* only then the child, its slot and its capability list.                  *)
gate_delegate(a, c, narrower, money, wall) ==
  /\ CallerOf(a)
  /\ \/ /\ ~may_derive(a, c, narrower)
        /\ deny(a)
        /\ UNCHANGED agents
     \/ /\ may_derive(a, c, narrower)
        /\ ~may_carve(agents[a].budget, money, wall)
        /\ deny(a)
        /\ UNCHANGED agents
     \/ /\ may_derive(a, c, narrower)
        /\ may_carve(agents[a].budget, money, wall)
        /\ push_slot(narrower, Len(agents) + 1, c)
        /\ fund_child(a, money, wall, <<Len(slots) + 1>>)
        /\ emitted' = <<entry(Len(agents) + 1, "Spawned"),
                        entry(a, "Delegated")>>
  /\ UNCHANGED <<approvals, running, acts>>

gate_attenuate(a, c, narrower) ==
  /\ CallerOf(a)
  /\ attenuate(a, c, narrower)
  /\ agents' = IF may_derive(a, c, narrower)
                 THEN [agents EXCEPT ![a] = push_capability(@, Len(slots) + 1)]
                 ELSE agents
  /\ UNCHANGED <<approvals, running, acts>>

-----------------------------------------------------------------------------
(* Mutant: a yes to one question used for another capability. *)
approved_AnyCapability(a, c) ==
  LET r == agents[a].awaiting
  IN  /\ r # NoRequest
      /\ approvals[r].agent = a
      /\ approvals[r].answered = "Yes"
      /\ ~approvals[r].consumed

(* A live, matching, unused yes for exactly this agent and capability. *)
approved(a, c) ==
  LET r == agents[a].awaiting
  IN  /\ r # NoRequest
      /\ approvals[r].agent = a
      /\ approvals[r].capability = c
      /\ approvals[r].answered = "Yes"
      /\ ~approvals[r].consumed

(* Mutant: the price is taken without looking at what remains. *)
can_pay_OnCredit(a, cost) == TRUE

can_pay(a, cost) == remaining(agents[a].budget) >= cost

(* Mutant: an agent stopped by its budget leaves no entry. *)
suspension_Silent(a) == <<>>

suspension(a) == <<entry(a, "BudgetExhausted")>>

(* The second half of a crossing: pay, or be suspended; an irreversible    *)
(* crossing takes the awaited request and burns it.  Journaled only now.   *)
commit(a, c, cost, burn, journal) ==
  /\ \/ /\ ~can_pay(a, cost)
        /\ agents' = [agents EXCEPT ![a].state = "Suspended"]
        /\ emitted' = suspension(a)
        /\ UNCHANGED <<approvals, acts>>
     \/ /\ can_pay(a, cost)
        /\ ~burn
        /\ agents' = [agents EXCEPT ![a].budget.spent = @ + cost]
        /\ emitted' = journal
        /\ UNCHANGED <<approvals, acts>>
     \/ /\ can_pay(a, cost)
        /\ burn
        /\ agents' = [agents EXCEPT ![a].budget.spent = @ + cost,
                                    ![a].awaiting = NoRequest]
        /\ approvals' = [approvals EXCEPT ![agents[a].awaiting].consumed = TRUE]
        /\ acts' = Append(acts, [agent |-> a, capability |-> c,
                                 request |-> agents[a].awaiting])
        /\ emitted' = journal
  /\ UNCHANGED <<slots, running>>

(* The only way to touch anything. *)
crossing(a, c, journal) ==
  /\ CallerOf(a)
  /\ \/ /\ authorization(a, c, approved(a, c)) # "Ok"
        /\ authorize(a, c, approved(a, c))
        /\ UNCHANGED <<agents, approvals, running, acts>>
     \/ /\ authorization(a, c, approved(a, c)) = "Ok"
        /\ LET authority == slots[c].authority
           IN  commit(a, c, price_of(authority), Irreversible(authority), journal)

invoke(a, c) == crossing(a, c, <<entry(a, "Invoked")>>)

(* invoke, then the memory operation's own entry. *)
remember(a, c) == crossing(a, c, <<entry(a, "Invoked"), entry(a, "Remembered")>>)

(* Exercise a Spend capability for an amount under its ceiling. *)
spend(a, c, amount) ==
  /\ CallerOf(a)
  /\ \/ /\ authorization(a, c, approved(a, c)) # "Ok"
        /\ authorize(a, c, approved(a, c))
        /\ UNCHANGED <<agents, approvals, running, acts>>
     \/ /\ authorization(a, c, approved(a, c)) = "Ok"
        /\ LET authority == slots[c].authority
           IN  \/ /\ authority.kind # "Spend"
                  /\ emitted' = <<>>
                  /\ UNCHANGED <<slots, agents, approvals, running, acts>>
               \/ /\ authority.kind = "Spend"
                  /\ amount > authority.micro_dollars
                  /\ deny(a)
                  /\ UNCHANGED <<agents, approvals, running, acts>>
               \/ /\ authority.kind = "Spend"
                  /\ amount <= authority.micro_dollars
                  /\ commit(a, c, amount, TRUE, <<entry(a, "Invoked")>>)

-----------------------------------------------------------------------------
Open(r) == approvals[r].answered = "None"

Pending(a) == {r \in DOMAIN approvals : approvals[r].agent = a /\ Open(r)}

(* Mutant: one question too many. *)
may_ask_OneMore(a) == Cardinality(Pending(a)) <= MAX_PENDING_APPROVALS

may_ask(a) == Cardinality(Pending(a)) < MAX_PENDING_APPROVALS

(* Raise a consent request for one capability.  The same open question is  *)
(* returned as it is; a flood is refused; otherwise a new request is       *)
(* queued and becomes the one the agent waits for.  A capability that      *)
(* lookup refuses is not journaled.                                        *)
request_approval(a, c) ==
  /\ CallerOf(a)
  /\ \/ /\ lookup(a, c) # "Ok"
        /\ emitted' = <<>>
        /\ UNCHANGED <<agents, approvals>>
     \/ /\ lookup(a, c) = "Ok"
        /\ \E r \in Pending(a) : approvals[r].capability = c
        /\ emitted' = <<entry(a, "ApprovalRequested")>>
        /\ UNCHANGED <<agents, approvals>>
     \/ /\ lookup(a, c) = "Ok"
        /\ \A r \in Pending(a) : approvals[r].capability # c
        /\ ~may_ask(a)
        /\ emitted' = <<entry(a, "Denied")>>
        /\ UNCHANGED <<agents, approvals>>
     \/ /\ lookup(a, c) = "Ok"
        /\ \A r \in Pending(a) : approvals[r].capability # c
        /\ may_ask(a)
        /\ Len(approvals) < MaxApprovals
        /\ approvals' = Append(approvals, [agent |-> a, capability |-> c,
                                           answered |-> "None", consumed |-> FALSE])
        /\ agents' = [agents EXCEPT ![a].awaiting = Len(approvals) + 1]
        /\ emitted' = <<entry(a, "ApprovalRequested")>>
  /\ UNCHANGED <<slots, running, acts>>

(* Mutants: the yes leaves the agent parked; answers may be revisited. *)
answered_agent_StaysParked(agent, yes) ==
  IF yes THEN agent ELSE [agent EXCEPT !.awaiting = NoRequest, !.state = "Killed"]

(* What an answer does to the agent whose awaited request it decides. *)
answered_agent(agent, yes) ==
  IF yes
    THEN [agent EXCEPT !.state = "Runnable"]
    ELSE [agent EXCEPT !.awaiting = NoRequest, !.state = "Killed"]

may_answer_Again(r) == ~approvals[r].consumed

may_answer(r) == Open(r)

(* The human answers.  An answer to a decided request changes nothing. *)
answer_approval(r, yes) ==
  /\ running = Kernel
  /\ may_answer(r)
  /\ LET a == approvals[r].agent
     IN  /\ approvals' = [approvals EXCEPT ![r].answered = IF yes THEN "Yes" ELSE "No"]
         /\ agents' = IF agents[a].awaiting = r
                        THEN [agents EXCEPT ![a] = answered_agent(@, yes)]
                        ELSE agents
         /\ emitted' = <<entry(a, IF yes THEN "Approved" ELSE "Rejected")>>
  /\ UNCHANGED <<slots, running, acts>>

(* Charge for something already done, in full; suspend if that exhausts. *)
charge(a, amount) ==
  /\ running = Kernel
  /\ LET budget == [agents[a].budget EXCEPT !.spent = saturating_add(@, amount)]
     IN  \/ /\ exhausted(budget)
            /\ agents' = [agents EXCEPT ![a].budget = budget, ![a].state = "Suspended"]
            /\ emitted' = suspension(a)
         \/ /\ ~exhausted(budget)
            /\ agents' = [agents EXCEPT ![a].budget = budget]
            /\ emitted' = <<>>
  /\ UNCHANGED <<slots, approvals, running, acts>>

-----------------------------------------------------------------------------
(* run_until_idle takes a ready agent and calls its step function. *)
Ready(a) == agents[a].state = "Runnable" /\ ~exhausted(agents[a].budget)

StepBegin(a) ==
  /\ running = Kernel
  /\ Ready(a)
  /\ running' = a
  /\ emitted' = <<>>
  /\ UNCHANGED <<slots, agents, approvals, acts>>

(* Mutant: what the agent reports outranks the gate's suspension. *)
outranked_Never(agent) == FALSE

(* A suspension imposed during the step outranks what the agent reports. *)
outranked(agent) == agent.state = "Suspended"

(* Mutant: an agent that wants to continue is believed. *)
out_of_budget_Never(agent) == FALSE

(* An agent that continues must have something left to continue with. *)
out_of_budget(agent) == exhausted(agent.budget)

(* The step function returned: its time is charged and its report applied. *)
StepEnd(progress, elapsed) ==
  /\ running # Kernel
  /\ running' = Kernel
  /\ LET a == running
         timed == [agents[a] EXCEPT !.budget.used = @ + elapsed]
         becomes(state) == agents' = [agents EXCEPT ![a] = [timed EXCEPT !.state = state]]
     IN  /\ timed.budget.used <= MaxUsed
         /\ \/ /\ outranked(timed)
               /\ agents' = [agents EXCEPT ![a] = timed]
               /\ emitted' = <<>>
            \/ /\ ~outranked(timed)
               /\ progress = "Continue"
               /\ out_of_budget(timed)
               /\ becomes("Suspended")
               /\ emitted' = suspension(a)
            \/ /\ ~outranked(timed)
               /\ progress = "Continue"
               /\ ~out_of_budget(timed)
               /\ agents' = [agents EXCEPT ![a] = timed]
               /\ emitted' = <<>>
            \/ /\ ~outranked(timed)
               /\ progress = "AwaitConsent"
               /\ becomes("AwaitingConsent")
               /\ emitted' = <<>>
            \/ /\ ~outranked(timed)
               /\ progress = "Done"
               /\ becomes("Finished")
               /\ emitted' = <<entry(a, "Finished")>>
            \/ /\ ~outranked(timed)
               /\ progress = "Failed"
               /\ becomes("Killed")
               /\ emitted' = <<entry(a, "Finished")>>
  /\ UNCHANGED <<slots, approvals, acts>>
-----------------------------------------------------------------------------
RoomForAgent == Len(agents) < MaxAgents

(* A kernel call to aman::revoke_tree. *)
revoke(c) ==
  /\ running = Kernel
  /\ revoke_tree(c)
  /\ UNCHANGED <<agents, approvals, running, acts>>

NewAgents ==
  /\ RoomForAgent
  /\ \/ \E b \in RootBudgets : spawn(Budget_new(b[1], b[2]))
     \/ /\ Room
        /\ \E a \in DOMAIN agents, c \in DOMAIN slots, u \in Requested,
              b \in ShareBudgets :
             gate_delegate(a, c, u, b[1], b[2])

NewSlots ==
  /\ Room
  /\ \E a \in DOMAIN agents, u \in Requested :
       \/ grant(a, u)
       \/ \E c \in DOMAIN slots : gate_attenuate(a, c, u)

Verbs ==
  \E a \in DOMAIN agents, c \in DOMAIN slots :
    \/ invoke(a, c)
    \/ remember(a, c)
    \/ \E amount \in SpendAmounts : spend(a, c, amount)
    \/ request_approval(a, c)

KernelCalls ==
  \/ \E r \in DOMAIN approvals, yes \in BOOLEAN : answer_approval(r, yes)
  \/ \E a \in DOMAIN agents, amount \in Charges : charge(a, amount)
  \/ \E c \in DOMAIN slots : revoke(c)

Steps ==
  \/ \E a \in DOMAIN agents : StepBegin(a)
  \/ \E progress \in Reports, elapsed \in Elapsed : StepEnd(progress, elapsed)

GateNext == NewAgents \/ NewSlots \/ Verbs \/ KernelCalls \/ Steps

GateSpec == GateInit /\ [][GateNext]_gateVars

(* A step function returns.  The consent surface comes back to every open  *)
(* question whenever the supervisor loop, which is bounded by max_steps,   *)
(* returns to the kernel: strong fairness, since steps come in between.    *)
Answer(r) == r \in DOMAIN approvals /\ \E yes \in BOOLEAN : answer_approval(r, yes)

GateFairSpec ==
  /\ GateSpec
  /\ WF_gateVars(\E progress \in Reports, elapsed \in Elapsed : StepEnd(progress, elapsed))
  /\ \A r \in 1..MaxApprovals : SF_gateVars(Answer(r))

-----------------------------------------------------------------------------
(* The supervisor's vectors have their declared shapes and every reference *)
(* in them (holder, capability, awaited request, running agent) resolves.  *)
GateTypeOK ==
  /\ AmanTypeOK
  /\ agents \in Seq(Agent)
  /\ approvals \in Seq(ApprovalRequest)
  /\ acts \in Seq(Act)
  /\ running \in {Kernel} \cup DOMAIN agents
  /\ \A c \in DOMAIN slots : slots[c].holder \in DOMAIN agents
  /\ \A a \in DOMAIN agents :
       /\ agents[a].awaiting \in {NoRequest} \cup DOMAIN approvals
       /\ agents[a].parent \in 0..(a - 1)
  /\ \A r \in DOMAIN approvals :
       /\ approvals[r].agent \in DOMAIN agents
       /\ approvals[r].capability \in DOMAIN slots

(* One yes, one act (lib.rs 34-36): every irreversible crossing used a     *)
(* request that a human answered yes, raised for that very agent and       *)
(* capability, and no two crossings used the same one - whatever was       *)
(* asked, answered, revoked or run in between.                             *)
OneYesOneAct ==
  /\ \A k \in DOMAIN acts :
       LET r == acts[k].request
       IN  /\ r \in DOMAIN approvals
           /\ approvals[r].agent = acts[k].agent
           /\ approvals[r].capability = acts[k].capability
           /\ approvals[r].answered = "Yes"
           /\ approvals[r].consumed
  /\ \A j, k \in DOMAIN acts : acts[j].request = acts[k].request => j = k

(* A decided question stays decided the same way (lib.rs 406), and is      *)
(* still addressed to the agent and capability the human was shown.        *)
AnswersStand ==
  [][ \A r \in DOMAIN approvals :
        /\ r \in DOMAIN approvals'
        /\ approvals'[r].agent = approvals[r].agent
        /\ approvals'[r].capability = approvals[r].capability
        /\ ~Open(r) => approvals'[r].answered = approvals[r].answered ]_gateVars

(* A stopped agent stays stopped: parked, suspended, finished or killed,   *)
(* it leaves that state only for a budget suspension or because the        *)
(* request it awaits is answered in this step.  In particular no report    *)
(* of its own lifts a suspension (lib.rs 501-503).                         *)
StoppedStaysStopped ==
  [][ \A a \in DOMAIN agents :
        /\ agents[a].state # "Runnable"
        /\ agents'[a].state \notin {agents[a].state, "Suspended"}
        => /\ agents[a].awaiting \in DOMAIN approvals
           /\ Open(agents[a].awaiting)
           /\ approvals'[agents[a].awaiting].answered # "None" ]_gateVars

(* An agent that is stopped for good, or by its budget, leaves an entry    *)
(* under its own id in the same step (lib.rs 530-531).                     *)
NeverSilent ==
  [][ \A a \in DOMAIN agents :
        /\ agents'[a].state # agents[a].state
        /\ agents'[a].state \in {"Suspended", "Finished", "Killed"}
        => \E k \in DOMAIN emitted' :
             /\ emitted'[k].agent = a
             /\ emitted'[k].event \in {"BudgetExhausted", "Finished", "Rejected"} ]_gateVars

(* Authority travels down the tree of agents only: a derived capability is *)
(* held by the agent it was derived from or by a child that agent spawned, *)
(* and the laws of the table hold of what the gate builds.                 *)
AuthorityFlowsDown ==
  /\ LineageInv
  /\ \A c \in DOMAIN slots :
       Parent(c) # NoParent =>
         \/ slots[c].holder = slots[Parent(c)].holder
         \/ agents[slots[c].holder].parent = slots[Parent(c)].holder

(* No funded orphan is ever left behind by a refused delegation (lib.rs    *)
(* 144-147): a child agent holds a capability derived from its parent's.   *)
NoOrphans ==
  \A a \in DOMAIN agents :
    agents[a].parent # Kernel =>
      \E c \in DOMAIN slots :
        /\ slots[c].holder = a
        /\ Parent(c) # NoParent
        /\ slots[Parent(c)].holder = agents[a].parent

(* The agents below r, r included: in every set that holds r and is closed *)
(* under "spawned by".                                                     *)
Subtree(r) ==
  {d \in DOMAIN agents :
     \A S \in SUBSET DOMAIN agents :
       (r \in S /\ \A j \in DOMAIN agents : agents[j].parent \in S => j \in S) => d \in S}

Children(a) == {d \in DOMAIN agents : agents[d].parent = a}

(* Money an agent burnt itself: what it spent and did not hand to children. *)
burnt(a) ==
  agents[a].budget.spent - MapThenSumSet(LAMBDA d : agents[d].budget.money, Children(a))

(* As long as nothing is charged after the fact, no agent has spent more   *)
(* than it was given, what its children were given came out of what it     *)
(* spent, and so a subtree has not burnt more than its root was given      *)
(* (acb.rs 26-28).                                                         *)
SubtreeWithinRoot ==
  \A r \in DOMAIN agents :
    /\ agents[r].budget.spent <= agents[r].budget.money
    /\ burnt(r) >= 0
    /\ MapThenSumSet(burnt, Subtree(r)) <= agents[r].budget.money

(* Wall-clock time is carved as money is (acb.rs 55-57): under a walled    *)
(* agent every child is walled, and the children's walls come out of what  *)
(* the parent has used up.                                                 *)
TimeIsCarved ==
  \A a \in DOMAIN agents :
    agents[a].budget.wall # 0 =>
      /\ \A d \in Children(a) : agents[d].budget.wall # 0
      /\ MapThenSumSet(LAMBDA d : agents[d].budget.wall, Children(a)) <= agents[a].budget.used

Parked(a) == a \in DOMAIN agents /\ agents[a].state = "AwaitingConsent"

(* An agent parked on an open question is released once the human has      *)
(* answered: it runs again or is killed.                                   *)
ParkedIsReleased ==
  \A a \in 1..MaxAgents :
    (Parked(a) /\ agents[a].awaiting \in Pending(a)) ~> ~Parked(a)

(* The same for any agent that parks while it has a question open, as the  *)
(* protocol of request_approval promises (lib.rs 338-340, 350-351).        *)
ParkedWithQuestionIsReleased ==
  \A a \in 1..MaxAgents : (Parked(a) /\ Pending(a) # {}) ~> ~Parked(a)

(* "Only the agent actually parked on THIS request is affected" (lib.rs    *)
(* 412): a yes never sets an agent running that was not parked.            *)
YesWakesOnlyTheParked ==
  [][ \A a \in DOMAIN agents :
        /\ agents[a].state # "Runnable"
        /\ agents'[a].state = "Runnable"
        => agents[a].state = "AwaitingConsent" ]_gateVars
-----------------------------------------------------------------------------
(* A request as the human sees it: open, decided, or used up. *)
ticket(r) ==
  [agent |-> approvals[r].agent, capability |-> approvals[r].capability,
   state |-> IF approvals[r].consumed THEN "Used"
             ELSE IF Open(r) THEN "Open" ELSE approvals[r].answered]

Tickets == [r \in DOMAIN approvals |-> ticket(r)]

Consents == INSTANCE Consent WITH
              Limit <- MAX_PENDING_APPROVALS, Size <- Cardinality,
              tickets <- Tickets, performed <- acts

(* Behind its budgets, states and steps the gate keeps the consent promise *)
(* of module Consent: whatever is spawned, delegated, revoked, charged or  *)
(* run, a question is asked within the limit, decided once, and its yes    *)
(* used once, for the agent and capability it names (lib.rs 34-36,         *)
(* 350-353, 406).                                                          *)
ImplementsConsent == Consents!ConsentSpec
=============================================================================

----------------------------- MODULE TreeProofs -----------------------------
(***************************************************************************)
(* Proofs about the tree of agents the gate grows, for any budgets, prices *)
(* and number of agents: authority and money flow down it, time is carved  *)
(* along it, and an agent that is stopped stays stopped and never stops    *)
(* without an entry.  The supervisor's loop only takes steps of the gate,  *)
(* so that all of this holds of the scheduled system too.                  *)
(***************************************************************************)
EXTENDS GateProofs, Scheduler

-----------------------------------------------------------------------------
(* What a step does to the tree: it edits one agent without touching who   *)
(* spawned it or what it was given, or it adds a root, or it adds a child  *)
(* for which the parent pays and derives.                                  *)

Edited(x, y) ==
  /\ y.parent = x.parent
  /\ y.budget.money = x.budget.money /\ y.budget.wall = x.budget.wall
  /\ y.budget.used >= x.budget.used
  /\ Charges = {} =>
       /\ y.budget.spent >= x.budget.spent
       /\ y.budget.spent <= x.budget.money \/ y.budget.spent = x.budget.spent

Edits ==
  \E a \in DOMAIN agents, y \in Agent :
    agents' = [agents EXCEPT ![a] = y] /\ Edited(agents[a], y)

Births ==
  /\ \E b \in RootBudgets : agents' = Append(agents, new_agent(Kernel, Budget_new(b[1], b[2])))
  /\ UNCHANGED slots

Delegates ==
  \E a \in DOMAIN agents, c \in DOMAIN slots, u \in Requested, b \in ShareBudgets :
    /\ may_derive(a, c, u)
    /\ may_carve(agents[a].budget, b[1], b[2])
    /\ push_slot(u, Len(agents) + 1, c)
    /\ fund_child(a, b[1], b[2], <<Len(slots) + 1>>)

TreeMove == UNCHANGED agents \/ Edits \/ Births \/ Delegates

(* An agent whose budget changes in one field. *)
LEMMA BudgetFields ==
  ASSUME NEW x \in Agent, NEW n \in Nat
  PROVE  /\ [x EXCEPT !.budget.spent = n] \in Agent
         /\ [x EXCEPT !.budget.spent = n].parent = x.parent
         /\ [x EXCEPT !.budget.spent = n].state = x.state
         /\ [x EXCEPT !.budget.spent = n].budget = [x.budget EXCEPT !.spent = n]
         /\ [x EXCEPT !.budget.used = n] \in Agent
         /\ [x EXCEPT !.budget.used = n].parent = x.parent
         /\ [x EXCEPT !.budget.used = n].state = x.state
         /\ [x EXCEPT !.budget.used = n].budget = [x.budget EXCEPT !.used = n]
         /\ [x.budget EXCEPT !.spent = n].spent = n
         /\ [x.budget EXCEPT !.spent = n].money = x.budget.money
         /\ [x.budget EXCEPT !.spent = n].wall = x.budget.wall
         /\ [x.budget EXCEPT !.spent = n].used = x.budget.used
         /\ [x.budget EXCEPT !.used = n].spent = x.budget.spent
         /\ [x.budget EXCEPT !.used = n].money = x.budget.money
         /\ [x.budget EXCEPT !.used = n].wall = x.budget.wall
         /\ [x.budget EXCEPT !.used = n].used = n
BY DEF Agent, Budgets

(* An agent rewritten outside its budget and its parent is an edit. *)
LEMMA PlainEdit ==
  ASSUME NEW x \in Agent, NEW y \in Agent, y.parent = x.parent, y.budget = x.budget
  PROVE  Edited(x, y)
<1>1. x.budget.spent \in Nat /\ x.budget.used \in Nat
  BY AgentFields
<1> QED
  BY <1>1 DEF Edited

(* Paying within what remains is one, and so is time passing. *)
LEMMA PaidEdit ==
  ASSUME NEW x \in Agent, NEW cost \in Nat, remaining(x.budget) >= cost,
         NEW y \in Agent, y.parent = x.parent,
         y.budget = [x.budget EXCEPT !.spent = x.budget.spent + cost]
  PROVE  Edited(x, y)
<1> DEFINE s == x.budget.spent
           m == x.budget.money
<1>1. s \in Nat /\ m \in Nat /\ x.budget.used \in Nat /\ s + cost \in Nat
  BY AgentFields
<1>2. /\ y.budget.spent = s + cost /\ y.budget.money = m
      /\ y.budget.wall = x.budget.wall /\ y.budget.used = x.budget.used
  BY <1>1, BudgetFields
<1>3. saturating_sub(m, s) >= cost
  BY DEF remaining
<1> HIDE DEF s, m
<1>4. s + cost >= s /\ (s + cost <= m \/ s + cost = s)
  BY <1>1, <1>3 DEF saturating_sub
<1> QED
  BY <1>1, <1>2, <1>4 DEF Edited, s, m

LEMMA TimedEdit ==
  ASSUME NEW x \in Agent, NEW elapsed \in Nat,
         NEW y \in Agent, y.parent = x.parent,
         y.budget = [x.budget EXCEPT !.used = x.budget.used + elapsed]
  PROVE  Edited(x, y)
<1>1. x.budget.spent \in Nat /\ x.budget.used \in Nat /\ x.budget.used + elapsed \in Nat
  BY AgentFields
<1>2. /\ y.budget.spent = x.budget.spent /\ y.budget.money = x.budget.money
      /\ y.budget.wall = x.budget.wall /\ y.budget.used = x.budget.used + elapsed
  BY <1>1, BudgetFields
<1> QED
  BY <1>1, <1>2 DEF Edited

(* A crossing edits its agent. *)
LEMMA CommitEdits ==
  ASSUME GateTypeOK, NEW a \in DOMAIN agents, NEW c, NEW cost \in Nat,
         NEW burn, NEW journal, commit(a, c, cost, burn, journal)
  PROVE  Edits
<1>0. agents \in Seq(Agent) /\ agents[a] \in Agent
  BY DEF GateTypeOK
<1> DEFINE n == agents[a].budget.spent + cost
           y == [agents[a] EXCEPT !.budget.spent = n]
<1>1. n \in Nat
  BY <1>0, AgentFields
<1>2. y \in Agent /\ y.parent = agents[a].parent
      /\ y.budget = [agents[a].budget EXCEPT !.spent = n]
  <2> HIDE DEF n
  <2> QED
    BY <1>0, <1>1, BudgetFields
<1>3. CASE agents' = [agents EXCEPT ![a].state = "Suspended"]
  <2> DEFINE x == [agents[a] EXCEPT !.state = "Suspended"]
  <2>1. x \in Agent /\ x.parent = agents[a].parent /\ x.budget = agents[a].budget
    BY <1>0 DEF Agent, State
  <2>2. agents' = [agents EXCEPT ![a] = x]
    BY <1>3
  <2> HIDE DEF x
  <2> QED
    BY <1>0, <2>1, <2>2, PlainEdit DEF Edits
<1>4. CASE can_pay(a, cost) /\ agents' = [agents EXCEPT ![a].budget.spent = @ + cost]
  <2>1. agents' = [agents EXCEPT ![a] = y]
    BY <1>4
  <2> HIDE DEF y
  <2>2. Edited(agents[a], y)
    BY <1>0, <1>2, <1>4, PaidEdit DEF can_pay
  <2> QED
    BY <1>2, <2>1, <2>2 DEF Edits
<1>5. CASE can_pay(a, cost) /\ agents' = [agents EXCEPT ![a].budget.spent = @ + cost,
                                                        ![a].awaiting = NoRequest]
  <2> DEFINE x == [y EXCEPT !.awaiting = NoRequest]
  <2>1. agents' = [agents EXCEPT ![a] = x]
    BY <1>0, <1>5
  <2> HIDE DEF y
  <2>2. x \in Agent /\ x.parent = y.parent /\ x.budget = y.budget
    BY <1>2 DEF Agent, NoRequest
  <2> HIDE DEF x
  <2>3. Edited(agents[a], x)
    BY <1>0, <1>2, <1>5, <2>2, PaidEdit DEF can_pay
  <2> QED
    BY <2>1, <2>2, <2>3 DEF Edits
<1> QED
  BY <1>3, <1>4, <1>5 DEF commit

(* The report of a step, after the time is charged. *)
LEMMA ReportEdits ==
  ASSUME GateTypeOK, NEW progress \in Reports, NEW elapsed \in Elapsed,
         StepEnd(progress, elapsed)
  PROVE  Edits
<1> DEFINE a == running
           n == agents[a].budget.used + elapsed
           y == [agents[a] EXCEPT !.budget.used = n]
<1>0. a \in DOMAIN agents /\ agents[a] \in Agent /\ elapsed \in Nat
  BY GateAssumption DEF GateTypeOK, StepEnd
<1>1. n \in Nat
  BY <1>0, AgentFields
<1>2. /\ y \in Agent /\ y.parent = agents[a].parent
      /\ y.budget = [agents[a].budget EXCEPT !.used = n]
  <2> HIDE DEF n
  <2> QED
    BY <1>0, <1>1, BudgetFields
<1>3. \/ agents' = [agents EXCEPT ![a] = y]
      \/ \E s \in State : agents' = [agents EXCEPT ![a] = [y EXCEPT !.state = s]]
  BY DEF StepEnd, State
<1> HIDE DEF y, a
<1>4. \A s \in State : /\ [y EXCEPT !.state = s] \in Agent
                       /\ [y EXCEPT !.state = s].parent = y.parent
                       /\ [y EXCEPT !.state = s].budget = y.budget
  BY <1>2 DEF Agent
<1>5. \A x \in Agent : x.parent = y.parent /\ x.budget = y.budget => Edited(agents[a], x)
  BY <1>0, <1>2, TimedEdit
<1> QED
  BY <1>0, <1>2, <1>3, <1>4, <1>5 DEF Edits

(* Every step of the gate moves the tree so, or not at all. *)
LEMMA TreeMoves ==
  ASSUME GateTypeOK, GateNext
  PROVE  TreeMove
<1>0. /\ \A a \in DOMAIN agents : agents[a] \in Agent
      /\ \A c \in DOMAIN slots : slots[c] \in Slot
      /\ Len(slots) + 1 \in Nat /\ Len(approvals) + 1 \in Nat
  BY DEF GateTypeOK, AmanTypeOK
<1>1. CASE NewAgents
  BY <1>1 DEF NewAgents, spawn, gate_delegate, TreeMove, Births, Delegates
<1>2. CASE NewSlots
  <2>1. ASSUME NEW a \in DOMAIN agents,
               agents' = [agents EXCEPT ![a] = push_capability(@, Len(slots) + 1)]
        PROVE  Edits
    <3> DEFINE x == push_capability(agents[a], Len(slots) + 1)
    <3>1. x \in Agent
      BY <1>0, AgentRewrites
    <3>2. x.parent = agents[a].parent /\ x.budget = agents[a].budget
      BY <1>0 DEF push_capability, Agent
    <3>3. agents' = [agents EXCEPT ![a] = x]
      BY <2>1
    <3> HIDE DEF x
    <3> QED
      BY <1>0, <3>1, <3>2, <3>3, PlainEdit DEF Edits
  <2> QED
    BY <1>2, <2>1 DEF NewSlots, grant, gate_attenuate, TreeMove
<1>3. CASE Verbs
  <2>1. ASSUME NEW a \in DOMAIN agents, NEW c \in DOMAIN slots, NEW journal,
               crossing(a, c, journal)
        PROVE  TreeMove
    <3>1. price_of(slots[c].authority) \in Nat
      BY <1>0, PriceIsNat DEF Slot
    <3> QED
      BY <2>1, <3>1, CommitEdits DEF crossing, TreeMove
  <2>2. ASSUME NEW a \in DOMAIN agents, NEW c \in DOMAIN slots, NEW amount \in SpendAmounts,
               spend(a, c, amount)
        PROVE  TreeMove
    BY <2>2, GateAssumption, CommitEdits DEF spend, TreeMove
  <2>3. ASSUME NEW a \in DOMAIN agents, NEW c \in DOMAIN slots, request_approval(a, c)
        PROVE  TreeMove
    <3> DEFINE x == [agents[a] EXCEPT !.awaiting = Len(approvals) + 1]
    <3>1. x \in Agent /\ x.parent = agents[a].parent /\ x.budget = agents[a].budget
      BY <1>0 DEF Agent
    <3>2. agents' = agents \/ agents' = [agents EXCEPT ![a] = x]
      BY <2>3 DEF request_approval
    <3> HIDE DEF x
    <3> QED
      BY <1>0, <3>1, <3>2, PlainEdit DEF TreeMove, Edits
  <2> QED
    BY <1>3, <2>1, <2>2, <2>3 DEF Verbs, invoke, remember
<1>4. CASE KernelCalls
  <2>1. ASSUME NEW r \in DOMAIN approvals, NEW yes \in BOOLEAN, answer_approval(r, yes)
        PROVE  TreeMove
    <3> DEFINE a == approvals[r].agent
               x == answered_agent(agents[a], yes)
    <3>1. a \in DOMAIN agents
      BY DEF GateTypeOK
    <3>2. x \in Agent /\ x.parent = agents[a].parent /\ x.budget = agents[a].budget
      BY <1>0, <3>1 DEF answered_agent, Agent, State, NoRequest
    <3>3. agents' = agents \/ agents' = [agents EXCEPT ![a] = x]
      BY <2>1 DEF answer_approval
    <3> HIDE DEF x, a
    <3> QED
      BY <1>0, <3>1, <3>2, <3>3, PlainEdit DEF TreeMove, Edits
  <2>2. ASSUME NEW a \in DOMAIN agents, NEW amount \in Charges, charge(a, amount)
        PROVE  TreeMove
    <3> DEFINE n == saturating_add(agents[a].budget.spent, amount)
               b == [agents[a].budget EXCEPT !.spent = n]
    <3>1. n \in Nat /\ agents[a].budget.used \in Nat
      BY <1>0, AgentFields, GateAssumption, WordMaxAssumption DEF saturating_add
    <3>2. /\ b \in Budgets /\ b.money = agents[a].budget.money
          /\ b.wall = agents[a].budget.wall /\ b.used = agents[a].budget.used
      BY <1>0, <3>1, BudgetFields, AgentRewrites
    <3>3. \/ agents' = [agents EXCEPT ![a].budget = b]
          \/ agents' = [agents EXCEPT ![a].budget = b, ![a].state = "Suspended"]
      BY <2>2 DEF charge
    <3> HIDE DEF b, n
    <3> DEFINE x == [agents[a] EXCEPT !.budget = b]
               y == [x EXCEPT !.state = "Suspended"]
    <3>4. /\ x \in Agent /\ x.parent = agents[a].parent /\ x.budget = b
          /\ y \in Agent /\ y.parent = agents[a].parent /\ y.budget = b
      BY <1>0, <3>2 DEF Agent, State
    <3>5. agents' = [agents EXCEPT ![a] = x] \/ agents' = [agents EXCEPT ![a] = y]
      BY <1>0, <3>3
    <3>6. Charges # {}
      OBVIOUS
    <3> HIDE DEF x, y
    <3> QED
      BY <3>1, <3>2, <3>4, <3>5, <3>6 DEF TreeMove, Edits, Edited
  <2> QED
    BY <1>4, <2>1, <2>2 DEF KernelCalls, revoke, TreeMove
<1>5. CASE Steps
  BY <1>5, ReportEdits DEF Steps, StepBegin, TreeMove
<1> QED
  BY <1>1, <1>2, <1>3, <1>4, <1>5 DEF GateNext

(* What an element put at the end leaves alone. *)
LEMMA Appended ==
  ASSUME NEW S, NEW s \in Seq(S), NEW x
  PROVE  /\ DOMAIN Append(s, x) = 1..(Len(s) + 1)
         /\ \A i \in 1..Len(s) : Append(s, x)[i] = s[i]
         /\ Append(s, x)[Len(s) + 1] = x
OBVIOUS

(* A funded child joins at the end; its parent pays; nobody else changes.  *)
LEMMA Funded ==
  ASSUME GateTypeOK, NEW a \in DOMAIN agents, NEW m \in Nat, NEW w \in Nat,
         fund_child(a, m, w, <<Len(slots) + 1>>)
  PROVE  /\ DOMAIN agents' = DOMAIN agents \cup {Len(agents) + 1}
         /\ Len(agents) + 1 \notin DOMAIN agents
         /\ \A i \in DOMAIN agents : i # a => agents'[i] = agents[i]
         /\ agents'[a] = [agents[a] EXCEPT !.budget = carved(@, m, w)]
         /\ agents'[Len(agents) + 1].parent = a
         /\ agents'[Len(agents) + 1].budget = Budget_new(m, w)
<1> DEFINE b == carved(agents[a].budget, m, w)
           s == [agents EXCEPT ![a].budget = b]
           x == [new_agent(a, Budget_new(m, w)) EXCEPT !.capabilities = <<Len(slots) + 1>>]
<1>0. /\ agents \in Seq(Agent) /\ DOMAIN agents = 1..Len(agents) /\ Len(agents) \in Nat
      /\ agents[a] \in Agent /\ agents[a].budget \in Budgets
  BY AgentFields DEF GateTypeOK
<1>1. b \in Budgets
  BY <1>0, CarvedBudget
<1>2. x.parent = a /\ x.budget = Budget_new(m, w)
  BY DEF new_agent
<1>3. agents' = Append(s, x)
  BY DEF fund_child
<1> HIDE DEF b, x
<1>4. s \in Seq(Agent) /\ Len(s) = Len(agents)
      /\ s[a] = [agents[a] EXCEPT !.budget = b]
      /\ \A i \in DOMAIN agents : i # a => s[i] = agents[i]
  <2>1. [agents[a] EXCEPT !.budget = b] \in Agent
    BY <1>0, <1>1, AgentRewrites
  <2> QED
    BY <1>0, <2>1
<1> HIDE DEF s
<1>5. /\ DOMAIN agents' = 1..(Len(agents) + 1)
      /\ \A i \in DOMAIN agents : agents'[i] = s[i]
      /\ agents'[Len(agents) + 1] = x
  <2>1. s \in Seq(Agent) /\ Len(s) = Len(agents) /\ DOMAIN agents = 1..Len(s)
    BY <1>0, <1>4
  <2> QED
    BY <1>3, <2>1, Appended
<1>6. 1..(Len(agents) + 1) = DOMAIN agents \cup {Len(agents) + 1} /\ Len(agents) + 1 \notin DOMAIN agents
  BY <1>0
<1> QED
  BY <1>2, <1>4, <1>5, <1>6 DEF b

(* A root agent joins at the end; nobody changes. *)
LEMMA Born ==
  ASSUME GateTypeOK, NEW m, NEW w,
         agents' = Append(agents, new_agent(Kernel, Budget_new(m, w)))
  PROVE  /\ DOMAIN agents' = DOMAIN agents \cup {Len(agents) + 1}
         /\ Len(agents) + 1 \notin DOMAIN agents
         /\ \A i \in DOMAIN agents : agents'[i] = agents[i]
         /\ agents'[Len(agents) + 1].parent = Kernel
         /\ agents'[Len(agents) + 1].budget = Budget_new(m, w)
<1> DEFINE x == new_agent(Kernel, Budget_new(m, w))
<1>0. agents \in Seq(Agent) /\ DOMAIN agents = 1..Len(agents) /\ Len(agents) \in Nat
  BY DEF GateTypeOK
<1>1. x.parent = Kernel /\ x.budget = Budget_new(m, w)
  BY DEF new_agent
<1> HIDE DEF x
<1>2. /\ DOMAIN agents' = 1..(Len(agents) + 1)
      /\ \A i \in DOMAIN agents : agents'[i] = agents[i]
      /\ agents'[Len(agents) + 1] = x
  BY <1>0 DEF x
<1>3. 1..(Len(agents) + 1) = DOMAIN agents \cup {Len(agents) + 1} /\ Len(agents) + 1 \notin DOMAIN agents
  BY <1>0
<1> QED
  BY <1>1, <1>2, <1>3

-----------------------------------------------------------------------------
(* Authority. *)

(* Nobody changes parents, no slot its holder or origin. *)
TreeKept ==
  /\ \A a \in DOMAIN agents : a \in DOMAIN agents' /\ agents'[a].parent = agents[a].parent
  /\ \A c \in DOMAIN slots : /\ c \in DOMAIN slots'
                             /\ slots'[c].holder = slots[c].holder
                             /\ slots'[c].parent = slots[c].parent

(* A slot derived in this step is held by the holder of the one it comes   *)
(* from or by that holder's new child; a child that joins has such a slot. *)
NewSlotsFit ==
  \A c \in DOMAIN slots' \ DOMAIN slots :
    LET p == slots'[c].parent
    IN  p # NoParent =>
          /\ p \in DOMAIN slots
          /\ \/ slots'[c].holder = slots[p].holder
             \/ agents'[slots'[c].holder].parent = slots[p].holder

NewAgentsFit ==
  \A a \in DOMAIN agents' \ DOMAIN agents :
    agents'[a].parent # Kernel =>
      \E c \in DOMAIN slots' :
        /\ slots'[c].holder = a
        /\ slots'[c].parent # NoParent
        /\ slots'[c].parent \in DOMAIN slots
        /\ slots[slots'[c].parent].holder = agents'[a].parent

(* A pushed slot, and what it leaves alone.                                *)
LEMMA Pushed ==
  ASSUME GateTypeOK, NEW u \in Requested, NEW h \in Nat, NEW p \in Nat, push_slot(u, h, p)
  PROVE  /\ DOMAIN slots' \ DOMAIN slots \subseteq {Len(slots) + 1}
         /\ DOMAIN slots \subseteq DOMAIN slots'
         /\ Len(slots) + 1 \in DOMAIN slots'
         /\ \A c \in DOMAIN slots : slots'[c] = slots[c]
         /\ slots'[Len(slots) + 1].holder = h
         /\ slots'[Len(slots) + 1].parent = p
<1>1. slots \in Seq(Slot)
  BY DEF GateTypeOK, AmanTypeOK
<1>2. /\ DOMAIN slots' = DOMAIN slots \cup {Len(slots) + 1}
      /\ \A i \in DOMAIN slots : slots'[i] = slots[i]
      /\ slots'[Len(slots) + 1] =
           [authority |-> u, holder |-> h, parent |-> p, revoked |-> FALSE]
  BY <1>1, PushSlot, RequestedAssumption
<1> QED
  BY <1>2

(* Whatever the table does, old slots keep holder and origin. *)
LEMMA SlotsKept ==
  ASSUME GateTypeOK, TableStep
  PROVE  \A c \in DOMAIN slots : /\ c \in DOMAIN slots'
                                 /\ slots'[c].holder = slots[c].holder
                                 /\ slots'[c].parent = slots[c].parent
<1>1. slots \in Seq(Slot) /\ DOMAIN slots \subseteq Nat
  BY DEF GateTypeOK, AmanTypeOK
<1>2. CASE Mints
  BY <1>1, <1>2, PushSlot, RequestedAssumption DEF Mints, NoParent
<1>3. CASE Derives
  BY <1>1, <1>3, PushSlot, RequestedAssumption DEF Derives
<1>4. CASE Revokes
  BY <1>1, <1>4, RewriteFlags DEF Revokes
<1> QED
  BY <1>2, <1>3, <1>4 DEF TableStep

(* Whatever the gate does, old agents keep their parent. *)
LEMMA ParentsKept ==
  ASSUME GateTypeOK, TreeMove
  PROVE  \A a \in DOMAIN agents : a \in DOMAIN agents' /\ agents'[a].parent = agents[a].parent
<1>0. \A a \in DOMAIN agents : agents[a] \in Agent
  BY DEF GateTypeOK
<1>1. CASE Edits
  BY <1>1 DEF Edits, Edited
<1>2. CASE Births
  BY <1>2, Born DEF Births
<1>3. CASE Delegates
  <2>1. PICK a \in DOMAIN agents, b \in ShareBudgets :
          fund_child(a, b[1], b[2], <<Len(slots) + 1>>)
    BY <1>3 DEF Delegates
  <2>2. b[1] \in Nat /\ b[2] \in Nat
    BY GateAssumption
  <2>3. [agents[a] EXCEPT !.budget = carved(@, b[1], b[2])].parent = agents[a].parent
    BY <1>0 DEF Agent
  <2>4. /\ DOMAIN agents \subseteq DOMAIN agents'
        /\ \A i \in DOMAIN agents : i # a => agents'[i] = agents[i]
        /\ agents'[a] = [agents[a] EXCEPT !.budget = carved(@, b[1], b[2])]
    BY <2>1, <2>2, Funded
  <2> QED
    BY <2>3, <2>4
<1> QED
  BY <1>1, <1>2, <1>3 DEF TreeMove

(* Every step grows the tree so. *)
LEMMA TreeSteps ==
  ASSUME GateTypeOK, GateNext
  PROVE  TreeKept /\ NewSlotsFit /\ NewAgentsFit
<1>0. /\ DOMAIN agents = 1..Len(agents) /\ Len(agents) \in Nat
      /\ DOMAIN slots \subseteq Nat
      /\ agents \in Seq(Agent)
  BY DEF GateTypeOK, AmanTypeOK
<1>1. TreeKept
  BY TreeMoves, GateTableSteps, ParentsKept, SlotsKept DEF TreeKept
<1>2. CASE NewAgents
  <2>1. ASSUME NEW b \in RootBudgets, spawn(Budget_new(b[1], b[2]))
        PROVE  NewSlotsFit /\ NewAgentsFit
    <3>1. /\ DOMAIN agents' = DOMAIN agents \cup {Len(agents) + 1}
          /\ agents'[Len(agents) + 1].parent = Kernel
      BY <2>1, Born DEF spawn
    <3> QED
      BY <2>1, <3>1 DEF spawn, NewSlotsFit, NewAgentsFit
  <2>2. ASSUME NEW a \in DOMAIN agents, NEW c \in DOMAIN slots, NEW u \in Requested,
               NEW b \in ShareBudgets, gate_delegate(a, c, u, b[1], b[2])
        PROVE  NewSlotsFit /\ NewAgentsFit
    <3>1. CASE UNCHANGED <<agents, slots>>
      BY <3>1 DEF NewSlotsFit, NewAgentsFit
    <3>2. CASE /\ may_derive(a, c, u)
               /\ push_slot(u, Len(agents) + 1, c)
               /\ fund_child(a, b[1], b[2], <<Len(slots) + 1>>)
      <4>1. b[1] \in Nat /\ b[2] \in Nat /\ Len(agents) + 1 \in Nat /\ c \in Nat
        BY <1>0, GateAssumption
      <4>2. /\ DOMAIN agents' = DOMAIN agents \cup {Len(agents) + 1}
            /\ agents'[Len(agents) + 1].parent = a
        BY <3>2, <4>1, Funded
      <4>3. /\ DOMAIN slots' \ DOMAIN slots \subseteq {Len(slots) + 1}
            /\ Len(slots) + 1 \in DOMAIN slots'
            /\ slots'[Len(slots) + 1].holder = Len(agents) + 1
            /\ slots'[Len(slots) + 1].parent = c
        BY <3>2, <4>1, Pushed
      <4>4. slots[c].holder = a /\ c # NoParent
        BY <3>2, <1>0 DEF may_derive, lookup, NoParent, GateTypeOK, AmanTypeOK
      <4> QED
        BY <4>2, <4>3, <4>4 DEF NewSlotsFit, NewAgentsFit
    <3> QED
      BY <2>2, <3>1, <3>2 DEF gate_delegate, deny
  <2> QED
    BY <1>1, <1>2, <2>1, <2>2 DEF NewAgents
<1>3. CASE NewSlots
  <2>1. PICK a \in DOMAIN agents, u \in Requested :
               grant(a, u) \/ \E c \in DOMAIN slots : gate_attenuate(a, c, u)
    BY <1>3 DEF NewSlots
  <2>2. a \in Nat /\ NoParent \in Nat
    BY <1>0 DEF NoParent
  <2>3. DOMAIN agents' = DOMAIN agents
    BY <2>1 DEF grant, gate_attenuate
  <2>4. NewAgentsFit
    BY <2>3 DEF NewAgentsFit
  <2>5. CASE grant(a, u)
    <3>1. push_slot(u, a, NoParent)
      BY <2>5 DEF grant, mint
    <3> QED
      BY <1>1, <2>2, <2>4, <3>1, Pushed DEF NewSlotsFit
  <2>6. ASSUME NEW c \in DOMAIN slots, gate_attenuate(a, c, u)
        PROVE  NewSlotsFit
    <3>1. CASE UNCHANGED slots
      BY <3>1 DEF NewSlotsFit
    <3>2. CASE push_slot(u, a, c) /\ may_derive(a, c, u)
      <4>1. slots[c].holder = a /\ c \in Nat
        BY <1>0, <3>2 DEF may_derive, lookup
      <4> QED
        BY <2>2, <3>2, <4>1, Pushed DEF NewSlotsFit
    <3> QED
      BY <2>6, <3>1, <3>2 DEF gate_attenuate, attenuate, derive, deny
  <2> QED
    BY <1>1, <2>1, <2>4, <2>5, <2>6
<1>4. CASE Verbs \/ KernelCalls \/ Steps
  <2>1. DOMAIN slots' = DOMAIN slots
    BY <1>4, VerbsLeave DEF KernelCalls, answer_approval, charge, revoke, revoke_tree,
                            Steps, StepBegin, StepEnd
  <2>2. DOMAIN agents' = DOMAIN agents
    <3>1. CASE Verbs
      <4>1. ASSUME NEW a, NEW c, NEW cost, NEW burn, NEW journal,
                   commit(a, c, cost, burn, journal)
            PROVE  DOMAIN agents' = DOMAIN agents
        BY <4>1 DEF commit
      <4>2. ASSUME NEW a, NEW c, request_approval(a, c)  PROVE DOMAIN agents' = DOMAIN agents
        BY <4>2 DEF request_approval
      <4>3. ASSUME NEW a, NEW c, NEW journal, crossing(a, c, journal)
            PROVE  DOMAIN agents' = DOMAIN agents
        BY <4>1, <4>3 DEF crossing
      <4>4. ASSUME NEW a, NEW c, NEW amount, spend(a, c, amount)
            PROVE  DOMAIN agents' = DOMAIN agents
        BY <4>1, <4>4 DEF spend
      <4> QED
        BY <3>1, <4>2, <4>3, <4>4 DEF Verbs, invoke, remember
    <3>2. CASE KernelCalls
      BY <3>2 DEF KernelCalls, answer_approval, charge, revoke
    <3>3. CASE Steps
      BY <3>3 DEF Steps, StepBegin, StepEnd
    <3> QED
      BY <1>4, <3>1, <3>2, <3>3
  <2> QED
    BY <1>1, <2>1, <2>2 DEF NewSlotsFit, NewAgentsFit
<1> QED
  BY <1>1, <1>2, <1>3, <1>4 DEF GateNext

(* Authority flows down the tree only.  The step law is enough: the laws   *)
(* speak of holders and parents, which no step changes.                    *)
THEOREM AuthorityGoesDown == GateSpec => []AuthorityFlowsDown
<1> DEFINE Held ==
      \A c \in DOMAIN slots :
        Parent(c) # NoParent =>
          \/ slots[c].holder = slots[Parent(c)].holder
          \/ agents[slots[c].holder].parent = slots[Parent(c)].holder
<1>1. GateInit => Held
  BY DEF GateInit, AmanInit
<1>2. GateTypeOK /\ LineageInv /\ Held /\ [GateNext]_gateVars => Held'
  <2>1. ASSUME GateTypeOK, LineageInv, Held, GateNext  PROVE Held'
    <3>1. TreeKept /\ NewSlotsFit
      BY <2>1, TreeSteps
    <3> SUFFICES ASSUME NEW c \in DOMAIN slots', slots'[c].parent # NoParent
                 PROVE  \/ slots'[c].holder = slots'[slots'[c].parent].holder
                        \/ agents'[slots'[c].holder].parent = slots'[slots'[c].parent].holder
      BY DEF Parent
    <3>2. CASE c \in DOMAIN slots
      <4>1. slots[c].parent \in DOMAIN slots /\ slots[c].parent # NoParent
        <5>1. OlderParent(c) /\ DOMAIN slots = 1..Len(slots) /\ Len(slots) \in Nat
          BY <2>1, <3>2 DEF LineageInv, GateTypeOK, AmanTypeOK
        <5>2. slots[c].parent # NoParent
          BY <3>1, <3>2 DEF TreeKept
        <5> QED
          BY <3>2, <5>1, <5>2 DEF OlderParent, Parent
      <4>2. slots[c].holder \in DOMAIN agents
        BY <2>1, <3>2 DEF GateTypeOK
      <4>3. \/ slots[c].holder = slots[slots[c].parent].holder
            \/ agents[slots[c].holder].parent = slots[slots[c].parent].holder
        BY <2>1, <3>2, <4>1 DEF Parent
      <4> QED
        BY <3>1, <3>2, <4>1, <4>2, <4>3 DEF TreeKept
    <3>3. CASE c \notin DOMAIN slots
      BY <3>1, <3>3 DEF TreeKept, NewSlotsFit
    <3> QED
      BY <3>2, <3>3
  <2>2. ASSUME Held, UNCHANGED gateVars  PROVE Held'
    BY <2>2 DEF gateVars, Parent
  <2> QED
    BY <2>1, <2>2
<1>3. LineageInv /\ Held => AuthorityFlowsDown
  BY DEF AuthorityFlowsDown
<1> HIDE DEF Held
<1> QED
  BY <1>1, <1>2, <1>3, GateTyped, GateLineage, PTL DEF GateSpec

(* No step leaves a child behind without the capability it was spawned     *)
(* for: refused delegations add nobody.                                    *)
THEOREM NobodyIsOrphaned == GateSpec => []NoOrphans
<1>1. GateInit => NoOrphans
  BY DEF GateInit, NoOrphans
<1>2. GateTypeOK /\ LineageInv /\ NoOrphans /\ [GateNext]_gateVars => NoOrphans'
  <2>1. ASSUME GateTypeOK, LineageInv, NoOrphans, GateNext  PROVE NoOrphans'
    <3>1. TreeKept /\ NewAgentsFit
      BY <2>1, TreeSteps
    <3> SUFFICES ASSUME NEW a \in DOMAIN agents', agents'[a].parent # Kernel
                 PROVE  \E c \in DOMAIN slots' :
                          /\ slots'[c].holder = a
                          /\ slots'[c].parent # NoParent
                          /\ slots'[slots'[c].parent].holder = agents'[a].parent
      BY DEF NoOrphans, Parent
    <3>2. CASE a \in DOMAIN agents
      <4>1. agents[a].parent # Kernel
        BY <3>1, <3>2 DEF TreeKept
      <4>2. PICK c \in DOMAIN slots : /\ slots[c].holder = a
                                      /\ Parent(c) # NoParent
                                      /\ slots[Parent(c)].holder = agents[a].parent
        BY <2>1, <3>2, <4>1 DEF NoOrphans
      <4>3. slots[c].parent \in DOMAIN slots
        <5>1. OlderParent(c) /\ DOMAIN slots = 1..Len(slots) /\ Len(slots) \in Nat
          BY <2>1 DEF LineageInv, GateTypeOK, AmanTypeOK
        <5> QED
          BY <4>2, <5>1 DEF OlderParent, Parent
      <4> QED
        BY <3>1, <3>2, <4>2, <4>3 DEF TreeKept, Parent
    <3>3. CASE a \notin DOMAIN agents
      BY <3>1, <3>3 DEF TreeKept, NewAgentsFit
    <3> QED
      BY <3>2, <3>3
  <2>2. ASSUME NoOrphans, UNCHANGED gateVars  PROVE NoOrphans'
    BY <2>2 DEF NoOrphans, gateVars, Parent
  <2> QED
    BY <2>1, <2>2
<1> QED
  BY <1>1, <1>2, GateTyped, GateLineage, PTL DEF GateSpec

-----------------------------------------------------------------------------
(* Stopping.  What a step may do to the states of the agents there are:    *)
(* nothing; suspend one and say so; decide the question one awaits; apply  *)
(* the report of the one that runs.                                        *)

OthersKept(a) == \A d \in DOMAIN agents : d # a => agents'[d].state = agents[d].state

StatesKept == \A d \in DOMAIN agents : agents'[d].state = agents[d].state

Suspends ==
  \E a \in DOMAIN agents :
    /\ OthersKept(a)
    /\ agents'[a].state = "Suspended"
    /\ emitted' = <<entry(a, "BudgetExhausted")>>

Answers ==
  \E r \in DOMAIN approvals :
    LET a == approvals[r].agent
    IN  /\ a \in DOMAIN agents
        /\ OthersKept(a)
        /\ agents[a].awaiting = r /\ Open(r) /\ approvals'[r].answered # "None"
        /\ \/ agents'[a].state = "Runnable"
           \/ agents'[a].state = "Killed" /\ emitted' = <<entry(a, "Rejected")>>

Reported ==
  /\ running \in DOMAIN agents
  /\ OthersKept(running)
  /\ agents[running].state # "Suspended"
  /\ \/ agents'[running].state = "AwaitingConsent"
     \/ /\ agents'[running].state \in {"Finished", "Killed"}
        /\ emitted' = <<entry(running, "Finished")>>

StateMove == StatesKept \/ Suspends \/ Answers \/ Reported

(* Paying or being suspended. *)
LEMMA CommitMoves ==
  ASSUME GateTypeOK, NEW a \in DOMAIN agents, NEW c, NEW cost, NEW burn, NEW journal,
         commit(a, c, cost, burn, journal)
  PROVE  StatesKept \/ Suspends
<1>0. agents \in Seq(Agent) /\ \A d \in DOMAIN agents : agents[d] \in Agent
  BY DEF GateTypeOK
<1>1. CASE agents' = [agents EXCEPT ![a].state = "Suspended"] /\ emitted' = suspension(a)
  BY <1>0, <1>1 DEF suspension, Suspends, OthersKept, Agent
<1>2. CASE agents' = [agents EXCEPT ![a].budget.spent = @ + cost]
  BY <1>0, <1>2 DEF StatesKept, Agent
<1>3. CASE agents' = [agents EXCEPT ![a].budget.spent = @ + cost, ![a].awaiting = NoRequest]
  BY <1>0, <1>3 DEF StatesKept, Agent
<1> QED
  BY <1>1, <1>2, <1>3 DEF commit

(* Spawning, deriving and the verbs at most suspend. *)
LEMMA QuietMoves ==
  ASSUME GateTypeOK, NewAgents \/ NewSlots \/ Verbs
  PROVE  StatesKept \/ Suspends
<1>0. /\ agents \in Seq(Agent) /\ \A d \in DOMAIN agents : agents[d] \in Agent
      /\ approvals \in Seq(ApprovalRequest)
      /\ \A r \in DOMAIN approvals : /\ approvals[r] \in ApprovalRequest
                                     /\ approvals[r].agent \in DOMAIN agents
  BY DEF GateTypeOK
<1>1. CASE NewAgents
  <2>1. ASSUME NEW a \in DOMAIN agents, NEW b \in ShareBudgets,
               fund_child(a, b[1], b[2], <<Len(slots) + 1>>)
        PROVE  StatesKept
    <3>1. b[1] \in Nat /\ b[2] \in Nat
      BY GateAssumption
    <3>2. /\ \A i \in DOMAIN agents : i # a => agents'[i] = agents[i]
          /\ agents'[a] = [agents[a] EXCEPT !.budget = carved(@, b[1], b[2])]
      BY <2>1, <3>1, Funded
    <3>3. agents'[a].state = agents[a].state
      BY <1>0, <3>2 DEF Agent
    <3> QED
      BY <3>2, <3>3 DEF StatesKept
  <2>2. ASSUME NEW b, spawn(Budget_new(b[1], b[2]))  PROVE StatesKept
    BY <2>2, Born DEF spawn, StatesKept
  <2>3. ASSUME UNCHANGED agents  PROVE StatesKept
    BY <2>3 DEF StatesKept
  <2>4. ASSUME NEW a \in DOMAIN agents, NEW c, NEW u, NEW b \in ShareBudgets,
               gate_delegate(a, c, u, b[1], b[2])
        PROVE  StatesKept
    BY <2>1, <2>3, <2>4 DEF gate_delegate
  <2> QED
    BY <1>1, <2>2, <2>4 DEF NewAgents
<1>2. CASE NewSlots
  <2>1. ASSUME NEW a \in DOMAIN agents, NEW c, agents' = [agents EXCEPT ![a] = push_capability(@, c)]
        PROVE  StatesKept
    <3>1. push_capability(agents[a], c).state = agents[a].state
      BY <1>0 DEF push_capability, Agent
    <3> QED
      BY <2>1, <3>1 DEF StatesKept
  <2>2. ASSUME UNCHANGED agents  PROVE StatesKept
    BY <2>2 DEF StatesKept
  <2> QED
    BY <1>2, <2>1, <2>2 DEF NewSlots, grant, gate_attenuate
<1>3. CASE Verbs
  <2>1. ASSUME UNCHANGED agents  PROVE StatesKept
    BY <2>1 DEF StatesKept
  <2>2. ASSUME NEW a \in DOMAIN agents, NEW c, NEW journal, crossing(a, c, journal)
        PROVE  StatesKept \/ Suspends
    BY <2>1, <2>2, CommitMoves DEF crossing
  <2>3. ASSUME NEW a \in DOMAIN agents, NEW c, NEW amount, spend(a, c, amount)
        PROVE  StatesKept \/ Suspends
    BY <2>1, <2>3, CommitMoves DEF spend
  <2>4. ASSUME NEW a \in DOMAIN agents, NEW c, request_approval(a, c)
        PROVE  StatesKept
    <3>1. CASE agents' = [agents EXCEPT ![a].awaiting = Len(approvals) + 1]
      BY <1>0, <3>1 DEF StatesKept, Agent
    <3> QED
      BY <2>1, <2>4, <3>1 DEF request_approval
  <2> QED
    BY <1>3, <2>2, <2>3, <2>4 DEF Verbs, invoke, remember
<1> QED
  BY <1>1, <1>2, <1>3

(* Every step of the gate moves the states so. *)
LEMMA StateMoves ==
  ASSUME GateTypeOK, GateNext
  PROVE  StateMove
<1>0. /\ agents \in Seq(Agent) /\ \A d \in DOMAIN agents : agents[d] \in Agent
      /\ approvals \in Seq(ApprovalRequest)
      /\ \A r \in DOMAIN approvals : /\ approvals[r] \in ApprovalRequest
                                     /\ approvals[r].agent \in DOMAIN agents
  BY DEF GateTypeOK
<1>1. CASE NewAgents \/ NewSlots \/ Verbs
  BY <1>1, QuietMoves DEF StateMove
<1>4. CASE KernelCalls
  <2>1. ASSUME UNCHANGED agents  PROVE StatesKept
    BY <2>1 DEF StatesKept
  <2>2. ASSUME NEW r \in DOMAIN approvals, NEW yes \in BOOLEAN, answer_approval(r, yes)
        PROVE  StatesKept \/ Answers
    <3> DEFINE a == approvals[r].agent
    <3>1. a \in DOMAIN agents /\ agents[a] \in Agent /\ approvals[r] \in ApprovalRequest
      BY <1>0
    <3>2. CASE agents[a].awaiting # r
      BY <2>1, <2>2, <3>2 DEF answer_approval
    <3>3. CASE agents[a].awaiting = r
      <4>1. /\ agents' = [agents EXCEPT ![a] = answered_agent(agents[a], yes)]
            /\ emitted' = <<entry(a, IF yes THEN "Approved" ELSE "Rejected")>>
            /\ Open(r)
            /\ approvals' = [approvals EXCEPT ![r].answered = IF yes THEN "Yes" ELSE "No"]
        BY <2>2, <3>3 DEF answer_approval, may_answer
      <4>2. /\ yes => answered_agent(agents[a], yes).state = "Runnable"
            /\ ~yes => answered_agent(agents[a], yes).state = "Killed"
        BY <3>1 DEF answered_agent, Agent
      <4>3. approvals'[r].answered # "None"
        BY <1>0, <3>1, <4>1 DEF ApprovalRequest
      <4>4. OthersKept(a) /\ agents'[a] = answered_agent(agents[a], yes)
        BY <3>1, <4>1 DEF OthersKept
      <4>5. \/ agents'[a].state = "Runnable"
            \/ agents'[a].state = "Killed" /\ emitted' = <<entry(a, "Rejected")>>
        BY <4>1, <4>2, <4>4
      <4> QED
        BY <3>1, <3>3, <4>1, <4>3, <4>4, <4>5 DEF Answers
    <3> QED
      BY <3>2, <3>3
  <2>3. ASSUME NEW a \in DOMAIN agents, NEW amount, charge(a, amount)
        PROVE  StatesKept \/ Suspends
    <3> DEFINE b == [agents[a].budget EXCEPT !.spent = saturating_add(@, amount)]
    <3>1. \/ /\ agents' = [agents EXCEPT ![a].budget = b, ![a].state = "Suspended"]
             /\ emitted' = suspension(a)
          \/ agents' = [agents EXCEPT ![a].budget = b]
      BY <2>3 DEF charge
    <3> HIDE DEF b
    <3>2. CASE /\ agents' = [agents EXCEPT ![a].budget = b, ![a].state = "Suspended"]
               /\ emitted' = suspension(a)
      BY <1>0, <3>2 DEF Suspends, OthersKept, suspension, Agent
    <3>3. CASE agents' = [agents EXCEPT ![a].budget = b]
      BY <1>0, <3>3 DEF StatesKept, Agent
    <3> QED
      BY <3>1, <3>2, <3>3
  <2> QED
    BY <1>4, <2>1, <2>2, <2>3 DEF KernelCalls, revoke, StateMove
<1>5. CASE Steps
  <2>1. ASSUME NEW a, StepBegin(a)  PROVE StatesKept
    BY <2>1 DEF StepBegin, StatesKept
  <2>2. ASSUME NEW progress \in Reports, NEW elapsed \in Elapsed, StepEnd(progress, elapsed)
        PROVE  StateMove
    <3> DEFINE a == running
               y == [agents[a] EXCEPT !.budget.used = @ + elapsed]
    <3>1. a \in DOMAIN agents /\ agents[a] \in Agent
      BY <2>2 DEF GateTypeOK, StepEnd
    <3>2. y.state = agents[a].state /\ \A s : [y EXCEPT !.state = s].state = s
      BY <3>1 DEF Agent
    <3>3. \/ agents' = [agents EXCEPT ![a] = y]
          \/ /\ agents[a].state # "Suspended"
             /\ \/ /\ agents' = [agents EXCEPT ![a] = [y EXCEPT !.state = "Suspended"]]
                   /\ emitted' = suspension(a)
                \/ agents' = [agents EXCEPT ![a] = [y EXCEPT !.state = "AwaitingConsent"]]
                \/ /\ agents' = [agents EXCEPT ![a] = [y EXCEPT !.state = "Finished"]]
                   /\ emitted' = <<entry(a, "Finished")>>
                \/ /\ agents' = [agents EXCEPT ![a] = [y EXCEPT !.state = "Killed"]]
                   /\ emitted' = <<entry(a, "Finished")>>
      BY <2>2, <3>2 DEF StepEnd, outranked
    <3> HIDE DEF y
    <3>4. \A x : agents' = [agents EXCEPT ![a] = x] => OthersKept(a) /\ agents'[a] = x
      BY <3>1 DEF OthersKept
    <3>5. CASE agents' = [agents EXCEPT ![a] = y]
      BY <3>1, <3>2, <3>4, <3>5 DEF StateMove, StatesKept, OthersKept
    <3>6. CASE /\ agents' = [agents EXCEPT ![a] = [y EXCEPT !.state = "Suspended"]]
               /\ emitted' = suspension(a)
      BY <3>1, <3>2, <3>4, <3>6 DEF StateMove, Suspends, suspension
    <3>7. CASE /\ agents[a].state # "Suspended"
               /\ \/ agents' = [agents EXCEPT ![a] = [y EXCEPT !.state = "AwaitingConsent"]]
                  \/ /\ agents' = [agents EXCEPT ![a] = [y EXCEPT !.state = "Finished"]]
                     /\ emitted' = <<entry(a, "Finished")>>
                  \/ /\ agents' = [agents EXCEPT ![a] = [y EXCEPT !.state = "Killed"]]
                     /\ emitted' = <<entry(a, "Finished")>>
      BY <3>1, <3>2, <3>4, <3>7 DEF StateMove, Reported
    <3> QED
      BY <3>3, <3>5, <3>6, <3>7
  <2> QED
    BY <1>5, <2>1, <2>2 DEF Steps, StateMove
<1> QED
  BY <1>1, <1>4, <1>5 DEF GateNext

(* While an agent's step function runs, the agent is runnable or was       *)
(* suspended during the step: nobody else decides about it meanwhile.      *)
RunnerUpright ==
  running # Kernel => agents[running].state \in {"Runnable", "Suspended"}

(* answer_approval is the kernel's, and the loop is not in it while a step *)
(* function runs.                                                          *)
LEMMA RunnerStays == GateSpec => []RunnerUpright
<1>1. GateInit => RunnerUpright
  BY DEF GateInit, RunnerUpright
<1>2. GateTypeOK /\ RunnerUpright /\ [GateNext]_gateVars => RunnerUpright'
  <2>1. ASSUME GateTypeOK, RunnerUpright, GateNext  PROVE RunnerUpright'
    <3>1. StateMove /\ (running # Kernel => running \in DOMAIN agents)
      BY <2>1, StateMoves DEF GateTypeOK
    <3>2. CASE running' = Kernel
      BY <3>2 DEF RunnerUpright
    <3>3. ASSUME NEW a, StepBegin(a)  PROVE RunnerUpright'
      BY <3>3 DEF StepBegin, Ready, RunnerUpright
    <3>5. CASE NewAgents \/ NewSlots \/ Verbs
      <4>1. running' = running
        BY <3>5, VerbsLeave DEF NewAgents, spawn, gate_delegate, NewSlots, grant, gate_attenuate
      <4>2. StatesKept \/ Suspends
        BY <2>1, <3>5, QuietMoves
      <4> QED
        BY <2>1, <3>1, <3>2, <4>1, <4>2 DEF RunnerUpright, StatesKept, Suspends, OthersKept
    <3>6. CASE KernelCalls
      BY <3>2, <3>6 DEF KernelCalls, answer_approval, charge, revoke
    <3>7. CASE Steps
      BY <3>2, <3>3, <3>7 DEF Steps, StepEnd
    <3> QED
      BY <2>1, <3>5, <3>6, <3>7 DEF GateNext
  <2>2. ASSUME RunnerUpright, UNCHANGED gateVars  PROVE RunnerUpright'
    BY <2>2 DEF RunnerUpright, gateVars
  <2> QED
    BY <2>1, <2>2
<1> QED
  BY <1>1, <1>2, GateTyped, PTL DEF GateSpec

(* A stopped agent stays stopped until the question it awaits is answered. *)
THEOREM StoppedUntilAnswered == GateSpec => StoppedStaysStopped
<1> DEFINE Stays ==
      \A a \in DOMAIN agents :
        /\ agents[a].state # "Runnable"
        /\ agents'[a].state \notin {agents[a].state, "Suspended"}
        => /\ agents[a].awaiting \in DOMAIN approvals
           /\ Open(agents[a].awaiting)
           /\ approvals'[agents[a].awaiting].answered # "None"
<1>1. ASSUME GateTypeOK, RunnerUpright, GateNext  PROVE Stays
  <2>1. StateMove
    BY <1>1, StateMoves
  <2>2. CASE StatesKept
    BY <2>2 DEF StatesKept
  <2>3. CASE Suspends
    BY <2>3 DEF Suspends, OthersKept
  <2>4. CASE Answers
    BY <2>4 DEF Answers, OthersKept
  <2>5. CASE Reported
    <3>1. running # Kernel
      BY <1>1, <2>5 DEF Reported, Kernel, GateTypeOK
    <3>2. agents[running].state = "Runnable"
      BY <1>1, <2>5, <3>1 DEF RunnerUpright, Reported
    <3> QED
      BY <2>5, <3>2 DEF Reported, OthersKept
  <2> QED
    BY <2>1, <2>2, <2>3, <2>4, <2>5 DEF StateMove
<1>2. GateTypeOK /\ RunnerUpright /\ [GateNext]_gateVars => [Stays]_gateVars
  BY <1>1
<1> QED
  BY <1>2, GateTyped, RunnerStays, PTL DEF GateSpec, StoppedStaysStopped

(* Whoever is stopped for good, or by its budget, has an entry under its   *)
(* own id in the same step.                                                *)
THEOREM StoppingIsJournaled == GateSpec => NeverSilent
<1> DEFINE Said ==
      \A a \in DOMAIN agents :
        /\ agents'[a].state # agents[a].state
        /\ agents'[a].state \in {"Suspended", "Finished", "Killed"}
        => \E k \in DOMAIN emitted' :
             /\ emitted'[k].agent = a
             /\ emitted'[k].event \in {"BudgetExhausted", "Finished", "Rejected"}
<1>1. ASSUME GateTypeOK, GateNext  PROVE Said
  <2>1. StateMove
    BY <1>1, StateMoves
  <2>2. ASSUME NEW a, NEW e \in {"BudgetExhausted", "Finished", "Rejected"},
               emitted' = <<entry(a, e)>>
        PROVE  \E k \in DOMAIN emitted' :
                 /\ emitted'[k].agent = a
                 /\ emitted'[k].event \in {"BudgetExhausted", "Finished", "Rejected"}
    <3>1. 1 \in DOMAIN emitted' /\ emitted'[1] = entry(a, e)
      BY <2>2
    <3> QED
      BY <3>1 DEF entry
  <2>3. CASE StatesKept
    BY <2>3 DEF StatesKept
  <2>4. CASE Suspends
    BY <2>2, <2>4 DEF Suspends, OthersKept
  <2>5. CASE Answers
    BY <2>2, <2>5 DEF Answers, OthersKept
  <2>6. CASE Reported
    BY <2>2, <2>6 DEF Reported, OthersKept
  <2> QED
    BY <2>1, <2>3, <2>4, <2>5, <2>6 DEF StateMove
<1>2. GateTypeOK /\ [GateNext]_gateVars => [Said]_gateVars
  BY <1>1
<1> QED
  BY <1>2, GateTyped, PTL DEF GateSpec, NeverSilent
-----------------------------------------------------------------------------
(* Money and time. *)

moneys == [d \in DOMAIN agents |-> agents[d].budget.money]
walls == [d \in DOMAIN agents |-> agents[d].budget.wall]
burns == [d \in DOMAIN agents |-> burnt(d)]

(* The sums of the laws are sums over these functions. *)
LEMMA MoneySum ==
  ASSUME GateTypeOK, NEW C \in SUBSET DOMAIN agents, IsFiniteSet(C)
  PROVE  MapThenSumSet(LAMBDA d : agents[d].budget.money, C) = SumOver(moneys, C)
<1> DEFINE Is(h) == h = [s \in SUBSET C |->
                           IF s = {} THEN 0
                           ELSE agents[Pick(s)].budget.money + h[s \ {Pick(s)}]]
<1>1. MapThenSumSet(LAMBDA d : agents[d].budget.money, C) = (CHOOSE h : Is(h))[C]
  BY DEF MapThenSumSet, MapThenFoldSet, Pick
<1>2. \A s \in SUBSET C : s # {} => moneys[Pick(s)] = agents[Pick(s)].budget.money
  BY DEF Pick, moneys
<1>3. \A h : Is(h) <=> IsSum(moneys, C, h)
  BY <1>2 DEF IsSum
<1>4. \A d \in C : moneys[d] \in Int
  BY AgentFields DEF moneys, GateTypeOK
<1>5. \E h : IsSum(moneys, C, h)
  BY <1>4, SumExists
<1> HIDE DEF Is
<1>6. IsSum(moneys, C, CHOOSE h : Is(h))
  BY <1>3, <1>5
<1> QED
  BY <1>1, <1>6, SumIs

LEMMA WallSum ==
  ASSUME GateTypeOK, NEW C \in SUBSET DOMAIN agents, IsFiniteSet(C)
  PROVE  MapThenSumSet(LAMBDA d : agents[d].budget.wall, C) = SumOver(walls, C)
<1> DEFINE Is(h) == h = [s \in SUBSET C |->
                           IF s = {} THEN 0
                           ELSE agents[Pick(s)].budget.wall + h[s \ {Pick(s)}]]
<1>1. MapThenSumSet(LAMBDA d : agents[d].budget.wall, C) = (CHOOSE h : Is(h))[C]
  BY DEF MapThenSumSet, MapThenFoldSet, Pick
<1>2. \A s \in SUBSET C : s # {} => walls[Pick(s)] = agents[Pick(s)].budget.wall
  BY DEF Pick, walls
<1>3. \A h : Is(h) <=> IsSum(walls, C, h)
  BY <1>2 DEF IsSum
<1>4. \A d \in C : walls[d] \in Int
  BY AgentFields DEF walls, GateTypeOK
<1>5. \E h : IsSum(walls, C, h)
  BY <1>4, SumExists
<1> HIDE DEF Is
<1>6. IsSum(walls, C, CHOOSE h : Is(h))
  BY <1>3, <1>5
<1> QED
  BY <1>1, <1>6, SumIs

(* Every set of agents is finite. *)
LEMMA FinitelyMany ==
  ASSUME GateTypeOK, NEW C \in SUBSET DOMAIN agents
  PROVE  IsFiniteSet(C)
<1>1. DOMAIN agents = 1..Len(agents) /\ Len(agents) \in Int
  BY DEF GateTypeOK
<1>2. IsFiniteSet(1..Len(agents))
  BY <1>1, FS_Interval
<1> QED
  BY <1>1, <1>2, FS_Subset

LEMMA TreeTyped ==
  ASSUME GateTypeOK
  PROVE  /\ DOMAIN agents = 1..Len(agents) /\ Len(agents) \in Nat
         /\ \A a \in DOMAIN agents :
              /\ agents[a] \in Agent /\ agents[a].parent \in Nat
              /\ agents[a].budget.money \in Nat /\ agents[a].budget.spent \in Nat
              /\ agents[a].budget.wall \in Nat /\ agents[a].budget.used \in Nat
<1>1. DOMAIN agents = 1..Len(agents) /\ Len(agents) \in Nat
      /\ \A a \in DOMAIN agents : agents[a] \in Agent
  BY DEF GateTypeOK
<1>2. \A x \in Agent : x.parent \in Nat
  BY DEF Agent
<1> QED
  BY <1>1, <1>2, AgentFields

LEMMA BurntIs ==
  ASSUME GateTypeOK, NEW a \in DOMAIN agents
  PROVE  /\ burnt(a) = agents[a].budget.spent - SumOver(moneys, Children(a))
         /\ burnt(a) \in Int
         /\ SumOver(moneys, Children(a)) \in Nat
<1>1. Children(a) \in SUBSET DOMAIN agents /\ IsFiniteSet(Children(a))
  BY FinitelyMany DEF Children
<1>2. \A d \in DOMAIN agents : moneys[d] \in Nat
  BY AgentFields DEF moneys, GateTypeOK
<1>3. SumOver(moneys, Children(a)) \in Nat
  BY <1>1, <1>2, SumNat
<1>4. agents[a].budget.spent \in Nat
  BY AgentFields DEF GateTypeOK
<1>5. burnt(a) = agents[a].budget.spent - SumOver(moneys, Children(a))
  BY <1>1, MoneySum DEF burnt
<1> QED
  BY <1>3, <1>4, <1>5

LEMMA BurntSum ==
  ASSUME GateTypeOK, NEW C \in SUBSET DOMAIN agents
  PROVE  MapThenSumSet(burnt, C) = SumOver(burns, C)
<1> DEFINE Is(h) == h = [s \in SUBSET C |->
                           IF s = {} THEN 0 ELSE burnt(Pick(s)) + h[s \ {Pick(s)}]]
<1>1. MapThenSumSet(burnt, C) = (CHOOSE h : Is(h))[C]
  BY DEF MapThenSumSet, MapThenFoldSet, Pick
<1>2. \A s \in SUBSET C : s # {} => burns[Pick(s)] = burnt(Pick(s))
  BY DEF Pick, burns
<1>3. \A h : Is(h) <=> IsSum(burns, C, h)
  BY <1>2 DEF IsSum
<1>4. \A d \in C : burns[d] \in Int
  BY BurntIs DEF burns
<1>5. IsFiniteSet(C)
  BY FinitelyMany
<1>6. \E h : IsSum(burns, C, h)
  BY <1>4, <1>5, SumExists
<1> HIDE DEF Is
<1>7. IsSum(burns, C, CHOOSE h : Is(h))
  BY <1>3, <1>6
<1> QED
  BY <1>1, <1>5, <1>7, SumIs

(* A child is younger than its parent. *)
ElderParents == \A a \in DOMAIN agents : agents[a].parent < a

(* Of what an agent was given it has not spent more, and what its children *)
(* were given it has spent.                                                *)
MoneyKept ==
  \A a \in DOMAIN agents :
    /\ agents[a].budget.spent <= agents[a].budget.money
    /\ SumOver(moneys, Children(a)) <= agents[a].budget.spent

TimeKept ==
  \A a \in DOMAIN agents :
    agents[a].budget.wall # 0 =>
      /\ \A d \in Children(a) : agents[d].budget.wall # 0
      /\ SumOver(walls, Children(a)) <= agents[a].budget.used

-----------------------------------------------------------------------------
(* What a subtree burnt, counted from the youngest agent up: the burnt of  *)
(* those not older than k comes out of the money of those among them whose *)
(* parent is older than k.  Each agent's own share telescopes.             *)

Since(A, k) == {d \in A : d >= k}
Tops(A, k) == {d \in A : d >= k /\ (agents[d].parent < k \/ agents[d].parent \notin A)}

LEMMA TopsCovers ==
  ASSUME GateTypeOK, ElderParents, MoneyKept,
         NEW A \in SUBSET DOMAIN agents,
         \A j \in DOMAIN agents : agents[j].parent \in A => j \in A
  PROVE  \A k \in 1..(Len(agents) + 1) : SumOver(burns, Since(A, k)) <= SumOver(moneys, Tops(A, k))
<1> DEFINE P(k) == SumOver(burns, Since(A, k)) <= SumOver(moneys, Tops(A, k))
           n == Len(agents) + 1
           Bad == {k \in 1..n : ~P(k)}
<1>0. /\ DOMAIN agents = 1..(n - 1) /\ n \in Nat \ {0}
      /\ \A a \in DOMAIN agents : agents[a].parent \in Nat
      /\ \A a \in DOMAIN agents : agents[a].budget.money \in Nat
      /\ \A a \in DOMAIN agents : agents[a].budget.spent \in Nat
  BY TreeTyped
<1>1. SUFFICES ASSUME Bad # {}  PROVE FALSE
  OBVIOUS
<1> HIDE DEF P
<1>2. PICK k \in Bad : \A j \in Bad : k >= j
  <2>1. Bad \in SUBSET Nat /\ n \in Nat /\ \A x \in Bad : x <= n
    BY <1>0
  <2> HIDE DEF Bad, n
  <2> QED
    BY <1>1, <2>1, GreatestNatural
<1>3. k \in 1..n /\ ~P(k)
  OBVIOUS
<1> HIDE DEF n
<1>4. k # n
  <2>1. Since(A, n) = {} /\ Tops(A, n) = {}
    BY <1>0 DEF Since, Tops
  <2>2. P(n)
    BY <2>1, SumEmpty DEF P
  <2> QED
    BY <1>3, <2>2
<1>5. k \in DOMAIN agents /\ k \in Nat
  BY <1>0, <1>3, <1>4
<1>6. P(k + 1)
  <2>1. k + 1 \in 1..n /\ k + 1 \notin Bad
    BY <1>0, <1>2, <1>5
  <2> QED
    BY <2>1
<1> HIDE DEF Bad
<1>7. CASE k \notin A
  <2>1. Since(A, k) = Since(A, k + 1)
    BY <1>0, <1>5, <1>7 DEF Since
  <2>2. Tops(A, k) = Tops(A, k + 1)
    BY <1>0, <1>5, <1>7 DEF Tops
  <2> QED
    BY <1>3, <1>6, <2>1, <2>2 DEF P
<1>8. CASE k \in A
  <2> DEFINE S == Since(A, k + 1)
             T == Tops(A, k + 1)
             C == Children(k)
             R == T \ C
  <2>1. Since(A, k) = S \cup {k} /\ k \notin S /\ S \in SUBSET DOMAIN agents
    BY <1>0, <1>5, <1>8 DEF Since
  <2>2. C \in SUBSET T
    BY <1>0, <1>5, <1>8 DEF Children, Tops, ElderParents
  <2>3. Tops(A, k) = R \cup {k} /\ k \notin R /\ T \in SUBSET DOMAIN agents
    <3>1. agents[k].parent < k
      BY <1>5 DEF ElderParents
    <3> QED
      BY <1>0, <1>5, <1>8, <3>1 DEF Children, Tops
  <2>4. /\ IsFiniteSet(S) /\ IsFiniteSet(T) /\ IsFiniteSet(R) /\ IsFiniteSet(C)
    BY <2>1, <2>2, <2>3, FinitelyMany
  <2>5. /\ \A d \in DOMAIN agents : moneys[d] \in Int
        /\ \A d \in DOMAIN agents : burns[d] \in Int
    <3>1. \A d \in DOMAIN agents : burnt(d) \in Int
      BY BurntIs
    <3> QED
      BY <1>0, <3>1 DEF burns, moneys
  <2> DEFINE bS == SumOver(burns, S)
             mT == SumOver(moneys, T)
             mC == SumOver(moneys, C)
             mR == SumOver(moneys, R)
  <2>6. SumOver(burns, Since(A, k)) = burns[k] + bS
    <3> HIDE DEF S
    <3> QED
      BY <1>5, <2>1, <2>4, <2>5, SumAdd
  <2>7. SumOver(moneys, Tops(A, k)) = moneys[k] + mR
    <3>1. R \in SUBSET DOMAIN agents
      BY <2>3
    <3> HIDE DEF R
    <3> QED
      BY <1>5, <2>3, <2>4, <2>5, <3>1, SumAdd
  <2>8. mT = mC + mR
    <3> HIDE DEF T, C
    <3> QED
      BY <2>2, <2>3, <2>4, <2>5, SumDisjoint
  <2>9. bS \in Int /\ mT \in Int /\ mC \in Int /\ mR \in Int
    <3>1. R \in SUBSET DOMAIN agents /\ C \in SUBSET DOMAIN agents
      BY <2>2, <2>3
    <3> HIDE DEF S, T, C, R
    <3> QED
      BY <2>1, <2>3, <2>4, <2>5, <3>1, SumInt
  <2>10. /\ burns[k] = agents[k].budget.spent - mC
         /\ moneys[k] = agents[k].budget.money
         /\ agents[k].budget.spent <= agents[k].budget.money
         /\ agents[k].budget.spent \in Nat /\ agents[k].budget.money \in Nat
    BY <1>0, <1>5, BurntIs DEF burns, moneys, MoneyKept
  <2>11. bS <= mT
    BY <1>6 DEF P
  <2> HIDE DEF bS, mT, mC, mR
  <2>12. burns[k] + bS <= moneys[k] + mR
    BY <2>8, <2>9, <2>10, <2>11
  <2> QED
    BY <1>3, <2>6, <2>7, <2>12 DEF P
<1> QED
  BY <1>7, <1>8

(* The subtree of r: closed under children, and r alone has its parent     *)
(* outside.                                                                *)
LEMMA SubtreeTop ==
  ASSUME GateTypeOK, ElderParents, NEW r \in DOMAIN agents
  PROVE  /\ \A j \in DOMAIN agents : agents[j].parent \in Subtree(r) => j \in Subtree(r)
         /\ Since(Subtree(r), r) = Subtree(r)
         /\ Tops(Subtree(r), r) = {r}
<1> DEFINE A == Subtree(r)
           Closed(S) == r \in S /\ \A j \in DOMAIN agents : agents[j].parent \in S => j \in S
<1>0. /\ DOMAIN agents \subseteq Nat
      /\ \A a \in DOMAIN agents : agents[a].parent \in Nat
  BY TreeTyped
<1>1. A \in SUBSET DOMAIN agents /\ r \in A
  BY DEF Subtree
<1>2. \A S \in SUBSET DOMAIN agents : Closed(S) => A \subseteq S
  BY DEF Subtree
<1>3. ASSUME NEW j \in DOMAIN agents, agents[j].parent \in A  PROVE j \in A
  BY <1>3 DEF Subtree
<1>4. ASSUME NEW d \in A, d # r  PROVE agents[d].parent \in A
  <2>1. SUFFICES ASSUME agents[d].parent \notin A  PROVE FALSE
    OBVIOUS
  <2>2. Closed(A \ {d}) /\ A \ {d} \in SUBSET DOMAIN agents
    <3> HIDE DEF A
    <3> QED
      BY <1>1, <1>3, <1>4, <2>1
  <2> HIDE DEF A, Closed
  <2> QED
    BY <1>2, <2>2
<1>5. \A d \in A : d >= r
  <2> DEFINE S == {d \in DOMAIN agents : d >= r}
  <2>1. Closed(S) /\ S \in SUBSET DOMAIN agents
    BY <1>0 DEF ElderParents
  <2> HIDE DEF A, Closed
  <2> QED
    BY <1>2, <2>1
<1>6. agents[r].parent < r
  BY DEF ElderParents
<1> HIDE DEF A
<1>7. Since(A, r) = A
  BY <1>5 DEF Since
<1>8. Tops(A, r) = {r}
  <2>1. r \in Tops(A, r)
    BY <1>0, <1>1, <1>6 DEF Tops
  <2>2. ASSUME NEW d \in Tops(A, r), d # r  PROVE FALSE
    <3>1. agents[d].parent \in A /\ (agents[d].parent < r \/ agents[d].parent \notin A)
      BY <1>4, <2>2 DEF Tops
    <3> QED
      BY <1>0, <1>1, <1>5, <3>1
  <2> QED
    BY <2>1, <2>2
<1> QED
  BY <1>3, <1>7, <1>8 DEF A

(* So a subtree has burnt no more than its root was given. *)
LEMMA SubtreeBurnsWithin ==
  ASSUME GateTypeOK, ElderParents, MoneyKept
  PROVE  SubtreeWithinRoot
<1> SUFFICES ASSUME NEW r \in DOMAIN agents
             PROVE  /\ agents[r].budget.spent <= agents[r].budget.money
                    /\ burnt(r) >= 0
                    /\ MapThenSumSet(burnt, Subtree(r)) <= agents[r].budget.money
  BY DEF SubtreeWithinRoot
<1>1. agents[r].budget.spent <= agents[r].budget.money
  BY DEF MoneyKept
<1>2. burnt(r) >= 0
  <2>1. /\ burnt(r) = agents[r].budget.spent - SumOver(moneys, Children(r))
        /\ SumOver(moneys, Children(r)) \in Nat
    BY BurntIs
  <2>2. agents[r].budget.spent \in Nat
    BY AgentFields DEF GateTypeOK
  <2> QED
    BY <2>1, <2>2 DEF MoneyKept
<1> DEFINE A == Subtree(r)
<1>3. A \in SUBSET DOMAIN agents
  BY DEF Subtree
<1>4. r \in 1..(Len(agents) + 1)
  BY DEF GateTypeOK
<1>5. SumOver(burns, A) <= SumOver(moneys, {r})
  <2>1. /\ \A j \in DOMAIN agents : agents[j].parent \in A => j \in A
        /\ Since(A, r) = A /\ Tops(A, r) = {r}
    BY SubtreeTop
  <2> HIDE DEF A
  <2>2. SumOver(burns, Since(A, r)) <= SumOver(moneys, Tops(A, r))
    BY <1>3, <1>4, <2>1, TopsCovers
  <2> QED
    BY <2>1, <2>2
<1>6. SumOver(moneys, {r}) = agents[r].budget.money
  <2>1. moneys[r] = agents[r].budget.money /\ moneys[r] \in Int
    BY AgentFields DEF moneys, GateTypeOK
  <2>2. IsFiniteSet({}) /\ {} \cup {r} = {r}
    BY FS_EmptySet
  <2>3. SumOver(moneys, {} \cup {r}) = moneys[r] + SumOver(moneys, {})
    BY <2>1, <2>2, SumAdd
  <2> QED
    BY <2>1, <2>2, <2>3, SumEmpty
<1>7. MapThenSumSet(burnt, A) = SumOver(burns, A)
  BY <1>3, BurntSum
<1> QED
  BY <1>1, <1>2, <1>5, <1>6, <1>7

-----------------------------------------------------------------------------
(* Steps keep these laws.  Nobody's parent or grant ever changes; what     *)
(* joins, joins at the end.                                                *)

GrantsKept ==
  \A i \in DOMAIN agents :
    /\ i \in DOMAIN agents'
    /\ agents'[i].parent = agents[i].parent
    /\ agents'[i].budget.money = agents[i].budget.money
    /\ agents'[i].budget.wall = agents[i].budget.wall

JoinsUnder(p) ==
  /\ DOMAIN agents' = DOMAIN agents \cup {Len(agents) + 1}
  /\ agents'[Len(agents) + 1].parent = p

(* Old grants add up to what they did. *)
SumsKept(C) ==
  /\ SumOver(moneys', C) = SumOver(moneys, C)
  /\ SumOver(walls', C) = SumOver(walls, C)
  /\ SumOver(moneys, C) \in Nat
  /\ SumOver(walls, C) \in Nat

LEMMA OldSums ==
  ASSUME GateTypeOK, GrantsKept, NEW C \in SUBSET DOMAIN agents
  PROVE  SumsKept(C)
<1>1. IsFiniteSet(C)
  BY FinitelyMany
<1>2. /\ \A d \in C : moneys[d] \in Nat
      /\ \A d \in C : walls[d] \in Nat
  BY TreeTyped DEF moneys, walls
<1>3. /\ \A d \in C : moneys'[d] = moneys[d]
      /\ \A d \in C : walls'[d] = walls[d]
  BY DEF GrantsKept, moneys, walls
<1>4. /\ \A d \in C : moneys[d] \in Int
      /\ \A d \in C : walls[d] \in Int
  BY <1>2
<1>5. SumOver(moneys', C) = SumOver(moneys, C)
  BY <1>1, <1>3, <1>4, SumSame
<1>6. SumOver(walls', C) = SumOver(walls, C)
  BY <1>1, <1>3, <1>4, SumSame
<1>7. SumOver(moneys, C) \in Nat /\ SumOver(walls, C) \in Nat
  BY <1>1, <1>2, SumNat
<1> QED
  BY <1>5, <1>6, <1>7 DEF SumsKept

(* Who is whose child after someone joined. *)
LEMMA JoinedChildren ==
  ASSUME GateTypeOK, ElderParents, GrantsKept, NEW p \in Nat, p <= Len(agents), JoinsUnder(p),
         NEW n, n = Len(agents) + 1
  PROVE  /\ \A d \in DOMAIN agents :
              Children(d)' = IF d = p THEN Children(d) \cup {n} ELSE Children(d)
         /\ Children(n)' = {}
         /\ ElderParents'
<1>0. /\ DOMAIN agents = 1..(n - 1) /\ n \in Nat /\ p < n
      /\ \A a \in DOMAIN agents : agents[a].parent \in Nat
  BY TreeTyped
<1>1. /\ DOMAIN agents' = DOMAIN agents \cup {n} /\ agents'[n].parent = p
      /\ \A a \in DOMAIN agents : agents'[a].parent = agents[a].parent
  BY DEF JoinsUnder, GrantsKept
<1>2. \A d : Children(d)' = {x \in DOMAIN agents' : agents'[x].parent = d}
  BY DEF Children
<1>3. ASSUME NEW d \in DOMAIN agents
      PROVE  Children(d)' = IF d = p THEN Children(d) \cup {n} ELSE Children(d)
  BY <1>0, <1>1, <1>2 DEF Children
<1>4. Children(n)' = {}
  BY <1>0, <1>1, <1>2 DEF ElderParents
<1>5. ElderParents'
  BY <1>0, <1>1 DEF ElderParents
<1> QED
  BY <1>3, <1>4, <1>5

(* Nobody joined. *)
LEMMA SameChildren ==
  ASSUME GrantsKept, DOMAIN agents' = DOMAIN agents
  PROVE  /\ \A d \in DOMAIN agents : Children(d)' = Children(d)
         /\ ElderParents => ElderParents'
BY DEF GrantsKept, Children, ElderParents

(* The three laws, in one. *)
Grants == ElderParents /\ TimeKept /\ (Charges = {} => MoneyKept)

LEMMA EditsKeepGrants ==
  ASSUME GateTypeOK, Grants, Edits
  PROVE  Grants'
<1>1. PICK a \in DOMAIN agents, y \in Agent :
        agents' = [agents EXCEPT ![a] = y] /\ Edited(agents[a], y)
  BY DEF Edits
<1>2. GrantsKept /\ DOMAIN agents' = DOMAIN agents
  BY <1>1 DEF GrantsKept, Edited
<1>3. \A d \in DOMAIN agents : Children(d)' = Children(d)
  BY <1>2, SameChildren
<1>4. ElderParents'
  BY <1>2, SameChildren DEF Grants
<1>5. \A d \in DOMAIN agents : SumsKept(Children(d))
  BY <1>2, OldSums DEF Children
<1>6. \A d \in DOMAIN agents : Edited(agents[d], agents'[d])
  <2>1. \A d \in DOMAIN agents : Edited(agents[d], agents[d])
    BY TreeTyped, PlainEdit
  <2> QED
    BY <1>1, <2>1
<1>7. /\ \A d \in DOMAIN agents : agents[d].budget.used \in Nat
      /\ \A d \in DOMAIN agents : agents'[d].budget.used \in Nat
      /\ \A d \in DOMAIN agents : agents[d].budget.spent \in Nat
      /\ \A d \in DOMAIN agents : agents'[d].budget.spent \in Nat
      /\ \A d \in DOMAIN agents : agents[d].budget.money \in Nat
  <2>1. \A d \in DOMAIN agents : agents'[d] \in Agent
    BY <1>1, TreeTyped
  <2> QED
    BY <2>1, TreeTyped, AgentFields
<1>8. TimeKept'
  <2> SUFFICES ASSUME NEW d \in DOMAIN agents, agents'[d].budget.wall # 0
               PROVE  /\ \A x \in Children(d)' : agents'[x].budget.wall # 0
                      /\ SumOver(walls', Children(d)') <= agents'[d].budget.used
    BY <1>2 DEF TimeKept
  <2>1. agents[d].budget.wall # 0
    BY <1>2 DEF GrantsKept
  <2>2. /\ \A x \in Children(d) : agents[x].budget.wall # 0
        /\ SumOver(walls, Children(d)) <= agents[d].budget.used
    BY <2>1 DEF Grants, TimeKept
  <2>3. /\ SumOver(walls', Children(d)) = SumOver(walls, Children(d))
        /\ SumOver(walls, Children(d)) \in Nat
    BY <1>5 DEF SumsKept
  <2>4. \A x \in Children(d) : agents'[x].budget.wall = agents[x].budget.wall
    BY <1>2 DEF GrantsKept, Children
  <2>5. agents'[d].budget.used >= agents[d].budget.used
    BY <1>6 DEF Edited
  <2>6. SumOver(walls', Children(d)) <= agents'[d].budget.used
    BY <1>7, <2>2, <2>3, <2>5
  <2> QED
    BY <1>3, <2>2, <2>4, <2>6
<1>9. ASSUME Charges = {}  PROVE MoneyKept'
  <2> SUFFICES ASSUME NEW d \in DOMAIN agents
               PROVE  /\ agents'[d].budget.spent <= agents'[d].budget.money
                      /\ SumOver(moneys', Children(d)') <= agents'[d].budget.spent
    BY <1>2 DEF MoneyKept
  <2>1. /\ agents[d].budget.spent <= agents[d].budget.money
        /\ SumOver(moneys, Children(d)) <= agents[d].budget.spent
    BY <1>9 DEF Grants, MoneyKept
  <2>2. /\ SumOver(moneys', Children(d)) = SumOver(moneys, Children(d))
        /\ SumOver(moneys, Children(d)) \in Nat
    BY <1>5 DEF SumsKept
  <2>3. agents'[d].budget.money = agents[d].budget.money
    BY <1>2 DEF GrantsKept
  <2>4. /\ agents'[d].budget.spent >= agents[d].budget.spent
        /\ \/ agents'[d].budget.spent <= agents[d].budget.money
           \/ agents'[d].budget.spent = agents[d].budget.spent
    BY <1>6, <1>9 DEF Edited
  <2>5. SumOver(moneys', Children(d)) <= agents'[d].budget.spent
    BY <1>7, <2>1, <2>2, <2>4
  <2>6. agents'[d].budget.spent <= agents'[d].budget.money
    BY <1>7, <2>1, <2>3, <2>4
  <2> QED
    BY <1>3, <2>5, <2>6
<1> QED
  BY <1>4, <1>8, <1>9 DEF Grants

(* What of its budget an agent has left over pays for a child. *)
Paid(x, b, m, w) ==
  /\ b.money = x.budget.money /\ b.wall = x.budget.wall
  /\ b.spent = x.budget.spent + m
  /\ x.budget.spent <= x.budget.money => b.spent <= b.money
  /\ x.budget.wall # 0 => w # 0 /\ b.used = x.budget.used + w

LEMMA Carving ==
  ASSUME NEW x \in Agent, NEW m \in Nat, NEW w \in Nat, may_carve(x.budget, m, w)
  PROVE  Paid(x, carved(x.budget, m, w), m, w)
<1> DEFINE s == x.budget.spent
           b == carved(x.budget, m, w)
<1>1. x.budget \in Budgets /\ s \in Nat /\ x.budget.money \in Nat
  BY AgentFields
<1>2. /\ b.money = x.budget.money /\ b.wall = x.budget.wall
      /\ b.spent = s + m
      /\ x.budget.wall # 0 => b.used = x.budget.used + w
  BY <1>1 DEF carved, Budgets
<1>3. m <= saturating_sub(x.budget.money, s)
  BY DEF may_carve, remaining
<1>4. x.budget.wall # 0 => w # 0
  BY DEF may_carve
<1> HIDE DEF b
<1>5. s <= x.budget.money => s + m <= x.budget.money
  BY <1>1, <1>3 DEF saturating_sub
<1> QED
  BY <1>2, <1>4, <1>5 DEF b, Paid

(* A root that joins takes from nobody. *)
LEMMA BirthsKeepGrants ==
  ASSUME GateTypeOK, Grants, Births
  PROVE  Grants'
<1>0. PICK n \in Nat : n = Len(agents) + 1
  BY TreeTyped
<1>1. PICK m \in Nat, w \in Nat : agents' = Append(agents, new_agent(Kernel, Budget_new(m, w)))
  BY GateAssumption DEF Births
<1>2. /\ DOMAIN agents' = DOMAIN agents \cup {n}
      /\ n \notin DOMAIN agents
      /\ \A i \in DOMAIN agents : agents'[i] = agents[i]
      /\ agents'[n].parent = Kernel
      /\ agents'[n].budget = Budget_new(m, w)
  BY <1>0, <1>1, Born
<1>3. GrantsKept /\ JoinsUnder(Kernel)
  BY <1>0, <1>2 DEF GrantsKept, JoinsUnder
<1>4. /\ DOMAIN agents = 1..Len(agents) /\ Len(agents) \in Nat
      /\ Kernel \in Nat /\ Kernel <= Len(agents) /\ Kernel \notin DOMAIN agents
  BY TreeTyped DEF Kernel
<1>5. ElderParents
  BY DEF Grants
<1>6. /\ \A d \in DOMAIN agents :
           Children(d)' = IF d = Kernel THEN Children(d) \cup {n} ELSE Children(d)
      /\ Children(n)' = {}
      /\ ElderParents'
  BY <1>3, <1>4, <1>5, <1>0, JoinedChildren
<1>7. \A d \in DOMAIN agents : SumsKept(Children(d)) /\ Children(d)' = Children(d)
  BY <1>3, <1>4, <1>6, OldSums DEF Children
<1>8. agents'[n].budget.spent = 0 /\ agents'[n].budget.used = 0 /\ agents'[n].budget.money = m
  BY <1>2 DEF Budget_new
<1>9. TimeKept'
  <2> SUFFICES ASSUME NEW d \in DOMAIN agents', agents'[d].budget.wall # 0
               PROVE  /\ \A x \in Children(d)' : agents'[x].budget.wall # 0
                      /\ SumOver(walls', Children(d)') <= agents'[d].budget.used
    BY DEF TimeKept
  <2>1. CASE d = n
    BY <1>6, <1>8, <2>1, SumEmpty
  <2>2. CASE d \in DOMAIN agents
    <3>1. \A x \in Children(d) : x \in DOMAIN agents
      BY DEF Children
    <3> QED
      BY <1>2, <1>7, <2>2, <3>1 DEF Grants, TimeKept, SumsKept
  <2> QED
    BY <1>2, <2>1, <2>2
<1>10. ASSUME Charges = {}  PROVE MoneyKept'
  <2> SUFFICES ASSUME NEW d \in DOMAIN agents'
               PROVE  /\ agents'[d].budget.spent <= agents'[d].budget.money
                      /\ SumOver(moneys', Children(d)') <= agents'[d].budget.spent
    BY DEF MoneyKept
  <2>1. CASE d = n
    BY <1>6, <1>8, <2>1, SumEmpty
  <2>2. CASE d \in DOMAIN agents
    BY <1>2, <1>7, <1>10, <2>2 DEF Grants, MoneyKept, SumsKept
  <2> QED
    BY <1>2, <2>1, <2>2
<1> QED
  BY <1>6, <1>9, <1>10 DEF Grants

(* A child that joins is paid for by its parent, in money and, if the      *)
(* parent is walled, in time.                                              *)
LEMMA DelegatesKeepGrants ==
  ASSUME GateTypeOK, Grants, Delegates
  PROVE  Grants'
<1>0. PICK n \in Nat : n = Len(agents) + 1
  BY TreeTyped
<1>1. PICK a \in DOMAIN agents, m \in Nat, w \in Nat :
        /\ may_carve(agents[a].budget, m, w)
        /\ fund_child(a, m, w, <<Len(slots) + 1>>)
  <2>1. \A b \in ShareBudgets : b[1] \in Nat /\ b[2] \in Nat
    BY GateAssumption
  <2> QED
    BY <2>1 DEF Delegates
<1>2. /\ DOMAIN agents' = DOMAIN agents \cup {n}
      /\ n \notin DOMAIN agents
      /\ \A i \in DOMAIN agents : i # a => agents'[i] = agents[i]
      /\ agents'[a] = [agents[a] EXCEPT !.budget = carved(@, m, w)]
      /\ agents'[n].parent = a
      /\ agents'[n].budget = Budget_new(m, w)
  BY <1>0, <1>1, Funded
<1>3. agents[a] \in Agent /\ agents[a].budget \in Budgets
  BY TreeTyped, AgentFields
<1>4. /\ agents'[a].parent = agents[a].parent
      /\ agents'[a].budget = carved(agents[a].budget, m, w)
  BY <1>2, <1>3 DEF Agent
<1>5. /\ agents'[a].budget.money = agents[a].budget.money
      /\ agents'[a].budget.wall = agents[a].budget.wall
      /\ agents'[a].budget.spent = agents[a].budget.spent + m
      /\ agents[a].budget.spent <= agents[a].budget.money
           => agents'[a].budget.spent <= agents'[a].budget.money
      /\ agents[a].budget.wall # 0 => w # 0 /\ agents'[a].budget.used = agents[a].budget.used + w
  <2>1. Paid(agents[a], agents'[a].budget, m, w)
    BY <1>1, <1>3, <1>4, Carving
  <2> QED
    BY <2>1 DEF Paid
<1>6. GrantsKept /\ JoinsUnder(a)
  BY <1>0, <1>2, <1>4, <1>5 DEF GrantsKept, JoinsUnder
<1>7. /\ DOMAIN agents = 1..Len(agents) /\ Len(agents) \in Nat
      /\ a \in Nat /\ a <= Len(agents)
      /\ agents[a].budget.spent \in Nat /\ agents[a].budget.used \in Nat
  BY TreeTyped
<1>8. ElderParents
  BY DEF Grants
<1>9. /\ \A d \in DOMAIN agents :
           Children(d)' = IF d = a THEN Children(d) \cup {n} ELSE Children(d)
      /\ Children(n)' = {}
      /\ ElderParents'
  BY <1>6, <1>7, <1>8, <1>0, JoinedChildren
<1>10. \A d \in DOMAIN agents : SumsKept(Children(d))
  BY <1>6, OldSums DEF Children
<1>11. /\ agents'[n].budget.spent = 0 /\ agents'[n].budget.used = 0
       /\ agents'[n].budget.money = m /\ agents'[n].budget.wall = w
  BY <1>2 DEF Budget_new
<1>12. /\ SumOver(moneys', Children(a) \cup {n}) = m + SumOver(moneys, Children(a))
       /\ SumOver(walls', Children(a) \cup {n}) = w + SumOver(walls, Children(a))
       /\ SumOver(moneys, Children(a)) \in Nat /\ SumOver(walls, Children(a)) \in Nat
  <2>1. Children(a) \in SUBSET DOMAIN agents
    BY DEF Children
  <2>2. IsFiniteSet(Children(a)) /\ n \notin Children(a)
    BY <1>2, <2>1, FinitelyMany
  <2>3. /\ moneys'[n] = m /\ walls'[n] = w
        /\ \A d \in Children(a) : moneys'[d] = agents[d].budget.money
        /\ \A d \in Children(a) : walls'[d] = agents[d].budget.wall
    BY <1>2, <1>6, <1>11, <2>1 DEF moneys, walls, GrantsKept
  <2>4. /\ \A d \in Children(a) \cup {n} : moneys'[d] \in Int
        /\ \A d \in Children(a) \cup {n} : walls'[d] \in Int
    <3>1. /\ \A d \in Children(a) : agents[d].budget.money \in Nat
          /\ \A d \in Children(a) : agents[d].budget.wall \in Nat
      BY <2>1, TreeTyped
    <3> QED
      BY <2>3, <3>1
  <2>5. SumOver(moneys', Children(a) \cup {n}) = moneys'[n] + SumOver(moneys', Children(a))
    BY <2>2, <2>4, SumAdd
  <2>6. SumOver(walls', Children(a) \cup {n}) = walls'[n] + SumOver(walls', Children(a))
    BY <2>2, <2>4, SumAdd
  <2>7. SumsKept(Children(a))
    BY <1>10
  <2> QED
    BY <2>3, <2>5, <2>6, <2>7 DEF SumsKept
<1>13. \A d \in DOMAIN agents : \A x \in Children(d) : x \in DOMAIN agents
  BY DEF Children
<1>14. TimeKept'
  <2> SUFFICES ASSUME NEW d \in DOMAIN agents', agents'[d].budget.wall # 0
               PROVE  /\ \A x \in Children(d)' : agents'[x].budget.wall # 0
                      /\ SumOver(walls', Children(d)') <= agents'[d].budget.used
    BY DEF TimeKept
  <2>1. CASE d = n
    BY <1>9, <1>11, <2>1, SumEmpty
  <2>2. CASE d \in DOMAIN agents /\ d # a
    <3>1. /\ Children(d)' = Children(d) /\ agents'[d] = agents[d]
          /\ SumOver(walls', Children(d)) = SumOver(walls, Children(d))
      BY <1>2, <1>9, <1>10, <2>2 DEF SumsKept
    <3>2. \A x \in Children(d) : agents'[x].budget.wall = agents[x].budget.wall
      BY <1>6, <1>13, <2>2 DEF GrantsKept
    <3> QED
      BY <2>2, <3>1, <3>2 DEF Grants, TimeKept
  <2>3. CASE d = a
    <3>1. agents[a].budget.wall # 0
      BY <1>5, <2>3
    <3>2. /\ \A x \in Children(a) : agents[x].budget.wall # 0
          /\ SumOver(walls, Children(a)) <= agents[a].budget.used
      BY <3>1 DEF Grants, TimeKept
    <3>3. \A x \in Children(a) : agents'[x].budget.wall = agents[x].budget.wall
      BY <1>6, <1>13 DEF GrantsKept
    <3>4. Children(a)' = Children(a) \cup {n}
      BY <1>9
    <3>5. \A x \in Children(a)' : agents'[x].budget.wall # 0
      BY <1>5, <1>11, <3>1, <3>2, <3>3, <3>4
    <3>6. SumOver(walls', Children(a) \cup {n}) <= agents'[a].budget.used
      BY <1>5, <1>7, <1>12, <3>1, <3>2
    <3> QED
      BY <2>3, <3>4, <3>5, <3>6
  <2> QED
    BY <1>2, <2>1, <2>2, <2>3
<1>15. ASSUME Charges = {}  PROVE MoneyKept'
  <2> SUFFICES ASSUME NEW d \in DOMAIN agents'
               PROVE  /\ agents'[d].budget.spent <= agents'[d].budget.money
                      /\ SumOver(moneys', Children(d)') <= agents'[d].budget.spent
    BY DEF MoneyKept
  <2>0. MoneyKept
    BY <1>15 DEF Grants
  <2>1. CASE d = n
    BY <1>9, <1>11, <2>1, SumEmpty
  <2>2. CASE d \in DOMAIN agents /\ d # a
    <3>1. /\ Children(d)' = Children(d) /\ agents'[d] = agents[d]
          /\ SumOver(moneys', Children(d)) = SumOver(moneys, Children(d))
      BY <1>2, <1>9, <1>10, <2>2 DEF SumsKept
    <3> QED
      BY <2>0, <2>2, <3>1 DEF MoneyKept
  <2>3. CASE d = a
    <3>1. /\ agents[a].budget.spent <= agents[a].budget.money
          /\ SumOver(moneys, Children(a)) <= agents[a].budget.spent
      BY <2>0 DEF MoneyKept
    <3>2. Children(a)' = Children(a) \cup {n}
      BY <1>9
    <3>3. SumOver(moneys', Children(a) \cup {n}) <= agents'[a].budget.spent
      BY <1>5, <1>7, <1>12, <3>1
    <3> QED
      BY <1>5, <2>3, <3>1, <3>2, <3>3
  <2> QED
    BY <1>2, <2>1, <2>2, <2>3
<1> QED
  BY <1>9, <1>14, <1>15 DEF Grants

LEMMA GrantsAlways == GateSpec => []Grants
<1>1. GateInit => Grants
  BY DEF GateInit, Grants, ElderParents, TimeKept, MoneyKept
<1>2. GateTypeOK /\ Grants /\ [GateNext]_gateVars => Grants'
  <2>1. ASSUME GateTypeOK, Grants, GateNext  PROVE Grants'
    <3>1. CASE UNCHANGED agents
      <4>1. /\ moneys' = moneys /\ walls' = walls
            /\ \A d : Children(d)' = Children(d)
        BY <3>1 DEF moneys, walls, Children
      <4>2. Grants
        BY <2>1
      <4> QED
        BY <3>1, <4>1, <4>2 DEF Grants, ElderParents, TimeKept, MoneyKept
    <3>2. TreeMove
      BY <2>1, TreeMoves
    <3>3. Edits \/ Births \/ Delegates => Grants'
      BY <2>1, EditsKeepGrants, BirthsKeepGrants, DelegatesKeepGrants
    <3> QED
      BY <3>1, <3>2, <3>3 DEF TreeMove
  <2>2. ASSUME Grants, UNCHANGED gateVars  PROVE Grants'
    BY <2>2 DEF gateVars, Grants, ElderParents, TimeKept, MoneyKept, moneys, walls, Children
  <2> QED
    BY <2>1, <2>2
<1> QED
  BY <1>1, <1>2, GateTyped, PTL DEF GateSpec

(* Time is carved as money is: under a walled agent every child is walled, *)
(* and the walls handed out were used up by the parent (Budget::carve,     *)
(* acb.rs), whatever is charged, spent or run in between.                  *)
THEOREM WallsAreCarved == GateSpec => []TimeIsCarved
<1>1. GateTypeOK /\ Grants => TimeIsCarved
  <2> SUFFICES ASSUME GateTypeOK, Grants, NEW a \in DOMAIN agents, agents[a].budget.wall # 0
               PROVE  /\ \A d \in Children(a) : agents[d].budget.wall # 0
                      /\ MapThenSumSet(LAMBDA d : agents[d].budget.wall, Children(a))
                           <= agents[a].budget.used
    BY DEF TimeIsCarved
  <2>1. Children(a) \in SUBSET DOMAIN agents /\ IsFiniteSet(Children(a))
    BY FinitelyMany DEF Children
  <2>2. MapThenSumSet(LAMBDA d : agents[d].budget.wall, Children(a)) = SumOver(walls, Children(a))
    BY <2>1, WallSum
  <2>3. /\ \A d \in Children(a) : agents[d].budget.wall # 0
        /\ SumOver(walls, Children(a)) <= agents[a].budget.used
    BY DEF Grants, TimeKept
  <2> QED
    BY <2>2, <2>3
<1> QED
  BY <1>1, GrantsAlways, GateTyped, PTL

(* As long as nothing is charged after the fact, a subtree of agents never *)
(* burns more money than its root was given (acb.rs, Budget::carve; lib.rs *)
(* commits the price only when it can be paid).                            *)
THEOREM SubtreeStaysWithin ==
  ASSUME Charges = {}
  PROVE  GateSpec => []SubtreeWithinRoot
<1>1. GateTypeOK /\ Grants => SubtreeWithinRoot
  BY SubtreeBurnsWithin DEF Grants
<1> QED
  BY <1>1, GrantsAlways, GateTyped, PTL

-----------------------------------------------------------------------------
(* The supervisor's loop. *)

LEMMA LoopStepsAreGateSteps == SchedNext => GateNext \/ UNCHANGED gateVars
<1> SUFFICES ASSUME SchedNext  PROVE GateNext \/ UNCHANGED gateVars
  OBVIOUS
<1>1. CASE Tick \/ LoopEnter \/ LoopBreak
  BY <1>1 DEF Tick, LoopEnter, LoopBreak
<1>2. CASE LoopStep
  <2>1. \E a \in DOMAIN agents : StepBegin(a)
    BY <1>2 DEF LoopStep, next_runnable
  <2> QED
    BY <2>1 DEF GateNext, Steps
<1>3. CASE \E progress \in Reports, elapsed \in Elapsed : LoopStepEnd(progress, elapsed)
  <2>1. \E progress \in Reports, elapsed \in Elapsed : StepEnd(progress, elapsed)
    BY <1>3 DEF LoopStepEnd
  <2> QED
    BY <2>1 DEF GateNext, Steps
<1>4. CASE Joining
  BY <1>4 DEF Joining, GateNext
<1>5. CASE Calling
  BY <1>5 DEF Calling, GateNext, KernelCalls
<1>6. CASE \E r \in DOMAIN approvals : Answering(r)
  <2>1. \E r \in DOMAIN approvals, yes \in BOOLEAN : answer_approval(r, yes)
    BY <1>6 DEF Answering
  <2> QED
    BY <2>1 DEF GateNext, KernelCalls
<1> QED
  BY <1>1, <1>2, <1>3, <1>4, <1>5, <1>6 DEF SchedNext

(* The gate scheduled by run_until_idle is a gate: whatever the gate never *)
(* does, it does not do under earliest-deadline scheduling either.         *)
THEOREM ScheduledGate == SchedSpec => GateSpec
<1>1. SchedInit => GateInit
  BY DEF SchedInit
<1>2. [SchedNext]_schedVars => [GateNext]_gateVars
  BY LoopStepsAreGateSteps DEF schedVars
<1> QED
  BY <1>1, <1>2, PTL DEF SchedSpec, GateSpec

LEMMA OnlyStepEndReturns ==
  ASSUME GateTypeOK, GateNext, running # Kernel, running' = Kernel
  PROVE  \E progress \in Reports, elapsed \in Elapsed : StepEnd(progress, elapsed)
<1>1. CASE NewAgents
  BY <1>1 DEF NewAgents, spawn, gate_delegate
<1>2. CASE NewSlots
  BY <1>2 DEF NewSlots, grant, gate_attenuate
<1>3. CASE Verbs
  BY <1>3, VerbsLeave
<1>4. CASE KernelCalls
  BY <1>4 DEF KernelCalls, answer_approval, charge, revoke
<1>5. CASE \E a \in DOMAIN agents : StepBegin(a)
  BY <1>5 DEF StepBegin
<1> QED
  BY <1>1, <1>2, <1>3, <1>4, <1>5 DEF GateNext, Steps

(* When a step function returns, run_until_idle leaves its agent runnable  *)
(* only if it has money and time left.                                     *)
THEOREM StepsLeaveNoDebtor == SchedSpec => StepLeavesNoDebtor
<1>1. ASSUME GateTypeOK, GateTypeOK', [SchedNext]_schedVars, running # Kernel, running' = Kernel
      PROVE  ~(agents'[running].state = "Runnable" /\ exhausted(agents'[running].budget))
  <2>1. SchedNext
    BY <1>1 DEF schedVars, gateVars
  <2>2. GateNext
    BY <1>1, <2>1, LoopStepsAreGateSteps DEF gateVars
  <2>3. PICK progress \in Reports, elapsed \in Elapsed : StepEnd(progress, elapsed)
    BY <1>1, <2>2, OnlyStepEndReturns
  <2>4. agents \in Seq(Agent) /\ running \in DOMAIN agents /\ agents[running] \in Agent
    BY <1>1 DEF GateTypeOK
  <2> DEFINE timed == [agents[running] EXCEPT !.budget.used = @ + elapsed]
  <2>5. ASSUME NEW y, agents' = [agents EXCEPT ![running] = y]  PROVE agents'[running] = y
    BY <2>4, <2>5
  <2>6. ASSUME NEW state  PROVE [timed EXCEPT !.state = state].state = state
    BY <2>4 DEF Agent
  <2> HIDE DEF timed
  <2>7. \/ agents'[running] = timed /\ outranked(timed)
        \/ agents'[running] = timed /\ ~out_of_budget(timed)
        \/ \E state \in {"Suspended", "AwaitingConsent", "Finished", "Killed"} :
             agents'[running] = [timed EXCEPT !.state = state]
    BY <2>3, <2>5 DEF StepEnd, timed
  <2> QED
    BY <2>6, <2>7 DEF outranked, out_of_budget
<1>2. SchedSpec => []GateTypeOK
  BY ScheduledGate, GateTyped, PTL
<1>3. GateTypeOK /\ GateTypeOK' /\ [SchedNext]_schedVars =>
        [ running # Kernel /\ running' = Kernel =>
            ~(agents'[running].state = "Runnable" /\ exhausted(agents'[running].budget)) ]_schedVars
  BY <1>1
<1> QED
  BY <1>2, <1>3, PTL DEF SchedSpec, StepLeavesNoDebtor
=============================================================================

----------------------------- MODULE Scheduler -----------------------------
(***************************************************************************)
(* The supervisor's loop (run_until_idle and next_runnable in              *)
(* nawa/gate/src/lib.rs) around the gate: earliest deadline first, at most *)
(* MaxSteps steps per call, and the kernel's own calls only between calls. *)
(*                                                                         *)
(* Deadlines are absolute microseconds of a clock that never stops.  Here  *)
(* they are relative to now, and deadlines that have passed keep only      *)
(* their order (Settle): next_runnable compares deadlines with each other  *)
(* and nothing else, so the clock may run for ever in finitely many        *)
(* states.  Time passes at any moment, inside a step or out of it.         *)
(***************************************************************************)
EXTENDS Gate, Integers

CONSTANTS Deadlines,      \* deadlines the kernel spawns agents with
          MIN_DEADLINE,   \* the least deadline delegate gives a child
          MaxSteps        \* max_steps of a call of run_until_idle

ASSUME SchedulerAssumption ==
  Deadlines \subseteq Nat /\ MIN_DEADLINE \in Nat /\ MaxSteps \in Nat \ {0}

VARIABLES due,    \* Agent.deadline of each agent, relative to now
          steps   \* iterations left of the loop that is running; 0 outside it

schedVars == <<gateVars, due, steps>>

SchedInit == GateInit /\ due = <<>> /\ steps = 0

-----------------------------------------------------------------------------
(* Past deadlines d renumbered -1, -2, ... from the latest to the oldest. *)
Settle(d) ==
  [a \in DOMAIN d |->
     IF d[a] >= 0 THEN d[a]
     ELSE -Cardinality({d[b] : b \in {b \in DOMAIN d : d[a] <= d[b] /\ d[b] < 0}})]

(* The clock moves on by a microsecond. *)
Tick ==
  /\ due' = Settle([a \in DOMAIN due |-> due[a] - 1])
  /\ UNCHANGED <<gateVars, steps>>

(* Mutant: the agent added last goes first. *)
next_runnable_Latest ==
  {a \in DOMAIN agents : Ready(a) /\ \A b \in DOMAIN agents : Ready(b) => b <= a}

(* The ready agent with the earliest deadline, the first one of a tie. *)
next_runnable ==
  {a \in DOMAIN agents :
     /\ Ready(a)
     /\ \A b \in DOMAIN agents : Ready(b) => due[a] < due[b] \/ (due[a] = due[b] /\ a <= b)}

(* run_until_idle is called. *)
LoopEnter ==
  /\ running = Kernel /\ steps = 0
  /\ steps' = MaxSteps
  /\ UNCHANGED <<gateVars, due>>

(* Nobody is runnable: the loop ends early. *)
LoopBreak ==
  /\ running = Kernel /\ steps > 0
  /\ next_runnable = {}
  /\ steps' = 0
  /\ UNCHANGED <<gateVars, due>>

LoopStep ==
  /\ steps > 0
  /\ \E a \in next_runnable : StepBegin(a)
  /\ UNCHANGED <<due, steps>>

(* Mutant: the deadline of an agent that continues stays as it is.         *)
next_due_Same(a, progress) == due[a]

(* The deadline after a step: an agent that continues goes to just after   *)
(* now, any other keeps its own.                                           *)
next_due(a, progress) ==
  IF /\ progress = "Continue"
     /\ agents[a].state # "Suspended"
     /\ agents'[a].state # "Suspended"
    THEN 1 ELSE due[a]

LoopStepEnd(progress, elapsed) ==
  /\ StepEnd(progress, elapsed)
  /\ due' = [due EXCEPT ![running] = next_due(running, progress)]
  /\ steps' = steps - 1

-----------------------------------------------------------------------------
(* While the loop is between two steps the kernel is inside it. *)
NotInLoop == running = Kernel => steps = 0

(* A new agent's deadline: given by the kernel for a root, its wall-clock  *)
(* share or the least deadline for a child.                                *)
FirstDeadlines(agent) ==
  IF agent.parent = Kernel THEN Deadlines
  ELSE {IF agent.budget.wall > MIN_DEADLINE THEN agent.budget.wall ELSE MIN_DEADLINE}

Joining ==
  /\ NotInLoop
  /\ NewAgents
  /\ IF Len(agents') > Len(agents)
       THEN \E d \in FirstDeadlines(agents'[Len(agents')]) : due' = Append(due, d)
       ELSE UNCHANGED due
  /\ UNCHANGED steps

Calling ==
  /\ NotInLoop
  /\ \/ NewSlots
     \/ Verbs
     \/ \E a \in DOMAIN agents, amount \in Charges : charge(a, amount)
     \/ \E c \in DOMAIN slots : revoke(c)
  /\ UNCHANGED <<due, steps>>

(* A yes to the awaited question makes the agent due at once. *)
Answering(r) ==
  /\ NotInLoop
  /\ r \in DOMAIN approvals
  /\ \E yes \in BOOLEAN :
       /\ answer_approval(r, yes)
       /\ due' = IF yes /\ agents[approvals[r].agent].awaiting = r
                   THEN [due EXCEPT ![approvals[r].agent] = 0] ELSE due
  /\ UNCHANGED steps

SchedNext ==
  \/ Tick
  \/ LoopEnter
  \/ LoopBreak
  \/ LoopStep
  \/ \E progress \in Reports, elapsed \in Elapsed : LoopStepEnd(progress, elapsed)
  \/ Joining
  \/ Calling
  \/ \E r \in DOMAIN approvals : Answering(r)

SchedSpec == SchedInit /\ [][SchedNext]_schedVars

(* The clock runs; the loop does not stop in the middle; a step function   *)
(* returns; the kernel calls the loop again, and between its calls comes   *)
(* back to every open question (main.rs 195-211), which is why strong      *)
(* fairness: the question cannot be answered while the loop runs.          *)
SchedFairSpec ==
  /\ SchedSpec
  /\ WF_schedVars(Tick)
  /\ WF_schedVars(LoopEnter \/ LoopBreak \/ LoopStep)
  /\ WF_schedVars(\E progress \in Reports, elapsed \in Elapsed : LoopStepEnd(progress, elapsed))
  /\ \A r \in 1..MaxApprovals : SF_schedVars(Answering(r))

-----------------------------------------------------------------------------
Waits(a) == a \in DOMAIN agents /\ Ready(a) /\ running # a

(* Pushing the deadline to just after now shares the machine (lib.rs       *)
(* 514-516): an agent that is ready runs, however far away its deadline    *)
(* was and whatever the others, who may continue for ever, do.             *)
NoStarvation ==
  \A a \in 1..MaxAgents : Waits(a) ~> ~Waits(a)

(* "An agent that is out of budget is suspended, never quietly overspent"  *)
(* (lib.rs 460-461): no step leaves its own agent runnable with nothing    *)
(* left, whatever it spent, delegated or asked for on the way.             *)
StepLeavesNoDebtor ==
  [][ running # Kernel /\ running' = Kernel =>
        ~(agents'[running].state = "Runnable" /\ exhausted(agents'[running].budget)) ]_schedVars
=============================================================================

---------------------------- MODULE MCScheduler ----------------------------
(* Two agents that may continue for ever, one due now and one far away,    *)
(* and a capability whose use a human must allow.                          *)
EXTENDS Scheduler

CONSTANTS sep

SchedRequested == {[kind |-> "Spend", micro_dollars |-> 100]}
SchedBudgets == {<<100, 0>>}
=============================================================================

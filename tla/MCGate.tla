------------------------------- MODULE MCGate -------------------------------
(* Values for the gate's runs.  Prices are the kernel's own: 200 for a     *)
(* send, 150 for the Arabic model class, so budgets of a few hundred       *)
(* micro-dollars run out after one or two crossings.                       *)
EXTENDS Gate

CONSTANTS sep, letter

Send == [kind |-> "Send", draft_only |-> FALSE]
Fs(path, write) == [kind |-> "Fs", scope |-> path, write |-> write]
Spend(n) == [kind |-> "Spend", micro_dollars |-> n]

ConsentRequested == {Spend(100)}
ConsentBudgets == {<<100, 0>>}

PairRequested == {Send}
PairBudgets == {<<300, 0>>}

\* Writing in a directory, 40 a crossing, and reading a sibling whose name
\* only starts like it, 10 a crossing.
TreeRequested == {Fs(<<sep, letter>>, TRUE), Fs(<<sep, letter, letter>>, FALSE)}

\* A root that can fund two walled children, or one and cross itself, and
\* shares that a child can burn, hand on, or both; a walled root cannot fund
\* the unwalled one.
TreeRoots == {<<30, 2>>}
TreeShares == {<<20, 1>>, <<10, 1>>, <<10, 0>>}
=============================================================================

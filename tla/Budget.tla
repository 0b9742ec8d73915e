------------------------------- MODULE Budget -------------------------------
(***************************************************************************)
(* An agent's hierarchical budget (nawa/gate/src/acb.rs): money in         *)
(* micro-dollars and wall-clock time in microseconds, each a limit and     *)
(* what has been used of it.  A wall of 0 means no wall.                   *)
(***************************************************************************)
EXTENDS Naturals

CONSTANT WordMax   \* u64::MAX, where saturating additions stop

ASSUME WordMaxAssumption == WordMax \in Nat

Budgets == [money : Nat, spent : Nat, wall : Nat, used : Nat]

Budget_new(money, wall) == [money |-> money, spent |-> 0, wall |-> wall, used |-> 0]

saturating_sub(x, y) == IF x >= y THEN x - y ELSE 0

saturating_add(x, y) == IF x + y > WordMax THEN WordMax ELSE x + y

remaining(budget) == saturating_sub(budget.money, budget.spent)

exhausted(budget) ==
  \/ remaining(budget) = 0
  \/ budget.wall # 0 /\ budget.used >= budget.wall

(* Can the parent fund a child?  A walled parent cannot fund an unwalled   *)
(* one.                                                                    *)
may_carve(budget, money, wall) ==
  /\ money <= remaining(budget)
  /\ budget.wall # 0 => wall # 0 /\ wall <= saturating_sub(budget.wall, budget.used)

(* Mutants: money is handed over without being deducted; time likewise. *)
carved_FreeMoney(budget, money, wall) ==
  [budget EXCEPT !.used = IF budget.wall # 0 THEN @ + wall ELSE @]

carved_FreeTime(budget, money, wall) == [budget EXCEPT !.spent = @ + money]

(* What is left with the parent once the child's share is carved out. *)
carved(budget, money, wall) ==
  [budget EXCEPT !.spent = @ + money,
                 !.used = IF budget.wall # 0 THEN @ + wall ELSE @]
=============================================================================

-------------------------------- MODULE Sijil --------------------------------
(***************************************************************************)
(* SIJIL, the journal in memory (nawa/sijil/src/lib.rs): a ring of the     *)
(* last CAPACITY entries.  record is called with the ring's lock held for  *)
(* its whole body, so it is one step.                                      *)
(***************************************************************************)
EXTENDS Integers, Sequences, FiniteSets

CONSTANTS CAPACITY,   \* entries the ring retains (512)
          What        \* what an entry says: agent, event, detail and label

ASSUME CapacityAssumption == CAPACITY \in Nat \ {0}

VARIABLES ring,           \* Ring.entries
          next_sequence   \* Ring.next_sequence

sijilVars == <<ring, next_sequence>>

RingEntry == [sequence : Nat \ {0}, what : What]
Empty == [sequence |-> 0]

SijilInit ==
  /\ ring = [s \in 0..(CAPACITY - 1) |-> Empty]
  /\ next_sequence = 1

(* Mutant: the ring uses one slot too few. *)
slot_of_OneFewer(sequence) == (sequence - 1) % (CAPACITY - 1)

slot_of(sequence) == (sequence - 1) % CAPACITY

(* Append an entry, over the oldest one once the ring is full. *)
record(what) ==
  /\ ring' = [ring EXCEPT ![slot_of(next_sequence)] =
                [sequence |-> next_sequence, what |-> what]]
  /\ next_sequence' = next_sequence + 1

(* Entries ever written, those the ring has dropped included. *)
written == next_sequence - 1

(* The sequence numbers for_each walks over. *)
first_retained == IF written > CAPACITY THEN written - CAPACITY + 1 ELSE 1

(* Mutant: the slots are visited in the order they lie in. *)
for_each_InSlotOrder ==
  LET held == SelectSeq([s \in 1..CAPACITY |-> s - 1], LAMBDA s : ring[s].sequence # 0)
  IN  [i \in DOMAIN held |-> ring[held[i]]]

(* What for_each visits, oldest first: an entry whose slot holds another   *)
(* sequence number is passed over.                                         *)
for_each ==
  LET at(s) == ring[slot_of(s)]
      held == {s \in first_retained..written : at(s).sequence = s}
      nth(i) == CHOOSE s \in held : Cardinality({t \in held : t <= s}) = i
  IN  [i \in 1..Cardinality(held) |-> at(nth(i))]
=============================================================================

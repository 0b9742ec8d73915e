-------------------------------- MODULE Aman --------------------------------
(***************************************************************************)
(* AMAN, the capability table (nawa/aman/src/lib.rs).  Slots are           *)
(* append-only; a slot is minted by the kernel or derived from an earlier  *)
(* slot, and derivation may only narrow.  A capability is the index of its *)
(* slot (1-based here, 0-based in the code).                               *)
(*                                                                         *)
(* `emitted` is what the last call handed to sijil::record, in order: the  *)
(* journal's growth, not its history (module Sijil keeps that).            *)
(***************************************************************************)
EXTENDS Authority

CONSTANTS Holder,     \* agent ids a slot may be held by
          Requested,  \* authorities callers ask for
          MaxSlots    \* bound on the table's length

ASSUME HolderAssumption == Holder \subseteq Nat
ASSUME RequestedAssumption == Requested \subseteq Authority
ASSUME MaxSlotsAssumption == MaxSlots \in Nat

VARIABLES slots,    \* Table.slots
          emitted   \* journal entries written by the last call

amanVars == <<slots, emitted>>

NoParent == 0

Slot == [authority : Authority, holder : Nat, parent : Nat, revoked : BOOLEAN]

Event == {"Spawned", "Granted", "Delegated", "Attenuated", "Invoked", "Denied",
          "ApprovalRequested", "Approved", "Rejected", "Remembered",
          "Noted", "BudgetExhausted", "Finished"}

(* Who the entry is about and what happened; its subject and detail are   *)
(* left out.                                                              *)
Entry == [agent : Nat, event : Event]

entry(agent, event) == [agent |-> agent, event |-> event]

-----------------------------------------------------------------------------
AmanInit ==
  /\ slots = <<>>
  /\ emitted = <<>>

(* Mutant: a revoked slot is still honoured. *)
lookup_Revived(agent, capability) ==
  IF capability \notin DOMAIN slots \/ slots[capability].holder # agent
    THEN "NotHeld" ELSE "Ok"

(* The error lookup returns for a capability an agent presents, or "Ok". *)
lookup(agent, capability) ==
  IF capability \notin DOMAIN slots \/ slots[capability].holder # agent
    THEN "NotHeld"
    ELSE IF slots[capability].revoked THEN "Revoked" ELSE "Ok"

(* Mutant: the subset check is forgotten. *)
may_derive_Anything(agent, capability, narrower) ==
  lookup(agent, capability) = "Ok"

(* The check shared by attenuate, can_delegate and delegate. *)
may_derive(agent, capability, narrower) ==
  /\ lookup(agent, capability) = "Ok"
  /\ is_subset_of(narrower, slots[capability].authority)

(* Table.slots.push: derivation and minting both end here. *)
push_slot(authority, holder, parent) ==
  slots' = Append(slots, [authority |-> authority, holder |-> holder,
                          parent |-> parent, revoked |-> FALSE])

(* Kernel-only: the one place authority enters the system. *)
mint(holder, authority) ==
  /\ push_slot(authority, holder, NoParent)
  /\ emitted' = <<entry(holder, "Granted")>>

deny(agent) ==
  /\ emitted' = <<entry(agent, "Denied")>>
  /\ UNCHANGED slots

(* A successful derivation: a new slot under capability, held by holder. *)
derive(agent, holder, capability, narrower, event) ==
  /\ may_derive(agent, capability, narrower)
  /\ push_slot(narrower, holder, capability)
  /\ emitted' = <<entry(agent, event)>>

attenuate(agent, capability, narrower) ==
  \/ derive(agent, agent, capability, narrower, "Attenuated")
  \/ /\ ~may_derive(agent, capability, narrower)
     /\ deny(agent)

delegate(agent, child, capability, narrower) ==
  \/ derive(agent, child, capability, narrower, "Delegated")
  \/ /\ ~may_derive(agent, capability, narrower)
     /\ deny(agent)

(* What authorize answers: the error, or "Ok". *)
authorization(agent, capability, approved) ==
  LET found == lookup(agent, capability)
  IN  IF found = "Ok" /\ Irreversible(slots[capability].authority) /\ ~approved
        THEN "NeedsApproval"
        ELSE found

(* Refusals are journaled here; a success is left to the caller, who has  *)
(* yet to charge for it.                                                  *)
authorize(agent, capability, approved) ==
  LET answer == authorization(agent, capability, approved)
  IN  /\ emitted' = CASE answer = "Ok" -> <<>>
                      [] answer = "NeedsApproval" ->
                           <<entry(agent, "ApprovalRequested")>>
                      [] OTHER -> <<entry(agent, "Denied")>>
      /\ UNCHANGED slots

-----------------------------------------------------------------------------
Parent(i) == slots[i].parent

(* Mutant: parents are read as they were before the pass. *)
ForwardPass_OldFlags(capability, r) ==
  \A i \in DOMAIN slots :
    r[i] <=> \/ slots[i].revoked
             \/ i = capability
             \/ i > capability /\ Parent(i) # NoParent /\ slots[Parent(i)].revoked

(* r is what one forward pass over the table, starting at capability,     *)
(* leaves in the revoked flags: each slot reads the flag of its parent as *)
(* the pass has already left it.                                          *)
ForwardPass(capability, r) ==
  \A i \in DOMAIN slots :
    r[i] <=> \/ slots[i].revoked
             \/ i = capability
             \/ /\ i > capability
                /\ Parent(i) # NoParent
                /\ r[Parent(i)]

(* Revoke a capability and everything derived from it.  Not journaled. *)
revoke_tree(capability) ==
  /\ \E r \in [DOMAIN slots -> BOOLEAN] :
       /\ ForwardPass(capability, r)
       /\ slots' = [i \in DOMAIN slots |-> [slots[i] EXCEPT !.revoked = r[i]]]
  /\ emitted' = <<>>

-----------------------------------------------------------------------------
Room == Len(slots) < MaxSlots

AmanNext ==
  \/ \E h \in Holder, a \in Requested : Room /\ mint(h, a)
  \/ \E h \in Holder, c \in DOMAIN slots, a \in Requested :
       Room /\ attenuate(h, c, a)
  \/ \E h, k \in Holder, c \in DOMAIN slots, a \in Requested :
       Room /\ delegate(h, k, c, a)
  \/ \E h \in Holder, c \in DOMAIN slots, yes \in BOOLEAN : authorize(h, c, yes)
  \/ \E c \in DOMAIN slots : revoke_tree(c)

AmanSpec == AmanInit /\ [][AmanNext]_amanVars

-----------------------------------------------------------------------------
(* Slots and journal entries have the shapes the structs declare. *)
AmanTypeOK ==
  /\ slots \in Seq(Slot)
  /\ emitted \in Seq(Entry)

(* c is i or an ancestor of i: it is in every set of slots that holds i   *)
(* and is closed under "the slot it was derived from".                    *)
IsAncestor(c, i) ==
  \A S \in SUBSET DOMAIN slots :
    (i \in S /\ \A j \in S : Parent(j) # NoParent => Parent(j) \in S) => c \in S

(* A slot was derived from an earlier one, is no wider than it, and does  *)
(* not outlive it: the one-step facts the lineage laws rest on.           *)
OlderParent(i) == Parent(i) # NoParent => Parent(i) \in 1..(i - 1)
Narrower(i) ==
  Parent(i) # NoParent => is_subset_of(slots[i].authority, slots[Parent(i)].authority)
DiesWithParent(i) ==
  Parent(i) # NoParent /\ slots[Parent(i)].revoked => slots[i].revoked

LineageInv ==
  \A i \in DOMAIN slots : OlderParent(i) /\ Narrower(i) /\ DiesWithParent(i)

(* Along a whole lineage authority only narrows, and no capability is     *)
(* live below a revoked ancestor, however many derivations, hand-overs    *)
(* and revocations came between (lib.rs 215-216 and 339).                 *)
AncestorsDominate ==
  \A i, c \in DOMAIN slots :
    IsAncestor(c, i) =>
      /\ is_subset_of(slots[i].authority, slots[c].authority)
      /\ slots[c].revoked => slots[i].revoked

(* The directories a path lies in, itself included, without a trailing    *)
(* separator: a reading of paths independent of is_within.                *)
Directories(path) ==
  {SubSeq(path, 1, n) : n \in {m \in 0..Len(path) : m = Len(path) \/ path[m + 1] = Slash}}

WithoutTrailingSlash(path) ==
  IF path # <<>> /\ path[Len(path)] = Slash THEN SubSeq(path, 1, Len(path) - 1) ELSE path

(* A derived file or memory capability names a place inside the directory *)
(* its parent names: a sibling that merely starts with the same           *)
(* characters is never reached (lib.rs 62-64).                            *)
DerivedStaysInside ==
  \A i \in DOMAIN slots :
    Parent(i) # NoParent /\ slots[i].authority.kind \in {"Fs", "Memory"} =>
      WithoutTrailingSlash(slots[Parent(i)].authority.scope)
        \in Directories(slots[i].authority.scope)

(* The slots whose revoked flag a step raises are a whole subtree: the    *)
(* live slots that descend from one capability, all of them and no other. *)
(* One forward pass is enough (lib.rs 345-346).                           *)
RevokesExactlySubtree ==
  [][ (\E i \in DOMAIN slots : slots[i].revoked # slots'[i].revoked) =>
        /\ DOMAIN slots' = DOMAIN slots
        /\ \E c \in DOMAIN slots : \A i \in DOMAIN slots :
             slots'[i].revoked <=> slots[i].revoked \/ IsAncestor(c, i) ]_amanVars

(* The table is append-only: a step never changes what a slot authorises, *)
(* who holds it or where it came from, and never revives it.              *)
SlotsAreForever ==
  [][ \A i \in DOMAIN slots :
        /\ i \in DOMAIN slots'
        /\ slots'[i] \in {slots[i], [slots[i] EXCEPT !.revoked = TRUE]} ]_amanVars

(* No crossing is authorised through a dead lineage, and none that cannot *)
(* be undone without the human's yes: what authorize would answer now.    *)
AuthorizedOnlyLive ==
  \A h \in Holder, c \in DOMAIN slots, yes \in BOOLEAN :
    authorization(h, c, yes) = "Ok" =>
      /\ \A d \in DOMAIN slots :
           IsAncestor(d, c) => ~slots[d].revoked
      /\ Irreversible(slots[c].authority) => yes
=============================================================================

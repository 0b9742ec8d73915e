----------------------------- MODULE GateProofs -----------------------------
(***************************************************************************)
(* Proofs about the capability table, for every set of holders, every set  *)
(* of requested authorities and every table length; and about the gate,    *)
(* for any budgets, prices, limits and number of agents: the types, the    *)
(* consent law, and the laws of the table as the gate drives it.  A step   *)
(* of the gate is first reduced to what it does to each vector: to the     *)
(* table (TableStep), to the agents (AgentStep) and to the consent queue   *)
(* (ConsentStep).                                                          *)
(***************************************************************************)
EXTENDS Gate, Numbers, SequenceTheorems

-----------------------------------------------------------------------------
(* The delegation law is a preorder: what makes one-step narrowing narrow  *)
(* along a whole lineage.                                                  *)

(* Every scope is within itself (Scope::is_within, nothing left over). *)
LEMMA WithinReflexive == \A s \in Scope : is_within(s, s)
  BY DEF Scope, is_within, strip_prefix

(* A textual prefix of a textual prefix is a textual prefix. *)
LEMMA PrefixTransitive ==
  ASSUME NEW x \in Scope, NEW y \in Scope, NEW z \in Scope,
         strip_prefix(x, y), strip_prefix(y, z)
  PROVE  strip_prefix(x, z)
<1>1. Len(x) \in Nat /\ Len(y) \in Nat /\ Len(z) \in Nat
  BY DEF Scope
<1>2. Len(z) <= Len(x)
  BY <1>1 DEF strip_prefix
<1>3. ASSUME NEW i \in 1..Len(z)  PROVE x[i] = z[i]
  BY <1>1, <1>3 DEF strip_prefix
<1> QED
  BY <1>2, <1>3 DEF strip_prefix

(* Path containment is transitive: the component boundary survives two     *)
(* narrowings (Scope::is_within).                                          *)
LEMMA WithinTransitive ==
  ASSUME NEW x \in Scope, NEW y \in Scope, NEW z \in Scope,
         is_within(x, y), is_within(y, z)
  PROVE  is_within(x, z)
<1>1. Len(x) \in Nat /\ Len(y) \in Nat /\ Len(z) \in Nat
  BY DEF Scope
<1>2. /\ strip_prefix(x, y)
      /\ strip_prefix(y, z)
      /\ strip_prefix(x, z)
  BY PrefixTransitive DEF is_within
<1>3. Len(z) <= Len(y) /\ Len(y) <= Len(x)
  BY <1>2 DEF strip_prefix
<1>4. CASE Len(y) = Len(z)
  <2>1. Len(y) > 0 /\ y[Len(y)] = Slash => z[Len(z)] = Slash
    BY <1>1, <1>2, <1>4 DEF strip_prefix
  <2> QED
    BY <1>1, <1>2, <1>4, <2>1 DEF is_within
<1>5. CASE Len(z) > 0 /\ z[Len(z)] = Slash
  BY <1>2, <1>5 DEF is_within
<1>6. CASE Len(y) > Len(z) /\ y[Len(z) + 1] = Slash
  <2>1. x[Len(z) + 1] = Slash
    BY <1>1, <1>2, <1>6 DEF strip_prefix
  <2>2. Len(x) > Len(z)
    BY <1>1, <1>3, <1>6
  <2> QED
    BY <1>2, <2>1, <2>2 DEF is_within
<1> QED
  BY <1>4, <1>5, <1>6 DEF is_within

(* Every authority is a subset of itself. *)
LEMMA SubsetReflexive == \A u \in Authority : is_subset_of(u, u)
<1> SUFFICES ASSUME NEW u \in Authority PROVE is_subset_of(u, u)
  OBVIOUS
<1>1. CASE u \in FsAuthority \cup MemoryAuthority
  BY <1>1, WithinReflexive DEF FsAuthority, MemoryAuthority, is_subset_of
<1>2. CASE u \in ModelAuthority
  BY <1>2 DEF ModelAuthority, is_subset_of
<1>3. CASE u \in SendAuthority
  BY <1>3 DEF SendAuthority, is_subset_of
<1>4. CASE u \in SpendAuthority
  BY <1>4 DEF SpendAuthority, is_subset_of
<1> QED
  BY <1>1, <1>2, <1>3, <1>4 DEF Authority

(* Narrowing twice is narrowing (Authority::is_subset_of). *)
LEMMA SubsetTransitive ==
  ASSUME NEW u \in Authority, NEW v \in Authority, NEW w \in Authority,
         is_subset_of(u, v), is_subset_of(v, w)
  PROVE  is_subset_of(u, w)
<1>0. u.kind = v.kind /\ v.kind = w.kind
  BY DEF is_subset_of
<1>1. CASE u.kind \in {"Fs", "Memory"}
  <2>1. /\ u.scope \in Scope /\ v.scope \in Scope /\ w.scope \in Scope
    BY <1>0, <1>1 DEF Authority, FsAuthority, MemoryAuthority, ModelAuthority,
                      SendAuthority, SpendAuthority
  <2>2. /\ is_within(u.scope, v.scope)
        /\ is_within(v.scope, w.scope)
        /\ u.write => w.write
    BY <1>0, <1>1 DEF is_subset_of
  <2>3. is_within(u.scope, w.scope)
    BY <2>1, <2>2, WithinTransitive
  <2> QED
    BY <1>0, <1>1, <2>2, <2>3 DEF is_subset_of
<1>2. CASE u.kind = "Model"
  BY <1>0, <1>2 DEF is_subset_of
<1>3. CASE u.kind = "Send"
  BY <1>0, <1>3 DEF is_subset_of
<1>4. CASE u.kind = "Spend"
  <2>1. u.micro_dollars \in Nat /\ v.micro_dollars \in Nat /\ w.micro_dollars \in Nat
    BY <1>0, <1>4 DEF Authority, FsAuthority, MemoryAuthority, ModelAuthority,
                      SendAuthority, SpendAuthority
  <2> QED
    BY <1>0, <1>4, <2>1 DEF is_subset_of
<1> QED
  BY <1>1, <1>2, <1>3, <1>4 DEF is_subset_of

-----------------------------------------------------------------------------
(* Type correctness of the table. *)

(* What a call may do to the table: nothing, push one slot, or rewrite the *)
(* revoked flags.                                                          *)
Mints == \E u \in Requested, h \in Nat : push_slot(u, h, NoParent)
Derives ==
  \E g, h \in Nat, c \in DOMAIN slots, u \in Requested :
    may_derive(g, c, u) /\ push_slot(u, h, c)
Revokes ==
  \E c \in DOMAIN slots, r \in [DOMAIN slots -> BOOLEAN] :
    /\ ForwardPass(c, r)
    /\ slots' = [i \in DOMAIN slots |-> [slots[i] EXCEPT !.revoked = r[i]]]

TableStep == UNCHANGED slots \/ Mints \/ Derives \/ Revokes

(* Every call of the table's interface is such a step. *)
LEMMA TableSteps == AmanNext => TableStep
BY HolderAssumption
   DEF AmanNext, mint, attenuate, delegate, derive, deny, authorize, revoke_tree,
       TableStep, Mints, Derives, Revokes

(* A slot pushed onto a well-typed table keeps it well-typed, leaves the   *)
(* earlier slots as they were and becomes the last one.                    *)
LEMMA PushSlot ==
  ASSUME slots \in Seq(Slot), NEW u \in Authority, NEW h \in Nat, NEW p \in Nat,
         push_slot(u, h, p)
  PROVE  /\ slots' \in Seq(Slot)
         /\ DOMAIN slots' = DOMAIN slots \cup {Len(slots) + 1}
         /\ DOMAIN slots = 1..Len(slots)
         /\ Len(slots) \in Nat
         /\ \A i \in DOMAIN slots : slots'[i] = slots[i]
         /\ slots'[Len(slots) + 1] =
              [authority |-> u, holder |-> h, parent |-> p, revoked |-> FALSE]
<1> DEFINE s == [authority |-> u, holder |-> h, parent |-> p, revoked |-> FALSE]
<1>1. s \in Slot
  BY DEF Slot
<1>2. slots' = Append(slots, s)
  BY DEF push_slot
<1> HIDE DEF s
<1>3. /\ slots' \in Seq(Slot)
      /\ Len(slots') = Len(slots) + 1
      /\ DOMAIN slots' = 1..Len(slots')
      /\ \A i \in 1..Len(slots) : slots'[i] = slots[i]
      /\ slots'[Len(slots) + 1] = s
      /\ DOMAIN slots = 1..Len(slots)
      /\ Len(slots) \in Nat
  BY <1>1, <1>2
<1> QED
  BY <1>3 DEF s

(* Rewriting flags keeps the table's length and everything else of a slot. *)
LEMMA RewriteFlags ==
  ASSUME slots \in Seq(Slot), NEW r \in [DOMAIN slots -> BOOLEAN],
         slots' = [i \in DOMAIN slots |-> [slots[i] EXCEPT !.revoked = r[i]]]
  PROVE  /\ slots' \in Seq(Slot)
         /\ DOMAIN slots' = DOMAIN slots
         /\ \A i \in DOMAIN slots :
              /\ slots[i] \in Slot
              /\ slots'[i].authority = slots[i].authority
              /\ slots'[i].holder = slots[i].holder
              /\ slots'[i].parent = slots[i].parent
              /\ slots'[i].revoked = r[i]
<1>1. DOMAIN slots = 1..Len(slots) /\ Len(slots) \in Nat
  OBVIOUS
<1>2. \A i \in DOMAIN slots : slots[i] \in Slot
  OBVIOUS
<1>3. \A i \in DOMAIN slots : [slots[i] EXCEPT !.revoked = r[i]] \in Slot
  BY <1>2 DEF Slot
<1>4. slots' \in [1..Len(slots) -> Slot]
  BY <1>1, <1>3
<1>5. slots' \in Seq(Slot)
  BY <1>1, <1>4
<1> QED
  BY <1>2, <1>5 DEF Slot

(* A step keeps the table well-typed. *)
LEMMA TableTyped ==
  ASSUME slots \in Seq(Slot), TableStep
  PROVE  slots' \in Seq(Slot)
<1>1. DOMAIN slots \subseteq Nat
  OBVIOUS
<1>2. CASE Mints
  BY <1>2, PushSlot, RequestedAssumption DEF Mints, NoParent
<1>3. CASE Derives
  BY <1>1, <1>3, PushSlot, RequestedAssumption DEF Derives
<1>4. CASE Revokes
  BY <1>4, RewriteFlags DEF Revokes
<1> QED
  BY <1>2, <1>3, <1>4 DEF TableStep

(* The entries a call emits are well-formed. *)
LEMMA EmittedType ==
  ASSUME AmanTypeOK, AmanNext
  PROVE  emitted' \in Seq(Entry)
<1>2. \A x \in Nat, e \in Event : <<entry(x, e)>> \in Seq(Entry)
  BY DEF entry, Entry
<1>3. <<>> \in Seq(Entry)
  OBVIOUS
<1>4. \A h \in Holder : h \in Nat
  BY HolderAssumption
<1> QED
  BY <1>2, <1>3, <1>4
     DEF AmanNext, mint, attenuate, delegate, derive, deny, authorize, revoke_tree, Event

(* Every reachable table and every emitted entry has its declared shape. *)
THEOREM AmanTyped == AmanSpec => []AmanTypeOK
<1>1. AmanInit => AmanTypeOK
  BY DEF AmanInit, AmanTypeOK
<1>2. ASSUME AmanTypeOK, [AmanNext]_amanVars  PROVE AmanTypeOK'
  <2>1. CASE UNCHANGED amanVars
    BY <1>2, <2>1 DEF AmanTypeOK, amanVars
  <2>2. CASE AmanNext
    <3>1. slots \in Seq(Slot) /\ DOMAIN slots \subseteq Nat
      BY <1>2 DEF AmanTypeOK
    <3>2. slots' \in Seq(Slot)
      BY <2>2, <3>1, TableSteps, TableTyped
    <3>3. emitted' \in Seq(Entry)
      BY <1>2, <2>2, EmittedType
    <3> QED
      BY <3>2, <3>3 DEF AmanTypeOK
  <2> QED
    BY <1>2, <2>1, <2>2
<1> QED
  BY <1>1, <1>2, PTL DEF AmanSpec

-----------------------------------------------------------------------------
(* The lineage laws. *)

(* LineageInv is inductive (with the types).  A pushed slot is live, so    *)
(* its parent must be: lookup refused it otherwise.  In the forward pass a *)
(* slot before the target cannot have a parent that the pass revoked,      *)
(* because parents are older.                                              *)
LEMMA LineageStep ==
  ASSUME AmanTypeOK, LineageInv, TableStep
  PROVE  LineageInv'
<1>1. slots \in Seq(Slot) /\ DOMAIN slots = 1..Len(slots) /\ Len(slots) \in Nat
  BY DEF AmanTypeOK
<1>2. CASE UNCHANGED slots
  BY <1>2 DEF LineageInv, OlderParent, Narrower, DiesWithParent, Parent
<1>3. ASSUME NEW u \in Requested, NEW h \in Nat, NEW p \in Nat, push_slot(u, h, p),
             \/ p = NoParent
             \/ /\ p \in DOMAIN slots
                /\ ~slots[p].revoked
                /\ is_subset_of(u, slots[p].authority)
      PROVE  LineageInv'
  <2>1. u \in Authority /\ h \in Nat
    BY RequestedAssumption
  <2>2. /\ DOMAIN slots' = DOMAIN slots \cup {Len(slots) + 1}
        /\ \A i \in DOMAIN slots : slots'[i] = slots[i]
        /\ slots'[Len(slots) + 1] =
             [authority |-> u, holder |-> h, parent |-> p, revoked |-> FALSE]
    BY <1>1, <1>3, <2>1, PushSlot
  <2>3. ASSUME NEW i \in DOMAIN slots
        PROVE  (OlderParent(i) /\ Narrower(i) /\ DiesWithParent(i))'
    <3>1. /\ OlderParent(i) /\ Narrower(i) /\ DiesWithParent(i)
      BY DEF LineageInv
    <3>2. Parent(i) # NoParent => Parent(i) \in DOMAIN slots
      BY <1>1, <3>1 DEF OlderParent
    <3> QED
      BY <2>2, <3>1, <3>2 DEF OlderParent, Narrower, DiesWithParent, Parent
  <2>4. ASSUME NEW i, i = Len(slots) + 1
        PROVE  (OlderParent(i) /\ Narrower(i) /\ DiesWithParent(i))'
    BY <1>1, <1>3, <2>2, <2>4 DEF OlderParent, Narrower, DiesWithParent, Parent, NoParent
  <2> QED
    BY <2>2, <2>3, <2>4 DEF LineageInv
<1>4. ASSUME NEW c \in DOMAIN slots, NEW r \in [DOMAIN slots -> BOOLEAN],
             ForwardPass(c, r),
             slots' = [i \in DOMAIN slots |-> [slots[i] EXCEPT !.revoked = r[i]]]
      PROVE  LineageInv'
  <2>1. /\ DOMAIN slots' = DOMAIN slots
        /\ \A i \in DOMAIN slots :
              /\ slots'[i].authority = slots[i].authority
              /\ slots'[i].parent = slots[i].parent
              /\ slots'[i].revoked = r[i]
    BY <1>1, <1>4, RewriteFlags
  <2>2. ASSUME NEW i \in DOMAIN slots
        PROVE  (OlderParent(i) /\ Narrower(i) /\ DiesWithParent(i))'
    <3>1. /\ OlderParent(i) /\ Narrower(i) /\ DiesWithParent(i)
      BY DEF LineageInv
    <3>2. Parent(i) # NoParent => Parent(i) \in DOMAIN slots /\ Parent(i) < i
      BY <1>1, <3>1 DEF OlderParent
    <3>3. OlderParent(i)' /\ Narrower(i)'
      BY <2>1, <3>1, <3>2 DEF OlderParent, Narrower, Parent
    <3>4. ASSUME Parent(i) # NoParent, r[Parent(i)]  PROVE r[i]
      <4>1. CASE i >= c
        BY <1>1, <1>4, <3>4, <4>1 DEF ForwardPass
      <4>2. CASE i < c
        <5>1. slots[Parent(i)].revoked
          BY <1>1, <1>4, <3>2, <3>4, <4>2 DEF ForwardPass
        <5> QED
          BY <1>4, <3>1, <3>4, <5>1 DEF ForwardPass, DiesWithParent
      <4> QED
        BY <1>1, <4>1, <4>2
    <3> QED
      BY <2>1, <3>2, <3>3, <3>4 DEF DiesWithParent, Parent
  <2> QED
    BY <2>1, <2>2 DEF LineageInv
<1>5. CASE Mints
  BY <1>3, <1>5 DEF Mints, NoParent
<1>6. CASE Derives
  <2>1. PICK g \in Nat, h \in Nat, c \in DOMAIN slots, u \in Requested :
               may_derive(g, c, u) /\ push_slot(u, h, c)
    BY <1>6 DEF Derives
  <2>2. ~slots[c].revoked /\ is_subset_of(u, slots[c].authority) /\ c \in Nat
    BY <1>1, <2>1 DEF may_derive, lookup
  <2> QED
    BY <1>3, <2>1, <2>2
<1> QED
  BY <1>2, <1>4, <1>5, <1>6 DEF TableStep, Revokes

(* Each slot is younger than, no wider than, and dies with its parent. *)
THEOREM Lineage == AmanSpec => []LineageInv
<1>1. AmanInit => LineageInv
  BY DEF AmanInit, LineageInv
<1>2. AmanTypeOK /\ LineageInv /\ [AmanNext]_amanVars => LineageInv'
  <2>1. CASE AmanNext
    BY <2>1, LineageStep, TableSteps
  <2>2. CASE UNCHANGED amanVars
    BY <2>2 DEF amanVars, LineageInv, OlderParent, Narrower, DiesWithParent, Parent
  <2> QED
    BY <2>1, <2>2
<1> QED
  BY <1>1, <1>2, AmanTyped, PTL DEF AmanSpec

(* One-step narrowing and dying give the laws along whole lineages: the    *)
(* slots that dominate i form a set closed under "derived from".           *)
LEMMA Dominance ==
  ASSUME AmanTypeOK, LineageInv
  PROVE  AncestorsDominate
<1>0. \A i \in DOMAIN slots : slots[i] \in Slot
  BY DEF AmanTypeOK
<1>1. \A i \in DOMAIN slots : slots[i].authority \in Authority
  BY <1>0 DEF Slot
<1>2. DOMAIN slots = 1..Len(slots) /\ Len(slots) \in Nat
  BY DEF AmanTypeOK
<1> SUFFICES ASSUME NEW i \in DOMAIN slots, NEW c \in DOMAIN slots, IsAncestor(c, i)
             PROVE  /\ is_subset_of(slots[i].authority, slots[c].authority)
                    /\ slots[c].revoked => slots[i].revoked
  BY DEF AncestorsDominate
<1> DEFINE S == {j \in DOMAIN slots :
                   /\ is_subset_of(slots[i].authority, slots[j].authority)
                   /\ slots[j].revoked => slots[i].revoked}
<1>3. i \in S
  BY <1>1, SubsetReflexive
<1>4. ASSUME NEW j \in S, Parent(j) # NoParent  PROVE Parent(j) \in S
  <2>1. OlderParent(j) /\ Narrower(j) /\ DiesWithParent(j)
    BY DEF LineageInv
  <2>2. Parent(j) \in DOMAIN slots
    BY <1>2, <1>4, <2>1 DEF OlderParent
  <2>3. is_subset_of(slots[i].authority, slots[Parent(j)].authority)
    BY <1>1, <1>4, <2>1, <2>2, SubsetTransitive DEF Narrower
  <2> QED
    BY <1>4, <2>1, <2>2, <2>3 DEF DiesWithParent
<1>5. c \in S
  BY <1>3, <1>4 DEF IsAncestor
<1> QED
  BY <1>5

(* Along every lineage authority only narrows and nothing outlives a       *)
(* revoked ancestor.                                                       *)
THEOREM LineageDominates == AmanSpec => []AncestorsDominate
BY AmanTyped, Lineage, Dominance, PTL

-----------------------------------------------------------------------------
(* Revocation. *)

(* Everything below the target of a forward pass is revoked by it: the     *)
(* slots the pass leaves live are closed under "derived from".             *)
LEMMA PassReachesSubtree ==
  ASSUME AmanTypeOK, LineageInv, NEW c \in DOMAIN slots,
         NEW r \in [DOMAIN slots -> BOOLEAN], ForwardPass(c, r),
         NEW i \in DOMAIN slots, IsAncestor(c, i)
  PROVE  r[i]
<1>1. DOMAIN slots = 1..Len(slots) /\ Len(slots) \in Nat
  BY DEF AmanTypeOK
<1> SUFFICES ASSUME ~r[i] PROVE FALSE
  OBVIOUS
<1> DEFINE S == {j \in DOMAIN slots : ~r[j]}
<1>2. ASSUME NEW j \in S, Parent(j) # NoParent  PROVE Parent(j) \in S
  <2>1. OlderParent(j) /\ DiesWithParent(j)
    BY DEF LineageInv
  <2>2. Parent(j) \in DOMAIN slots /\ Parent(j) < j
    BY <1>1, <1>2, <2>1 DEF OlderParent
  <2>3. CASE j > c
    BY <1>2, <2>2, <2>3 DEF ForwardPass
  <2>4. CASE j < c
    <3>1. ~slots[j].revoked
      BY DEF ForwardPass
    <3>2. ~slots[Parent(j)].revoked
      BY <1>2, <2>1, <3>1 DEF DiesWithParent
    <3> QED
      BY <1>1, <2>2, <2>4, <3>2 DEF ForwardPass
  <2>5. CASE j = c
    BY <2>5 DEF ForwardPass
  <2> QED
    BY <1>1, <2>3, <2>4, <2>5
<1>3. c \in S
  BY <1>2 DEF IsAncestor
<1> QED
  BY <1>3 DEF ForwardPass

(* A forward pass revokes nothing else: in a set of slots closed under     *)
(* "derived from" that avoids the target, the least newly revoked slot     *)
(* would have had a parent revoked before the pass.                        *)
LEMMA PassStaysInSubtree ==
  ASSUME AmanTypeOK, LineageInv, NEW c \in DOMAIN slots,
         NEW r \in [DOMAIN slots -> BOOLEAN], ForwardPass(c, r),
         NEW i \in DOMAIN slots, r[i], ~slots[i].revoked
  PROVE  IsAncestor(c, i)
<1>1. DOMAIN slots = 1..Len(slots) /\ Len(slots) \in Nat
  BY DEF AmanTypeOK
<1> SUFFICES ASSUME NEW S \in SUBSET DOMAIN slots, i \in S,
                    \A j \in S : Parent(j) # NoParent => Parent(j) \in S,
                    c \notin S
             PROVE  FALSE
  BY DEF IsAncestor
<1> DEFINE T == {j \in S : r[j] /\ ~slots[j].revoked}
<1>2. T \in SUBSET Nat /\ T # {}
  BY <1>1
<1>3. PICK j \in T : \A k \in T : j <= k
  BY <1>2, LeastNatural
<1>4. Parent(j) # NoParent /\ r[Parent(j)] /\ Parent(j) \in S
  BY <1>3 DEF ForwardPass
<1>5. OlderParent(j) /\ DiesWithParent(j)
  BY DEF LineageInv
<1>6. Parent(j) < j
  BY <1>1, <1>4, <1>5 DEF OlderParent
<1>7. slots[Parent(j)].revoked
  BY <1>1, <1>3, <1>4, <1>6
<1> QED
  BY <1>3, <1>4, <1>5, <1>7 DEF DiesWithParent

(* What a step of the table revokes: a subtree, or nothing.                *)
LEMMA ExactStep ==
  ASSUME AmanTypeOK, LineageInv, TableStep
  PROVE  (\E i \in DOMAIN slots : slots[i].revoked # slots'[i].revoked) =>
           /\ DOMAIN slots' = DOMAIN slots
           /\ \E c \in DOMAIN slots : \A i \in DOMAIN slots :
                slots'[i].revoked <=> slots[i].revoked \/ IsAncestor(c, i)
<1> DEFINE Exact ==
      (\E i \in DOMAIN slots : slots[i].revoked # slots'[i].revoked) =>
        /\ DOMAIN slots' = DOMAIN slots
        /\ \E c \in DOMAIN slots : \A i \in DOMAIN slots :
             slots'[i].revoked <=> slots[i].revoked \/ IsAncestor(c, i)
<1>1. slots \in Seq(Slot) /\ DOMAIN slots \subseteq Nat
  BY DEF AmanTypeOK
<1>2. CASE UNCHANGED slots
  BY <1>2
<1>3. CASE Mints
  BY <1>1, <1>3, PushSlot, RequestedAssumption DEF Mints, NoParent
<1>4. CASE Derives
  BY <1>1, <1>4, PushSlot, RequestedAssumption DEF Derives
<1>5. ASSUME NEW c \in DOMAIN slots, NEW r \in [DOMAIN slots -> BOOLEAN],
             ForwardPass(c, r),
             slots' = [i \in DOMAIN slots |-> [slots[i] EXCEPT !.revoked = r[i]]]
      PROVE  Exact
  <2>1. DOMAIN slots' = DOMAIN slots
    BY <1>1, <1>5, RewriteFlags
  <2>2. ASSUME NEW i \in DOMAIN slots
        PROVE  slots'[i].revoked <=> slots[i].revoked \/ IsAncestor(c, i)
    <3>1. slots'[i].revoked = r[i]
      BY <1>1, <1>5, RewriteFlags
    <3>2. slots[i].revoked => r[i]
      BY <1>5 DEF ForwardPass
    <3>3. IsAncestor(c, i) => r[i]
      BY <1>5, PassReachesSubtree
    <3>4. r[i] /\ ~slots[i].revoked => IsAncestor(c, i)
      BY <1>5, PassStaysInSubtree
    <3> QED
      BY <3>1, <3>2, <3>3, <3>4
  <2> QED
    BY <2>1, <2>2
<1> QED
  BY <1>2, <1>3, <1>4, <1>5 DEF TableStep, Revokes

(* Revocation removes a whole subtree of live capabilities and nothing     *)
(* else, in one pass.                                                      *)
THEOREM RevocationIsExact == AmanSpec => RevokesExactlySubtree
<1> DEFINE Exact ==
      (\E i \in DOMAIN slots : slots[i].revoked # slots'[i].revoked) =>
        /\ DOMAIN slots' = DOMAIN slots
        /\ \E c \in DOMAIN slots : \A i \in DOMAIN slots :
             slots'[i].revoked <=> slots[i].revoked \/ IsAncestor(c, i)
<1>1. AmanTypeOK /\ LineageInv /\ [AmanNext]_amanVars => [Exact]_amanVars
  BY ExactStep, TableSteps
<1> QED
  BY <1>1, AmanTyped, Lineage, PTL DEF AmanSpec, RevokesExactlySubtree

(* What authorize lets through is live, with all it descends from. *)
LEMMA LiveWhenAuthorized ==
  ASSUME AncestorsDominate
  PROVE  AuthorizedOnlyLive
<1> SUFFICES ASSUME NEW h \in Holder, NEW c \in DOMAIN slots, NEW yes \in BOOLEAN,
                    authorization(h, c, yes) = "Ok"
             PROVE  /\ \A d \in DOMAIN slots : IsAncestor(d, c) => ~slots[d].revoked
                    /\ Irreversible(slots[c].authority) => yes
  BY DEF AuthorizedOnlyLive
<1>1. lookup(h, c) = "Ok" /\ (Irreversible(slots[c].authority) => yes)
  BY DEF authorization
<1>2. ~slots[c].revoked
  BY <1>1 DEF lookup
<1> QED
  BY <1>1, <1>2 DEF AncestorsDominate

(* No capability is authorised below a revoked ancestor, and none of       *)
(* irreversible risk without a yes (aman::authorize).                      *)
THEOREM AuthorizationIsLive == AmanSpec => []AuthorizedOnlyLive
BY LiveWhenAuthorized, LineageDominates, PTL

-----------------------------------------------------------------------------
(* Containment, read as directories. *)

(* A textual prefix agrees with the text it is a prefix of, cut anywhere.  *)
LEMMA SamePrefix ==
  ASSUME NEW x \in Scope, NEW y \in Scope, strip_prefix(x, y), NEW n \in 0..Len(y)
  PROVE  SubSeq(x, 1, n) = SubSeq(y, 1, n)
<1>1. /\ Len(x) \in Nat /\ Len(y) \in Nat /\ n \in Nat /\ n <= Len(y) /\ Len(y) <= Len(x)
      /\ \A i \in 1..n : x[i] = y[i] /\ x[i] \in Char /\ y[i] \in Char
  BY DEF Scope, strip_prefix
<1> DEFINE u == SubSeq(x, 1, n)
           v == SubSeq(y, 1, n)
<1>2. u \in Seq(Char) /\ Len(u) = n /\ \A i \in 1..n : u[i] = x[i]
  BY <1>1 DEF Scope
<1>3. v \in Seq(Char) /\ Len(v) = n /\ \A i \in 1..n : v[i] = y[i]
  BY <1>1 DEF Scope
<1> HIDE DEF u, v
<1>4. u = v
  BY <1>1, <1>2, <1>3, SeqEqual
<1> QED
  BY <1>4 DEF u, v

(* A path cut at its length is the path. *)
LEMMA WholePath ==
  ASSUME NEW y \in Scope
  PROVE  SubSeq(y, 1, Len(y)) = y
<1> DEFINE v == SubSeq(y, 1, Len(y))
<1>1. Len(y) \in Nat /\ y \in Seq(Char)
  BY DEF Scope
<1>2. v \in Seq(Char) /\ Len(v) = Len(y) /\ \A i \in 1..Len(y) : v[i] = y[i]
  BY <1>1
<1> HIDE DEF v
<1>3. v = y
  BY <1>1, <1>2, SeqEqual
<1> QED
  BY <1>3 DEF v

(* is_within decides on text what the reading by directories means.        *)
LEMMA WithinIsInside ==
  ASSUME NEW x \in Scope, NEW y \in Scope, is_within(x, y)
  PROVE  WithoutTrailingSlash(y) \in Directories(x)
<1>1. Len(x) \in Nat /\ Len(y) \in Nat /\ strip_prefix(x, y) /\ Len(y) <= Len(x)
  BY DEF Scope, is_within, strip_prefix
<1>2. ASSUME NEW n \in 0..Len(x), n = Len(x) \/ x[n + 1] = Slash
      PROVE  SubSeq(x, 1, n) \in Directories(x)
  BY <1>2 DEF Directories
<1>3. CASE Len(y) > 0 /\ y[Len(y)] = Slash
  <2> DEFINE n == Len(y) - 1
  <2>1. n \in 0..Len(x) /\ n \in 0..Len(y) /\ n + 1 = Len(y) /\ Len(y) \in 1..Len(y)
    BY <1>1, <1>3
  <2>2. x[n + 1] = Slash
    BY <1>1, <1>3, <2>1 DEF strip_prefix
  <2>3. WithoutTrailingSlash(y) = SubSeq(y, 1, n)
    BY <1>1, <1>3 DEF WithoutTrailingSlash
  <2>4. SubSeq(x, 1, n) = SubSeq(y, 1, n)
    BY <1>1, <2>1, SamePrefix
  <2> HIDE DEF n
  <2> QED
    BY <1>2, <2>1, <2>2, <2>3, <2>4
<1>4. CASE ~(Len(y) > 0 /\ y[Len(y)] = Slash)
  <2>1. y # <<>> => Len(y) > 0
    BY <1>1 DEF Scope
  <2>2. WithoutTrailingSlash(y) = y
    BY <1>4, <2>1 DEF WithoutTrailingSlash
  <2>3. Len(y) \in 0..Len(x) /\ (Len(y) = Len(x) \/ x[Len(y) + 1] = Slash)
    BY <1>1, <1>4 DEF is_within
  <2>4. SubSeq(x, 1, Len(y)) = y
    BY <1>1, SamePrefix, WholePath
  <2> QED
    BY <1>2, <2>2, <2>3, <2>4
<1> QED
  BY <1>3, <1>4

(* One derivation stays inside the directory it started from.              *)
LEMMA InsideParent ==
  ASSUME AmanTypeOK, LineageInv
  PROVE  DerivedStaysInside
<1> SUFFICES ASSUME NEW i \in DOMAIN slots, Parent(i) # NoParent,
                    slots[i].authority.kind \in {"Fs", "Memory"}
             PROVE  WithoutTrailingSlash(slots[Parent(i)].authority.scope)
                      \in Directories(slots[i].authority.scope)
  BY DEF DerivedStaysInside
<1> DEFINE u == slots[i].authority
           v == slots[Parent(i)].authority
<1>1. OlderParent(i) /\ Narrower(i) /\ DOMAIN slots = 1..Len(slots) /\ Len(slots) \in Nat
  BY DEF LineageInv, AmanTypeOK
<1>2. Parent(i) \in DOMAIN slots /\ is_subset_of(u, v)
  BY <1>1 DEF OlderParent, Narrower
<1>3. u \in Authority /\ v \in Authority
  <2>1. slots[i] \in Slot /\ slots[Parent(i)] \in Slot
    BY <1>2 DEF AmanTypeOK
  <2> QED
    BY <2>1 DEF Slot
<1>4. u.kind \in {"Fs", "Memory"} /\ v.kind = u.kind /\ is_within(u.scope, v.scope)
  BY <1>2 DEF is_subset_of
<1> HIDE DEF u, v
<1>5. u.scope \in Scope /\ v.scope \in Scope
  BY <1>3, <1>4 DEF Authority, FsAuthority, MemoryAuthority, ModelAuthority,
                    SendAuthority, SpendAuthority
<1> QED
  BY <1>4, <1>5, WithinIsInside DEF u, v

(* No derived capability names a place outside its parent's directory.     *)
THEOREM DerivationStaysInside == AmanSpec => []DerivedStaysInside
BY AmanTyped, Lineage, InsideParent, PTL

-----------------------------------------------------------------------------
(* The table is append-only up to revocation. *)
THEOREM TableIsAppendOnly == AmanSpec => SlotsAreForever
<1> DEFINE Kept ==
      \A i \in DOMAIN slots :
        /\ i \in DOMAIN slots'
        /\ slots'[i] \in {slots[i], [slots[i] EXCEPT !.revoked = TRUE]}
<1>1. ASSUME AmanTypeOK, AmanNext  PROVE Kept
  <2>1. slots \in Seq(Slot) /\ DOMAIN slots \subseteq Nat
    BY <1>1 DEF AmanTypeOK
  <2>2. CASE UNCHANGED slots
    BY <2>2
  <2>3. CASE Mints
    BY <2>1, <2>3, PushSlot, RequestedAssumption DEF Mints, NoParent
  <2>4. CASE Derives
    BY <2>1, <2>4, PushSlot, RequestedAssumption DEF Derives
  <2>5. ASSUME NEW c \in DOMAIN slots, NEW r \in [DOMAIN slots -> BOOLEAN],
               ForwardPass(c, r),
               slots' = [i \in DOMAIN slots |-> [slots[i] EXCEPT !.revoked = r[i]]]
        PROVE  Kept
    <3> SUFFICES ASSUME NEW i \in DOMAIN slots
                 PROVE  /\ i \in DOMAIN slots'
                        /\ slots'[i] \in {slots[i], [slots[i] EXCEPT !.revoked = TRUE]}
      OBVIOUS
    <3>1. i \in DOMAIN slots' /\ slots[i] \in Slot
      BY <2>1, <2>5
    <3>2. slots'[i] = [slots[i] EXCEPT !.revoked = r[i]]
      BY <2>5
    <3>3. slots[i].revoked => r[i]
      BY <2>5 DEF ForwardPass
    <3>4. CASE r[i]
      BY <3>1, <3>2, <3>4
    <3>5. CASE ~r[i]
      <4>1. slots[i].revoked = FALSE /\ r[i] = FALSE
        BY <3>1, <3>3, <3>5 DEF Slot
      <4>2. [slots[i] EXCEPT !.revoked = FALSE] = slots[i]
        BY <3>1, <4>1 DEF Slot
      <4> QED
        BY <3>1, <3>2, <4>1, <4>2
    <3> QED
      BY <3>4, <3>5
  <2> QED
    BY <1>1, <2>2, <2>3, <2>4, <2>5, TableSteps DEF TableStep, Revokes
<1>2. AmanTypeOK /\ [AmanNext]_amanVars => [Kept]_amanVars
  BY <1>1
<1> QED
  BY <1>2, AmanTyped, PTL DEF AmanSpec, SlotsAreForever

-----------------------------------------------------------------------------
(* What a step may do to the consent queue and the acts: nothing, queue an *)
(* open question, decide one, or burn a yes for the act it authorises.     *)
Asks ==
  /\ \E a \in DOMAIN agents, c \in DOMAIN slots :
       /\ may_ask(a)
       /\ \A r \in Pending(a) : approvals[r].capability # c
       /\ approvals' = Append(approvals, [agent |-> a, capability |-> c,
                                          answered |-> "None", consumed |-> FALSE])
  /\ UNCHANGED acts

Decides ==
  /\ \E r \in DOMAIN approvals, answer \in {"Yes", "No"} :
       /\ Open(r)
       /\ approvals' = [approvals EXCEPT ![r].answered = answer]
  /\ UNCHANGED acts

Burns ==
  \E a \in DOMAIN agents, c \in DOMAIN slots :
    /\ approved(a, c)
    /\ approvals' = [approvals EXCEPT ![agents[a].awaiting].consumed = TRUE]
    /\ acts' = Append(acts, [agent |-> a, capability |-> c,
                             request |-> agents[a].awaiting])

ConsentStep == UNCHANGED <<approvals, acts>> \/ Asks \/ Decides \/ Burns

(* Only an approved crossing burns: an irreversible authority is not       *)
(* authorised otherwise, and a Spend is irreversible.                      *)
LEMMA CommitBurnsApproved ==
  ASSUME NEW a \in DOMAIN agents, NEW c \in DOMAIN slots, NEW cost, NEW burn, NEW journal,
         commit(a, c, cost, burn, journal), burn => approved(a, c)
  PROVE  ConsentStep
BY DEF commit, ConsentStep, Burns

(* An irreversible crossing that authorize lets through had a matching,    *)
(* unused yes (authorize in aman, the approval check in invoke and spend). *)
LEMMA OkIsApproved ==
  ASSUME NEW a, NEW c, authorization(a, c, approved(a, c)) = "Ok",
         Irreversible(slots[c].authority)
  PROVE  approved(a, c)
BY DEF authorization

(* Every step of the gate asks, decides or burns a request, or leaves the  *)
(* requests and the history of acts alone.                                 *)
LEMMA ConsentSteps == GateNext => ConsentStep
<1>1. NewAgents => UNCHANGED <<approvals, acts>>
  BY DEF NewAgents, spawn, gate_delegate
<1>2. NewSlots => UNCHANGED <<approvals, acts>>
  BY DEF NewSlots, grant, gate_attenuate
<1>3. ASSUME NEW a \in DOMAIN agents, NEW c \in DOMAIN slots, NEW journal,
             crossing(a, c, journal)
      PROVE  ConsentStep
  BY <1>3, OkIsApproved, CommitBurnsApproved DEF crossing, ConsentStep
<1>4. ASSUME NEW a \in DOMAIN agents, NEW c \in DOMAIN slots, NEW amount \in SpendAmounts,
             spend(a, c, amount)
      PROVE  ConsentStep
  BY <1>4, OkIsApproved, CommitBurnsApproved DEF spend, ConsentStep, Irreversible, risk
<1>5. ASSUME NEW a \in DOMAIN agents, NEW c \in DOMAIN slots, request_approval(a, c)
      PROVE  ConsentStep
  BY <1>5 DEF request_approval, ConsentStep, Asks
<1>6. ASSUME NEW r \in DOMAIN approvals, NEW yes \in BOOLEAN, answer_approval(r, yes)
      PROVE  ConsentStep
  BY <1>6 DEF answer_approval, may_answer, ConsentStep, Decides
<1>7. Verbs => ConsentStep
  BY <1>3, <1>4, <1>5 DEF Verbs, invoke, remember
<1>8. KernelCalls => ConsentStep
  BY <1>6 DEF KernelCalls, charge, revoke, ConsentStep
<1>9. Steps => UNCHANGED <<approvals, acts>>
  BY DEF Steps, StepBegin, StepEnd
<1> QED
  BY <1>1, <1>2, <1>7, <1>8, <1>9 DEF GateNext, ConsentStep

-----------------------------------------------------------------------------
(* What a step may do to the agents: nothing, rewrite one of them, or      *)
(* append a new one, its parent's budget rewritten before.                 *)
Rewrites ==
  \E a \in DOMAIN agents, x \in Agent :
    /\ agents' = [agents EXCEPT ![a] = x]
    /\ x.parent = agents[a].parent
    /\ x.awaiting \in {agents[a].awaiting, NoRequest} \cup DOMAIN approvals'

Joins ==
  \E b \in [DOMAIN agents -> Budgets], x \in Agent :
    /\ agents' = Append([i \in DOMAIN agents |-> [agents[i] EXCEPT !.budget = b[i]]], x)
    /\ x.parent \in {Kernel} \cup DOMAIN agents
    /\ x.awaiting = NoRequest

AgentStep == UNCHANGED agents \/ Rewrites \/ Joins

(* The fields of an agent, one by one. *)
LEMMA AgentFields ==
  ASSUME NEW x \in Agent
  PROVE  /\ x.parent \in Nat /\ x.state \in State /\ x.budget \in Budgets
         /\ x.capabilities \in Seq(Nat) /\ x.awaiting \in Nat
         /\ x.budget.money \in Nat /\ x.budget.spent \in Nat
         /\ x.budget.wall \in Nat /\ x.budget.used \in Nat
BY DEF Agent, Budgets

(* The price list has a price for every authority.                         *)
LEMMA PriceIsNat == \A u \in Authority : price_of(u) \in Nat
<1> SUFFICES ASSUME NEW u \in Authority PROVE price_of(u) \in Nat
  OBVIOUS
<1>1. CASE u \in FsAuthority \cup MemoryAuthority
  BY <1>1 DEF FsAuthority, MemoryAuthority, price_of
<1>2. CASE u \in ModelAuthority
  BY <1>2 DEF ModelAuthority, ModelClass, price_of
<1>3. CASE u \in SendAuthority
  BY <1>3 DEF SendAuthority, price_of
<1>4. CASE u \in SpendAuthority
  BY <1>4 DEF SpendAuthority, price_of
<1> QED
  BY <1>1, <1>2, <1>3, <1>4 DEF Authority

(* A rewritten agent is an agent. *)
LEMMA AgentRewrites ==
  ASSUME NEW x \in Agent
  PROVE  /\ \A s \in State : [x EXCEPT !.state = s] \in Agent
         /\ \A b \in Budgets : [x EXCEPT !.budget = b] \in Agent
         /\ \A r \in Nat : [x EXCEPT !.awaiting = r] \in Agent
         /\ \A c \in Nat : push_capability(x, c) \in Agent
         /\ \A n \in Nat : [x.budget EXCEPT !.spent = n] \in Budgets
         /\ \A n \in Nat : [x.budget EXCEPT !.used = n] \in Budgets
<1>1. \A c \in Nat : Append(x.capabilities, c) \in Seq(Nat)
  BY AgentFields
<1> QED
  BY <1>1 DEF Agent, Budgets, push_capability

(* Rewriting one agent's budget is rewriting all budgets. *)
LEMMA FundedTogether ==
  ASSUME agents \in Seq(Agent), NEW a \in DOMAIN agents, NEW new \in Budgets
  PROVE  \E b \in [DOMAIN agents -> Budgets] :
           [agents EXCEPT ![a].budget = new]
             = [i \in DOMAIN agents |-> [agents[i] EXCEPT !.budget = b[i]]]
<1> DEFINE b == [i \in DOMAIN agents |-> IF i = a THEN new ELSE agents[i].budget]
<1>1. \A i \in DOMAIN agents : agents[i] \in Agent
  OBVIOUS
<1>2. b \in [DOMAIN agents -> Budgets]
  BY <1>1, AgentFields
<1>3. \A i \in DOMAIN agents : [agents[i] EXCEPT !.budget = agents[i].budget] = agents[i]
  BY <1>1 DEF Agent
<1>4. [agents EXCEPT ![a].budget = new]
        = [i \in DOMAIN agents |-> [agents[i] EXCEPT !.budget = b[i]]]
  BY <1>1, <1>3
<1> QED
  BY <1>2, <1>4

(* A newborn is an agent that waits for nothing. *)
LEMMA NewAgent ==
  ASSUME NEW p \in Nat, NEW m \in Nat, NEW w \in Nat
  PROVE  LET x == new_agent(p, Budget_new(m, w))
         IN  x \in Agent /\ x.awaiting = NoRequest /\ x.parent = p
BY DEF Budget_new, Budgets, new_agent, Agent, State, NoRequest

(* So it is once its capability list is filled in. *)
LEMMA ListedAgent ==
  ASSUME NEW x \in Agent, NEW c \in Nat
  PROVE  LET y == [x EXCEPT !.capabilities = <<c>>]
         IN  y \in Agent /\ y.awaiting = x.awaiting /\ y.parent = x.parent
<1>1. <<c>> \in Seq(Nat)
  OBVIOUS
<1>2. \A s \in Seq(Nat) : [x EXCEPT !.capabilities = s] \in Agent
  BY DEF Agent
<1>3. \A s : /\ [x EXCEPT !.capabilities = s].awaiting = x.awaiting
             /\ [x EXCEPT !.capabilities = s].parent = x.parent
  BY DEF Agent
<1> QED
  BY <1>1, <1>2, <1>3

(* What carve leaves with the parent is a budget.                          *)
LEMMA CarvedBudget ==
  ASSUME NEW b \in Budgets, NEW m \in Nat, NEW w \in Nat
  PROVE  carved(b, m, w) \in Budgets
<1>1. b.spent + m \in Nat /\ b.used + w \in Nat /\ b.used \in Nat
  BY DEF Budgets
<1> QED
  BY <1>1 DEF carved, Budgets

(* spawn and delegate add one agent at the end, or are refused.            *)
LEMMA JoinSteps ==
  ASSUME GateTypeOK, NewAgents
  PROVE  Joins \/ UNCHANGED agents
<1>0. /\ agents \in Seq(Agent) /\ slots \in Seq(Slot)
      /\ DOMAIN agents = 1..Len(agents) /\ Len(agents) \in Nat /\ Len(slots) \in Nat
      /\ \A a \in DOMAIN agents : agents[a] \in Agent
  BY DEF GateTypeOK, AmanTypeOK
<1>1. ASSUME NEW b \in RootBudgets, spawn(Budget_new(b[1], b[2]))
      PROVE  Joins
  <2>1. b[1] \in Nat /\ b[2] \in Nat
    BY GateAssumption
  <2> DEFINE x == new_agent(Kernel, Budget_new(b[1], b[2]))
             same == [i \in DOMAIN agents |-> agents[i].budget]
  <2>2. x \in Agent /\ x.awaiting = NoRequest /\ x.parent = Kernel
    BY <2>1, NewAgent, Kernel \in Nat DEF Kernel
  <2>3. same \in [DOMAIN agents -> Budgets]
    BY <1>0, AgentFields
  <2>4. agents = [i \in DOMAIN agents |-> [agents[i] EXCEPT !.budget = same[i]]]
    BY <1>0 DEF Agent
  <2>5. agents' = Append([i \in DOMAIN agents |-> [agents[i] EXCEPT !.budget = same[i]]], x)
    BY <1>1, <2>4 DEF spawn
  <2> QED
    BY <2>2, <2>3, <2>5 DEF Joins
<1>2. ASSUME NEW a \in DOMAIN agents, NEW c \in DOMAIN slots, NEW u \in Requested,
             NEW b \in ShareBudgets, gate_delegate(a, c, u, b[1], b[2])
      PROVE  Joins \/ UNCHANGED agents
  <2>1. b[1] \in Nat /\ b[2] \in Nat /\ a \in Nat
    BY <1>0, GateAssumption
  <2>2. CASE UNCHANGED agents
    BY <2>2
  <2>3. CASE fund_child(a, b[1], b[2], <<Len(slots) + 1>>)
    <3> DEFINE new == carved(agents[a].budget, b[1], b[2])
               x == [new_agent(a, Budget_new(b[1], b[2])) EXCEPT
                       !.capabilities = <<Len(slots) + 1>>]
    <3>1. new \in Budgets
      BY <1>0, <2>1, AgentFields, CarvedBudget
    <3>2. PICK f \in [DOMAIN agents -> Budgets] :
            [agents EXCEPT ![a].budget = new]
              = [i \in DOMAIN agents |-> [agents[i] EXCEPT !.budget = f[i]]]
      BY <1>0, <3>1, FundedTogether
    <3>3. x \in Agent /\ x.awaiting = NoRequest /\ x.parent = a
      <4> DEFINE y == new_agent(a, Budget_new(b[1], b[2]))
      <4>1. y \in Agent /\ y.awaiting = NoRequest /\ y.parent = a
        BY <2>1, NewAgent
      <4> HIDE DEF y
      <4>2. LET z == [y EXCEPT !.capabilities = <<Len(slots) + 1>>]
            IN  z \in Agent /\ z.awaiting = y.awaiting /\ z.parent = y.parent
        BY <1>0, <4>1, ListedAgent
      <4> QED
        BY <4>1, <4>2 DEF y
    <3>4. agents' = Append([agents EXCEPT ![a].budget = new], x)
      BY <2>3 DEF fund_child
    <3> HIDE DEF new, x
    <3>5. agents' = Append([i \in DOMAIN agents |-> [agents[i] EXCEPT !.budget = f[i]]], x)
      BY <3>2, <3>4
    <3> QED
      BY <3>3, <3>5 DEF Joins
  <2> QED
    BY <1>2, <2>2, <2>3 DEF gate_delegate
<1> QED
  BY <1>1, <1>2 DEF NewAgents

(* Paying, or being suspended for not being able to, rewrites one agent. *)
LEMMA CommitRewrites ==
  ASSUME GateTypeOK, NEW a \in DOMAIN agents, NEW c \in DOMAIN slots, NEW cost \in Nat,
         NEW burn, NEW journal, commit(a, c, cost, burn, journal)
  PROVE  Rewrites
<1>0. agents \in Seq(Agent) /\ agents[a] \in Agent
  BY DEF GateTypeOK
<1> DEFINE y == [agents[a] EXCEPT !.budget.spent = @ + cost]
<1>1. y \in Agent /\ y.parent = agents[a].parent /\ y.awaiting = agents[a].awaiting
  <2>1. agents[a].budget.spent + cost \in Nat
    BY <1>0, AgentFields
  <2>2. [agents[a].budget EXCEPT !.spent = @ + cost] \in Budgets
    BY <1>0, <2>1, AgentRewrites
  <2> QED
    BY <1>0, <2>2 DEF Agent
<1>2. CASE agents' = [agents EXCEPT ![a].state = "Suspended"]
  <2>1. [agents[a] EXCEPT !.state = "Suspended"] \in Agent
    BY <1>0, AgentRewrites DEF State
  <2> QED
    BY <1>0, <1>2, <2>1 DEF Rewrites, Agent
<1>3. CASE agents' = [agents EXCEPT ![a].budget.spent = @ + cost]
  <2>1. agents' = [agents EXCEPT ![a] = y]
    BY <1>3
  <2> QED
    BY <1>1, <2>1 DEF Rewrites
<1>4. CASE agents' = [agents EXCEPT ![a].budget.spent = @ + cost,
                                    ![a].awaiting = NoRequest]
  <2> DEFINE x == [y EXCEPT !.awaiting = NoRequest]
  <2>1. agents' = [agents EXCEPT ![a] = x]
    BY <1>0, <1>4
  <2>2. x \in Agent /\ x.parent = agents[a].parent /\ x.awaiting = NoRequest
    <3> HIDE DEF y
    <3>1. x \in Agent
      BY <1>1, AgentRewrites DEF NoRequest
    <3> QED
      BY <1>1, <3>1 DEF Agent
  <2> QED
    BY <2>1, <2>2 DEF Rewrites
<1> QED
  BY <1>2, <1>3, <1>4 DEF commit

(* The agents after any other call of the kernel or of an agent. *)
LEMMA AnswerRewrites ==
  ASSUME GateTypeOK, NEW r \in DOMAIN approvals, NEW yes \in BOOLEAN,
         answer_approval(r, yes)
  PROVE  Rewrites \/ UNCHANGED agents
<1> DEFINE a == approvals[r].agent
           x == answered_agent(agents[a], yes)
<1>0. agents \in Seq(Agent) /\ a \in DOMAIN agents /\ agents[a] \in Agent
  BY DEF GateTypeOK
<1>1. x \in Agent /\ x.parent = agents[a].parent
        /\ x.awaiting \in {agents[a].awaiting, NoRequest}
  BY <1>0 DEF answered_agent, Agent, State, NoRequest
<1>2. CASE agents' = [agents EXCEPT ![a] = x]
  BY <1>0, <1>1, <1>2 DEF Rewrites
<1> QED
  BY <1>2 DEF answer_approval

(* charge replaces one agent by one with the same parent and request.      *)
LEMMA ChargeRewrites ==
  ASSUME GateTypeOK, NEW a \in DOMAIN agents, NEW amount \in Charges, charge(a, amount)
  PROVE  Rewrites
<1>0. agents \in Seq(Agent) /\ agents[a] \in Agent
  BY DEF GateTypeOK
<1>1. amount \in Nat /\ WordMax \in Nat
  BY GateAssumption, WordMaxAssumption
<1> DEFINE b == [agents[a].budget EXCEPT !.spent = saturating_add(@, amount)]
<1>2. b \in Budgets
  <2>1. saturating_add(agents[a].budget.spent, amount) \in Nat
    BY <1>0, <1>1, AgentFields DEF saturating_add
  <2> QED
    BY <1>0, <2>1, AgentRewrites
<1> DEFINE y == [agents[a] EXCEPT !.budget = b]
           x == [y EXCEPT !.state = "Suspended"]
<1>3. y \in Agent /\ y.parent = agents[a].parent /\ y.awaiting = agents[a].awaiting
  <2> HIDE DEF b
  <2> QED
    BY <1>0, <1>2 DEF Agent
<1>4. x \in Agent /\ x.parent = agents[a].parent /\ x.awaiting = agents[a].awaiting
  <2> HIDE DEF y
  <2> QED
    BY <1>3 DEF Agent, State
<1>5. agents' = [agents EXCEPT ![a] = x] \/ agents' = [agents EXCEPT ![a] = y]
  <2> HIDE DEF b
  <2>1. \/ agents' = [agents EXCEPT ![a].budget = b, ![a].state = "Suspended"]
        \/ agents' = [agents EXCEPT ![a].budget = b]
    BY DEF charge, b
  <2> QED
    BY <1>0, <2>1
<1> HIDE DEF x, y
<1> QED
  BY <1>3, <1>4, <1>5 DEF Rewrites

(* So does the end of a step function, whatever it reports.                *)
LEMMA StepRewrites ==
  ASSUME GateTypeOK, NEW progress \in Reports, NEW elapsed \in Elapsed,
         StepEnd(progress, elapsed)
  PROVE  Rewrites
<1> DEFINE a == running
           y == [agents[a] EXCEPT !.budget.used = @ + elapsed]
<1>0. agents \in Seq(Agent) /\ a \in DOMAIN agents /\ agents[a] \in Agent
  BY DEF GateTypeOK, StepEnd
<1>1. y \in Agent /\ y.parent = agents[a].parent /\ y.awaiting = agents[a].awaiting
  <2>1. agents[a].budget.used + elapsed \in Nat
    BY <1>0, AgentFields, GateAssumption
  <2>2. [agents[a].budget EXCEPT !.used = @ + elapsed] \in Budgets
    BY <1>0, <2>1, AgentRewrites
  <2> QED
    BY <1>0, <2>2 DEF Agent
<1>2. \/ agents' = [agents EXCEPT ![a] = y]
      \/ \E s \in State : agents' = [agents EXCEPT ![a] = [y EXCEPT !.state = s]]
  BY DEF StepEnd, State
<1> HIDE DEF y
<1>3. \A s \in State : LET x == [y EXCEPT !.state = s]
                       IN  x \in Agent /\ x.parent = y.parent /\ x.awaiting = y.awaiting
  BY <1>1 DEF Agent
<1> QED
  BY <1>0, <1>1, <1>2, <1>3 DEF Rewrites

(* Every step of the gate rewrites one agent, adds one or leaves them all. *)
LEMMA AgentSteps ==
  ASSUME GateTypeOK, GateNext
  PROVE  AgentStep
<1>0. /\ agents \in Seq(Agent) /\ slots \in Seq(Slot) /\ approvals \in Seq(ApprovalRequest)
      /\ \A a \in DOMAIN agents : agents[a] \in Agent
      /\ \A c \in DOMAIN slots : slots[c] \in Slot
      /\ Len(slots) \in Nat /\ Len(approvals) \in Nat
  BY DEF GateTypeOK, AmanTypeOK
<1>1. ASSUME NEW a \in DOMAIN agents, NEW c \in Nat,
             agents' = [agents EXCEPT ![a] = push_capability(@, c)]
      PROVE  Rewrites
  <2>1. push_capability(agents[a], c) \in Agent
    BY <1>0, AgentRewrites
  <2>2. /\ push_capability(agents[a], c).parent = agents[a].parent
        /\ push_capability(agents[a], c).awaiting = agents[a].awaiting
    BY <1>0 DEF push_capability, Agent
  <2> QED
    BY <1>0, <1>1, <2>1, <2>2 DEF Rewrites
<1>2. CASE NewAgents
  BY <1>2, JoinSteps DEF AgentStep
<1>3. CASE NewSlots
  BY <1>0, <1>1, <1>3 DEF NewSlots, grant, gate_attenuate, AgentStep
<1>4. ASSUME NEW a \in DOMAIN agents, NEW c \in DOMAIN slots, NEW journal,
             crossing(a, c, journal)
      PROVE  AgentStep
  <2>1. price_of(slots[c].authority) \in Nat
    BY <1>0, PriceIsNat DEF Slot
  <2> QED
    BY <1>4, <2>1, CommitRewrites DEF crossing, AgentStep
<1>5. ASSUME NEW a \in DOMAIN agents, NEW c \in DOMAIN slots, NEW amount \in SpendAmounts,
             spend(a, c, amount)
      PROVE  AgentStep
  BY <1>5, GateAssumption, CommitRewrites DEF spend, AgentStep
<1>6. ASSUME NEW a \in DOMAIN agents, NEW c \in DOMAIN slots, request_approval(a, c)
      PROVE  AgentStep
  <2> DEFINE x == [agents[a] EXCEPT !.awaiting = Len(approvals) + 1]
             q == [agent |-> a, capability |-> c, answered |-> "None", consumed |-> FALSE]
  <2>1. x \in Agent /\ x.parent = agents[a].parent /\ x.awaiting = Len(approvals) + 1
    <3>1. \A n : /\ [agents[a] EXCEPT !.awaiting = n].parent = agents[a].parent
                 /\ [agents[a] EXCEPT !.awaiting = n].awaiting = n
      BY <1>0 DEF Agent
    <3>2. Len(approvals) + 1 \in Nat
      BY <1>0
    <3> QED
      BY <1>0, <3>1, <3>2, AgentRewrites
  <2>2. CASE /\ approvals' = Append(approvals, q)
             /\ agents' = [agents EXCEPT ![a].awaiting = Len(approvals) + 1]
    <3>1. Len(approvals) + 1 \in DOMAIN approvals'
      BY <1>0, <2>2
    <3> QED
      BY <1>0, <2>1, <2>2, <3>1 DEF AgentStep, Rewrites
  <2> QED
    BY <1>6, <2>2 DEF request_approval, AgentStep
<1>7. CASE Verbs
  BY <1>4, <1>5, <1>6, <1>7 DEF Verbs, invoke, remember
<1>8. CASE KernelCalls
  BY <1>8, AnswerRewrites, ChargeRewrites DEF KernelCalls, revoke, AgentStep
<1>9. CASE Steps
  BY <1>9, StepRewrites DEF Steps, StepBegin, AgentStep
<1> QED
  BY <1>2, <1>3, <1>7, <1>8, <1>9 DEF GateNext

-----------------------------------------------------------------------------
(* The table moves as AMAN's own interface moves it. *)
LEMMA VerbsLeave == Verbs => UNCHANGED <<slots, running>>
<1>1. ASSUME NEW a, NEW c, NEW journal, crossing(a, c, journal)
      PROVE  UNCHANGED <<slots, running>>
  BY <1>1 DEF crossing, commit, authorize
<1>2. ASSUME NEW a, NEW c, NEW amount, spend(a, c, amount)
      PROVE  UNCHANGED <<slots, running>>
  BY <1>2 DEF spend, commit, authorize, deny
<1>3. ASSUME NEW a, NEW c, request_approval(a, c)
      PROVE  UNCHANGED <<slots, running>>
  BY <1>3 DEF request_approval
<1> QED
  BY <1>1, <1>2, <1>3 DEF Verbs, invoke, remember

(* What the gate does to the capability table is one of the table's own    *)
(* steps: mint, derive or revoke.                                          *)
LEMMA GateTableSteps ==
  ASSUME GateTypeOK, GateNext
  PROVE  TableStep
<1>0. /\ DOMAIN agents = 1..Len(agents) /\ Len(agents) \in Nat
  BY DEF GateTypeOK
<1>1. CASE NewAgents
  BY <1>0, <1>1 DEF NewAgents, spawn, gate_delegate, deny, TableStep, Derives
<1>2. CASE NewSlots
  BY <1>0, <1>2 DEF NewSlots, grant, mint, gate_attenuate, attenuate, derive, deny,
                    TableStep, Mints, Derives
<1>3. CASE Verbs
  BY <1>3, VerbsLeave DEF TableStep
<1>4. CASE KernelCalls
  BY <1>4 DEF KernelCalls, answer_approval, charge, revoke, revoke_tree, TableStep, Revokes
<1>5. CASE Steps
  BY <1>5 DEF Steps, StepBegin, StepEnd, TableStep
<1> QED
  BY <1>1, <1>2, <1>3, <1>4, <1>5 DEF GateNext

(* What the steps do to the vectors keeps each of them well-typed. *)
LEMMA AgentsTyped ==
  ASSUME GateTypeOK, AgentStep
  PROVE  /\ agents' \in Seq(Agent)
         /\ DOMAIN agents \subseteq DOMAIN agents'
         /\ \A a \in DOMAIN agents' :
              /\ agents'[a].parent \in 0..(a - 1)
              /\ agents'[a].awaiting \in {NoRequest} \cup DOMAIN approvals \cup DOMAIN approvals'
<1>0. /\ agents \in Seq(Agent) /\ DOMAIN agents = 1..Len(agents) /\ Len(agents) \in Nat
      /\ \A a \in DOMAIN agents : /\ agents[a] \in Agent
                                   /\ agents[a].parent \in 0..(a - 1)
                                   /\ agents[a].awaiting \in {NoRequest} \cup DOMAIN approvals
  BY DEF GateTypeOK
<1>1. CASE UNCHANGED agents
  BY <1>0, <1>1
<1>2. CASE Rewrites
  <2>1. PICK a \in DOMAIN agents, x \in Agent :
          /\ agents' = [agents EXCEPT ![a] = x]
          /\ x.parent = agents[a].parent
          /\ x.awaiting \in {agents[a].awaiting, NoRequest} \cup DOMAIN approvals'
    BY <1>2 DEF Rewrites
  <2>2. DOMAIN agents' = DOMAIN agents /\ agents'[a] = x
          /\ \A i \in DOMAIN agents : i # a => agents'[i] = agents[i]
    BY <1>0, <2>1
  <2>3. agents' \in Seq(Agent)
    BY <1>0, <2>1
  <2> QED
    BY <1>0, <2>1, <2>2, <2>3
<1>3. CASE Joins
  <2>1. PICK b \in [DOMAIN agents -> Budgets], x \in Agent :
          /\ agents' = Append([i \in DOMAIN agents |-> [agents[i] EXCEPT !.budget = b[i]]], x)
          /\ x.parent \in {Kernel} \cup DOMAIN agents
          /\ x.awaiting = NoRequest
    BY <1>3 DEF Joins
  <2> DEFINE s == [i \in DOMAIN agents |-> [agents[i] EXCEPT !.budget = b[i]]]
  <2>2. \A i \in DOMAIN agents : /\ s[i] \in Agent
                                 /\ s[i].parent = agents[i].parent
                                 /\ s[i].awaiting = agents[i].awaiting
    BY <1>0 DEF Agent
  <2>3. s \in [1..Len(agents) -> Agent]
    BY <1>0, <2>2
  <2>4. s \in Seq(Agent) /\ Len(s) = Len(agents) /\ DOMAIN s = DOMAIN agents
    BY <1>0, <2>3
  <2> HIDE DEF s
  <2>5. /\ agents' \in Seq(Agent)
        /\ DOMAIN agents' = DOMAIN agents \cup {Len(agents) + 1}
        /\ \A i \in DOMAIN agents : agents'[i] = s[i]
        /\ agents'[Len(agents) + 1] = x
    BY <1>0, <2>1, <2>4 DEF s
  <2>6. agents'[Len(agents) + 1].parent \in 0..Len(agents)
    BY <1>0, <2>1, <2>5 DEF Kernel
  <2> QED
    BY <1>0, <2>1, <2>2, <2>5, <2>6
<1> QED
  BY <1>1, <1>2, <1>3 DEF AgentStep

(* Asking, deciding and burning keep the shapes of requests and acts, and  *)
(* every request refers to an agent and a capability that exist.           *)
LEMMA ConsentTyped ==
  ASSUME GateTypeOK, ConsentStep
  PROVE  /\ approvals' \in Seq(ApprovalRequest) /\ acts' \in Seq(Act)
         /\ DOMAIN approvals \subseteq DOMAIN approvals'
         /\ \A r \in DOMAIN approvals' :
              /\ approvals'[r].agent \in DOMAIN agents
              /\ approvals'[r].capability \in DOMAIN slots
<1>0. /\ approvals \in Seq(ApprovalRequest) /\ acts \in Seq(Act)
      /\ Len(approvals) \in Nat /\ DOMAIN approvals = 1..Len(approvals)
      /\ \A r \in DOMAIN approvals : /\ approvals[r] \in ApprovalRequest
                                      /\ approvals[r].agent \in DOMAIN agents
                                      /\ approvals[r].capability \in DOMAIN slots
      /\ DOMAIN agents \subseteq Nat /\ DOMAIN slots \subseteq Nat
  BY DEF GateTypeOK, AmanTypeOK
<1>1. CASE UNCHANGED <<approvals, acts>>
  BY <1>0, <1>1
<1>2. CASE Asks
  <2>1. PICK a \in DOMAIN agents, c \in DOMAIN slots :
          approvals' = Append(approvals, [agent |-> a, capability |-> c,
                                          answered |-> "None", consumed |-> FALSE])
    BY <1>2 DEF Asks
  <2> DEFINE q == [agent |-> a, capability |-> c, answered |-> "None", consumed |-> FALSE]
  <2>2. q \in ApprovalRequest /\ q.agent \in DOMAIN agents /\ q.capability \in DOMAIN slots
    BY <1>0 DEF ApprovalRequest
  <2> HIDE DEF q
  <2>3. /\ approvals' \in Seq(ApprovalRequest)
        /\ DOMAIN approvals' = DOMAIN approvals \cup {Len(approvals) + 1}
        /\ \A r \in DOMAIN approvals : approvals'[r] = approvals[r]
        /\ approvals'[Len(approvals) + 1] = q
    BY <1>0, <2>1, <2>2 DEF q
  <2> QED
    BY <1>0, <1>2, <2>2, <2>3 DEF Asks
<1>3. CASE Decides
  <2>1. PICK r \in DOMAIN approvals, answer \in {"Yes", "No"} :
          approvals' = [approvals EXCEPT ![r].answered = answer]
    BY <1>3 DEF Decides
  <2>2. [approvals[r] EXCEPT !.answered = answer] \in ApprovalRequest
    BY <1>0, <2>1 DEF ApprovalRequest
  <2>3. approvals' \in Seq(ApprovalRequest)
    BY <1>0, <2>1, <2>2
  <2> QED
    BY <1>0, <1>3, <2>1, <2>3 DEF Decides, ApprovalRequest
<1>4. CASE Burns
  <2>1. PICK a \in DOMAIN agents, c \in DOMAIN slots :
          /\ approved(a, c)
          /\ approvals' = [approvals EXCEPT ![agents[a].awaiting].consumed = TRUE]
          /\ acts' = Append(acts, [agent |-> a, capability |-> c,
                                   request |-> agents[a].awaiting])
    BY <1>4 DEF Burns
  <2>2. agents[a].awaiting \in DOMAIN approvals
    BY <2>1 DEF GateTypeOK, approved
  <2>3. [agent |-> a, capability |-> c, request |-> agents[a].awaiting] \in Act
    BY <1>0, <2>2 DEF Act
  <2>4. acts' \in Seq(Act)
    BY <1>0, <2>1, <2>3
  <2>5. [approvals[agents[a].awaiting] EXCEPT !.consumed = TRUE] \in ApprovalRequest
    BY <1>0, <2>2 DEF ApprovalRequest
  <2>6. approvals' \in Seq(ApprovalRequest)
    BY <1>0, <2>1, <2>2, <2>5
  <2> QED
    BY <1>0, <2>1, <2>2, <2>4, <2>6 DEF ApprovalRequest
<1> QED
  BY <1>1, <1>2, <1>3, <1>4 DEF ConsentStep

(* No slot is lost, and a slot is held by the agent that held it or by one *)
(* of the agents.                                                          *)
LEMMA SlotsHeld ==
  ASSUME GateTypeOK, GateNext
  PROVE  /\ DOMAIN slots \subseteq DOMAIN slots'
         /\ \A c \in DOMAIN slots' : slots'[c].holder \in DOMAIN agents'
<1>0. /\ agents \in Seq(Agent) /\ DOMAIN agents = 1..Len(agents) /\ Len(agents) \in Nat
      /\ slots \in Seq(Slot) /\ DOMAIN slots \subseteq Nat
      /\ \A c \in DOMAIN slots : slots[c].holder \in DOMAIN agents
  BY DEF GateTypeOK, AmanTypeOK
<1>1. DOMAIN agents \subseteq DOMAIN agents'
  BY AgentSteps, AgentsTyped
<1>2. ASSUME NEW u \in Requested, NEW h \in Nat, NEW p \in Nat, push_slot(u, h, p),
             h \in DOMAIN agents'
      PROVE  /\ DOMAIN slots \subseteq DOMAIN slots'
             /\ \A c \in DOMAIN slots' : slots'[c].holder \in DOMAIN agents'
  <2>1. /\ DOMAIN slots' = DOMAIN slots \cup {Len(slots) + 1}
        /\ \A i \in DOMAIN slots : slots'[i] = slots[i]
        /\ slots'[Len(slots) + 1] =
             [authority |-> u, holder |-> h, parent |-> p, revoked |-> FALSE]
    BY <1>0, <1>2, PushSlot, RequestedAssumption
  <2> QED
    BY <1>0, <1>1, <1>2, <2>1
<1>3. CASE UNCHANGED slots
  BY <1>0, <1>1, <1>3
<1>4. CASE Revokes
  BY <1>0, <1>1, <1>4, RewriteFlags DEF Revokes
<1>5. CASE NewSlots
  <2>1. PICK a \in DOMAIN agents, u \in Requested :
               grant(a, u) \/ \E c \in DOMAIN slots : gate_attenuate(a, c, u)
    BY <1>5 DEF NewSlots
  <2>2. a \in Nat /\ a \in DOMAIN agents' /\ NoParent \in Nat
    BY <1>0, <1>1 DEF NoParent
  <2>3. CASE grant(a, u)
    BY <1>2, <2>2, <2>3 DEF grant, mint
  <2>4. ASSUME NEW c \in DOMAIN slots, gate_attenuate(a, c, u)
        PROVE  UNCHANGED slots \/ push_slot(u, a, c)
    BY <2>4 DEF gate_attenuate, attenuate, derive, deny
  <2> QED
    BY <1>0, <1>2, <1>3, <2>1, <2>2, <2>3, <2>4
<1>6. CASE NewAgents
  <2>1. ASSUME NEW a \in DOMAIN agents, NEW c \in DOMAIN slots, NEW u \in Requested,
               NEW b \in ShareBudgets, gate_delegate(a, c, u, b[1], b[2])
        PROVE  \/ UNCHANGED slots
               \/ /\ push_slot(u, Len(agents) + 1, c)
                  /\ fund_child(a, b[1], b[2], <<Len(slots) + 1>>)
    BY <2>1 DEF gate_delegate, deny
  <2>2. ASSUME NEW a \in DOMAIN agents, NEW b \in ShareBudgets,
               fund_child(a, b[1], b[2], <<Len(slots) + 1>>)
        PROVE  Len(agents) + 1 \in DOMAIN agents'
    <3> DEFINE new == carved(agents[a].budget, b[1], b[2])
               s == [agents EXCEPT ![a].budget = new]
    <3>1. \E x : agents' = Append(s, x)
      BY <2>2 DEF fund_child
    <3>2. s \in Seq(Agent) /\ Len(s) = Len(agents)
      <4>1. new \in Budgets
        <5>1. agents[a] \in Agent /\ b[1] \in Nat /\ b[2] \in Nat
          BY <1>0, GateAssumption
        <5> QED
          BY <5>1, AgentFields, CarvedBudget
      <4> HIDE DEF new
      <4>2. [agents[a] EXCEPT !.budget = new] \in Agent
        BY <1>0, <4>1, AgentRewrites
      <4> QED
        BY <1>0, <4>2
    <3> QED
      BY <1>0, <3>1, <3>2
  <2>3. ASSUME NEW b \in RootBudgets, spawn(Budget_new(b[1], b[2]))
        PROVE  UNCHANGED slots
    BY <2>3 DEF spawn
  <2> QED
    BY <1>0, <1>2, <1>3, <1>6, <2>1, <2>2, <2>3 DEF NewAgents
<1>7. CASE Verbs \/ KernelCalls \/ Steps
  <2>1. CASE Verbs
    BY <1>3, <2>1, VerbsLeave
  <2>2. CASE KernelCalls
    BY <1>3, <1>4, <2>2 DEF KernelCalls, answer_approval, charge, revoke, revoke_tree, Revokes
  <2>3. CASE Steps
    BY <1>3, <2>3 DEF Steps, StepBegin, StepEnd
  <2> QED
    BY <1>7, <2>1, <2>2, <2>3
<1> QED
  BY <1>5, <1>6, <1>7 DEF GateNext

(* The entries a step emits are well-formed. *)
LEMMA GateEmittedType ==
  ASSUME GateTypeOK, GateNext
  PROVE  emitted' \in Seq(Entry)
<1>0. DOMAIN agents \subseteq Nat /\ Len(agents) + 1 \in Nat
  BY DEF GateTypeOK
<1>1. \A x \in Nat, e \in Event : <<entry(x, e)>> \in Seq(Entry)
  BY DEF entry, Entry
<1>2. \A x, y \in Nat, e, f \in Event : <<entry(x, e), entry(y, f)>> \in Seq(Entry)
  BY DEF entry, Entry
<1>3. <<>> \in Seq(Entry)
  OBVIOUS
<1>4. ASSUME NEW a \in DOMAIN agents, NEW c, NEW cost, NEW burn, NEW journal \in Seq(Entry),
             commit(a, c, cost, burn, journal)
      PROVE  emitted' \in Seq(Entry)
  BY <1>0, <1>1, <1>4 DEF commit, suspension, Event
<1>5. ASSUME NEW a \in DOMAIN agents, NEW c, NEW yes, authorize(a, c, yes)
      PROVE  emitted' \in Seq(Entry)
  BY <1>0, <1>1, <1>3, <1>5 DEF authorize, Event
<1>6. ASSUME NEW a \in DOMAIN agents, NEW c, NEW journal \in Seq(Entry),
             crossing(a, c, journal)
      PROVE  emitted' \in Seq(Entry)
  BY <1>4, <1>5, <1>6 DEF crossing
<1>7. ASSUME NEW a \in DOMAIN agents, NEW c, NEW amount, spend(a, c, amount)
      PROVE  emitted' \in Seq(Entry)
  <2>1. <<entry(a, "Invoked")>> \in Seq(Entry) /\ <<entry(a, "Denied")>> \in Seq(Entry)
    BY <1>0, <1>1 DEF Event
  <2> QED
    BY <1>3, <1>4, <1>5, <1>7, <2>1 DEF spend, deny
<1>8. CASE NewAgents
  BY <1>0, <1>1, <1>2, <1>8 DEF NewAgents, spawn, gate_delegate, deny, Event
<1>9. CASE NewSlots
  BY <1>0, <1>1, <1>9 DEF NewSlots, grant, mint, gate_attenuate, attenuate, derive, deny, Event
<1>10. CASE Verbs
  <2>1. ASSUME NEW a \in DOMAIN agents, NEW c, request_approval(a, c)
        PROVE  emitted' \in Seq(Entry)
    BY <1>0, <1>1, <1>3, <2>1 DEF request_approval, Event
  <2>2. \A a \in DOMAIN agents : /\ <<entry(a, "Invoked")>> \in Seq(Entry)
                                /\ <<entry(a, "Invoked"), entry(a, "Remembered")>> \in Seq(Entry)
    BY <1>0, <1>1, <1>2 DEF Event
  <2> QED
    BY <1>6, <1>7, <1>10, <2>1, <2>2 DEF Verbs, invoke, remember
<1>11. CASE KernelCalls
  <2>1. \A r \in DOMAIN approvals : approvals[r].agent \in Nat
    BY <1>0 DEF GateTypeOK
  <2> QED
    BY <1>0, <1>1, <1>3, <1>11, <2>1
       DEF KernelCalls, answer_approval, charge, suspension, revoke, revoke_tree, Event
<1>12. CASE Steps
  <2>1. running # Kernel => running \in Nat
    BY <1>0 DEF GateTypeOK
  <2> QED
    BY <1>1, <1>3, <1>12, <2>1 DEF Steps, StepBegin, StepEnd, suspension, Event
<1> QED
  BY <1>8, <1>9, <1>10, <1>11, <1>12 DEF GateNext

(* The running agent is always one of the agents.                          *)
LEMMA RunningType ==
  ASSUME GateTypeOK, GateNext
  PROVE  running' \in {Kernel} \cup DOMAIN agents'
<1>0. DOMAIN agents \subseteq DOMAIN agents' /\ running \in {Kernel} \cup DOMAIN agents
  BY AgentSteps, AgentsTyped DEF GateTypeOK
<1>1. CASE NewAgents \/ NewSlots \/ KernelCalls
  BY <1>0, <1>1 DEF NewAgents, spawn, gate_delegate, NewSlots, grant, gate_attenuate,
                    KernelCalls, answer_approval, charge, revoke
<1>2. CASE Verbs
  BY <1>0, <1>2, VerbsLeave
<1>3. CASE Steps
  BY <1>0, <1>3 DEF Steps, StepBegin, StepEnd
<1> QED
  BY <1>1, <1>2, <1>3 DEF GateNext

(* Every vector of the supervisor has its declared shape, and every        *)
(* reference between them resolves: no capability without an agent, no     *)
(* awaited request that does not exist (gate lib.rs, find ... expect).     *)
THEOREM GateTyped == GateSpec => []GateTypeOK
<1>1. GateInit => GateTypeOK
  BY DEF GateInit, AmanInit, GateTypeOK, AmanTypeOK
<1>2. ASSUME GateTypeOK, GateNext  PROVE GateTypeOK'
  <2>1. AgentStep /\ ConsentStep /\ TableStep
    BY <1>2, AgentSteps, ConsentSteps, GateTableSteps
  <2>2. AmanTypeOK'
    BY <1>2, <2>1, TableTyped, GateEmittedType DEF GateTypeOK, AmanTypeOK
  <2>3. /\ agents' \in Seq(Agent) /\ DOMAIN agents \subseteq DOMAIN agents'
        /\ \A a \in DOMAIN agents' :
             /\ agents'[a].parent \in 0..(a - 1)
             /\ agents'[a].awaiting \in {NoRequest} \cup DOMAIN approvals \cup DOMAIN approvals'
    BY <1>2, <2>1, AgentsTyped
  <2>4. /\ approvals' \in Seq(ApprovalRequest) /\ acts' \in Seq(Act)
        /\ DOMAIN approvals \subseteq DOMAIN approvals'
        /\ \A r \in DOMAIN approvals' : /\ approvals'[r].agent \in DOMAIN agents
                                         /\ approvals'[r].capability \in DOMAIN slots
    BY <1>2, <2>1, ConsentTyped
  <2>5. /\ DOMAIN slots \subseteq DOMAIN slots'
        /\ \A c \in DOMAIN slots' : slots'[c].holder \in DOMAIN agents'
    BY <1>2, SlotsHeld
  <2>6. running' \in {Kernel} \cup DOMAIN agents'
    BY <1>2, RunningType
  <2> QED
    BY <2>2, <2>3, <2>4, <2>5, <2>6 DEF GateTypeOK
<1>3. GateTypeOK /\ UNCHANGED gateVars => GateTypeOK'
  BY DEF gateVars, GateTypeOK, AmanTypeOK
<1> QED
  BY <1>1, <1>2, <1>3, PTL DEF GateSpec

-----------------------------------------------------------------------------
(* The consent law. *)

(* OneYesOneAct is inductive with the types: what an act used is consumed, *)
(* and only an unconsumed yes authorises the next.                         *)
LEMMA OneYesStep ==
  ASSUME GateTypeOK, OneYesOneAct, ConsentStep
  PROVE  OneYesOneAct'
<1>0. /\ approvals \in Seq(ApprovalRequest) /\ acts \in Seq(Act)
      /\ Len(approvals) \in Nat /\ DOMAIN approvals = 1..Len(approvals)
      /\ Len(acts) \in Nat /\ DOMAIN acts = 1..Len(acts)
      /\ \A r \in DOMAIN approvals : approvals[r] \in ApprovalRequest
  BY DEF GateTypeOK
<1>1. CASE UNCHANGED <<approvals, acts>>
  BY <1>1 DEF OneYesOneAct
<1>2. CASE Asks
  <2>1. DOMAIN approvals \subseteq DOMAIN approvals'
          /\ \A r \in DOMAIN approvals : approvals'[r] = approvals[r]
    BY <1>0, <1>2 DEF Asks
  <2> QED
    BY <1>2, <2>1 DEF Asks, OneYesOneAct
<1>3. CASE Decides
  <2>1. PICK r \in DOMAIN approvals, answer \in {"Yes", "No"} :
          Open(r) /\ approvals' = [approvals EXCEPT ![r].answered = answer]
    BY <1>3 DEF Decides
  <2>2. \A k \in DOMAIN acts : acts[k].request # r
    BY <2>1 DEF OneYesOneAct, Open
  <2>3. \A q \in DOMAIN approvals : q # r => approvals'[q] = approvals[q]
    BY <1>0, <2>1
  <2>4. DOMAIN approvals' = DOMAIN approvals
    BY <1>0, <2>1
  <2> QED
    BY <1>3, <2>2, <2>3, <2>4 DEF Decides, OneYesOneAct
<1>4. CASE Burns
  <2>1. PICK a \in DOMAIN agents, c \in DOMAIN slots :
          /\ approved(a, c)
          /\ approvals' = [approvals EXCEPT ![agents[a].awaiting].consumed = TRUE]
          /\ acts' = Append(acts, [agent |-> a, capability |-> c,
                                   request |-> agents[a].awaiting])
    BY <1>4 DEF Burns
  <2> DEFINE q == agents[a].awaiting
             new == [agent |-> a, capability |-> c, request |-> q]
  <2>2. /\ q \in DOMAIN approvals /\ approvals[q].agent = a /\ approvals[q].capability = c
        /\ approvals[q].answered = "Yes" /\ ~approvals[q].consumed
    BY <2>1 DEF GateTypeOK, approved
  <2>3. \A k \in DOMAIN acts : acts[k].request # q
    BY <2>2 DEF OneYesOneAct
  <2>4. /\ DOMAIN approvals' = DOMAIN approvals
        /\ \A r \in DOMAIN approvals : r # q => approvals'[r] = approvals[r]
        /\ approvals'[q].agent = a /\ approvals'[q].capability = c
        /\ approvals'[q].answered = "Yes" /\ approvals'[q].consumed
    BY <1>0, <2>1, <2>2 DEF ApprovalRequest
  <2>5. new \in Act
    <3>1. q \in Nat
      BY <1>0, <2>2
    <3>2. a \in Nat
      BY DEF GateTypeOK
    <3>3. c \in Nat
      BY DEF GateTypeOK, AmanTypeOK
    <3> QED
      BY <3>1, <3>2, <3>3 DEF Act
  <2>6. /\ DOMAIN acts' = DOMAIN acts \cup {Len(acts) + 1}
        /\ \A k \in DOMAIN acts : acts'[k] = acts[k]
        /\ acts'[Len(acts) + 1] = new
    <3> HIDE DEF new
    <3> QED
      BY <1>0, <2>1, <2>5 DEF new
  <2> HIDE DEF q
  <2> QED
    BY <2>2, <2>3, <2>4, <2>6 DEF OneYesOneAct
<1> QED
  BY <1>1, <1>2, <1>3, <1>4 DEF ConsentStep

(* One human yes authorises one irreversible act of the agent and the      *)
(* capability it was given for (gate lib.rs 34-36, 244-252).               *)
THEOREM ConsentLaw == GateSpec => []OneYesOneAct
<1>1. GateInit => OneYesOneAct
  BY DEF GateInit, OneYesOneAct
<1>2. GateTypeOK /\ OneYesOneAct /\ [GateNext]_gateVars => OneYesOneAct'
  <2>1. GateTypeOK /\ OneYesOneAct /\ GateNext => OneYesOneAct'
    BY ConsentSteps, OneYesStep
  <2>2. OneYesOneAct /\ UNCHANGED gateVars => OneYesOneAct'
    BY DEF OneYesOneAct, gateVars
  <2> QED
    BY <2>1, <2>2
<1> QED
  BY <1>1, <1>2, GateTyped, PTL DEF GateSpec

(* A decided question is never revisited nor re-addressed (gate lib.rs     *)
(* 406).                                                                   *)
THEOREM AnswersAreFinal == GateSpec => AnswersStand
<1> DEFINE Kept ==
      \A r \in DOMAIN approvals :
        /\ r \in DOMAIN approvals'
        /\ approvals'[r].agent = approvals[r].agent
        /\ approvals'[r].capability = approvals[r].capability
        /\ ~Open(r) => approvals'[r].answered = approvals[r].answered
<1>1. ASSUME GateTypeOK, ConsentStep  PROVE Kept
  <2>0. /\ approvals \in Seq(ApprovalRequest) /\ Len(approvals) \in Nat
        /\ \A r \in DOMAIN approvals : approvals[r] \in ApprovalRequest
    BY <1>1 DEF GateTypeOK
  <2>1. CASE UNCHANGED <<approvals, acts>>
    BY <2>1
  <2>2. CASE Asks
    BY <2>0, <2>2 DEF Asks
  <2>3. CASE Decides
    BY <2>0, <2>3 DEF Decides, Open, ApprovalRequest
  <2>4. CASE Burns
    BY <2>0, <2>4 DEF Burns, ApprovalRequest
  <2> QED
    BY <1>1, <2>1, <2>2, <2>3, <2>4 DEF ConsentStep
<1>2. GateTypeOK /\ [GateNext]_gateVars => [Kept]_gateVars
  BY <1>1, ConsentSteps
<1> QED
  BY <1>2, GateTyped, PTL DEF GateSpec, AnswersStand

(* The lineage laws of the capability table hold of everything the gate    *)
(* builds with it.                                                         *)
THEOREM GateLineage == GateSpec => []LineageInv
<1>1. GateInit => LineageInv
  BY DEF GateInit, AmanInit, LineageInv
<1>2. GateTypeOK /\ LineageInv /\ [GateNext]_gateVars => LineageInv'
  <2>1. GateTypeOK /\ LineageInv /\ GateNext => LineageInv'
    BY GateTableSteps, LineageStep DEF GateTypeOK
  <2>2. LineageInv /\ UNCHANGED gateVars => LineageInv'
    BY DEF gateVars, LineageInv, OlderParent, Narrower, DiesWithParent, Parent
  <2> QED
    BY <2>1, <2>2
<1> QED
  BY <1>1, <1>2, GateTyped, PTL DEF GateSpec

(* So everything that follows from them: no capability exceeds or outlives *)
(* an ancestor, whatever the agents do.                                    *)
THEOREM GateLineageDominates == GateSpec => []AncestorsDominate
<1>1. GateTypeOK /\ LineageInv => AncestorsDominate
  BY Dominance DEF GateTypeOK
<1> QED
  BY <1>1, GateTyped, GateLineage, PTL

(* Nothing is authorised through a dead lineage, nor without the yes an    *)
(* irreversible authority needs.                                           *)
THEOREM GateAuthorizesLive == GateSpec => []AuthorizedOnlyLive
BY LiveWhenAuthorized, GateLineageDominates, PTL

(* No agent derives its way out of the directory it was given.             *)
THEOREM GateDerivesInside == GateSpec => []DerivedStaysInside
<1>1. GateTypeOK /\ LineageInv => DerivedStaysInside
  BY InsideParent DEF GateTypeOK
<1> QED
  BY <1>1, GateTyped, GateLineage, PTL

(* A revocation through the gate cuts one whole subtree and nothing else.  *)
THEOREM GateRevokesExactly == GateSpec => RevokesExactlySubtree
<1> DEFINE Exact ==
      (\E i \in DOMAIN slots : slots[i].revoked # slots'[i].revoked) =>
        /\ DOMAIN slots' = DOMAIN slots
        /\ \E c \in DOMAIN slots : \A i \in DOMAIN slots :
             slots'[i].revoked <=> slots[i].revoked \/ IsAncestor(c, i)
<1>1. GateTypeOK /\ LineageInv /\ [GateNext]_gateVars => [Exact]_amanVars
  <2>1. ASSUME GateTypeOK, LineageInv, GateNext  PROVE Exact
    BY <2>1, GateTableSteps, ExactStep DEF GateTypeOK
  <2> QED
    BY <2>1 DEF gateVars, amanVars
<1> QED
  BY <1>1, GateTyped, GateLineage, PTL DEF GateSpec, RevokesExactlySubtree

-----------------------------------------------------------------------------
(* Refinement.  A ticket, field by field, and when it shows which state. *)
LEMMA TicketFields ==
  ASSUME NEW r \in DOMAIN approvals
  PROVE  /\ Tickets[r].agent = approvals[r].agent
         /\ Tickets[r].capability = approvals[r].capability
         /\ Tickets[r].state = IF approvals[r].consumed THEN "Used"
                               ELSE IF Open(r) THEN "Open" ELSE approvals[r].answered
BY DEF Tickets, ticket

(* A yes is consumed only after it was given: no open question is used up. *)
ConsumedWasYes == \A r \in DOMAIN approvals : approvals[r].consumed => approvals[r].answered = "Yes"

LEMMA TicketsAreSeq ==
  ASSUME GateTypeOK
  PROVE  /\ Len(approvals) \in Nat /\ DOMAIN approvals = 1..Len(approvals)
         /\ \A r \in DOMAIN approvals : approvals[r] \in ApprovalRequest
         /\ DOMAIN Tickets = DOMAIN approvals /\ Len(Tickets) = Len(approvals)
  <1>1. /\ Len(approvals) \in Nat /\ DOMAIN approvals = 1..Len(approvals)
        /\ \A r \in DOMAIN approvals : approvals[r] \in ApprovalRequest
    BY DEF GateTypeOK
  <1>2. DOMAIN Tickets = DOMAIN approvals
    BY DEF Tickets
  <1> HIDE DEF Tickets
  <1>3. Len(Tickets) = Len(approvals)
    BY <1>1, <1>2
  <1> QED
    BY <1>1, <1>2, <1>3

LEMMA ConsumedStep ==
  ASSUME GateTypeOK, ConsumedWasYes, ConsentStep
  PROVE  ConsumedWasYes'
<1>0. /\ Len(approvals) \in Nat /\ DOMAIN approvals = 1..Len(approvals)
      /\ \A r \in DOMAIN approvals : approvals[r] \in ApprovalRequest
  BY TicketsAreSeq
<1>1. CASE UNCHANGED <<approvals, acts>>
  BY <1>1 DEF ConsumedWasYes
<1>2. CASE Asks
  BY <1>0, <1>2 DEF Asks, ConsumedWasYes, GateTypeOK
<1>3. CASE Decides
  BY <1>0, <1>3 DEF Decides, Open, ConsumedWasYes, ApprovalRequest
<1>4. CASE Burns
  BY <1>0, <1>4 DEF Burns, approved, ConsumedWasYes, ApprovalRequest, GateTypeOK
<1> QED
  BY <1>1, <1>2, <1>3, <1>4 DEF ConsentStep

(* A ticket shows as open exactly while its question is. *)
LEMMA OpenTickets ==
  ASSUME GateTypeOK, ConsumedWasYes
  PROVE  /\ \A r \in DOMAIN approvals : Tickets[r].state = "Open" <=> Open(r)
         /\ \A a : Consents!OpenOf(a) = Pending(a)
<1>1. \A r \in DOMAIN approvals : Tickets[r].state = "Open" <=> Open(r)
  <2> SUFFICES ASSUME NEW r \in DOMAIN approvals
               PROVE  Tickets[r].state = "Open" <=> Open(r)
    OBVIOUS
  <2>1. approvals[r] \in ApprovalRequest
    BY TicketsAreSeq
  <2>2. approvals[r].consumed => ~Open(r)
    BY DEF ConsumedWasYes, Open
  <2>3. approvals[r].answered \in {"None", "Yes", "No"}
    BY <2>1 DEF ApprovalRequest
  <2> QED
    BY <2>2, <2>3, TicketFields DEF Open
<1>2. DOMAIN Tickets = DOMAIN approvals
  BY TicketsAreSeq
<1> QED
  BY <1>1, <1>2, TicketFields DEF Consents!OpenOf, Pending

(* Asking queues an open ticket within the limits. *)
LEMMA AskRefines ==
  ASSUME GateTypeOK, GateTypeOK', ConsumedWasYes, Asks
  PROVE  Consents!Ask
<1>0. /\ Len(approvals) \in Nat /\ DOMAIN approvals = 1..Len(approvals)
      /\ approvals \in Seq(ApprovalRequest)
      /\ DOMAIN Tickets = DOMAIN approvals /\ Len(Tickets) = Len(approvals)
  BY TicketsAreSeq DEF GateTypeOK
<1>1. PICK a \in DOMAIN agents, c \in DOMAIN slots :
        /\ may_ask(a)
        /\ \A r \in Pending(a) : approvals[r].capability # c
        /\ approvals' = Append(approvals, [agent |-> a, capability |-> c,
                                           answered |-> "None", consumed |-> FALSE])
        /\ UNCHANGED acts
  BY DEF Asks
<1>n. PICK n \in Nat : n = Len(approvals) + 1
  BY <1>0
<1>t. PICK t : t = [agent |-> a, capability |-> c, state |-> "Open"]
  OBVIOUS
<1>2. /\ DOMAIN approvals' = 1..n /\ n \in 1..n
      /\ \A r \in DOMAIN approvals : r \in 1..n /\ approvals'[r] = approvals[r]
      /\ approvals'[n] = [agent |-> a, capability |-> c, answered |-> "None", consumed |-> FALSE]
  BY <1>0, <1>1, <1>n
<1>3. Tickets' = [r \in 1..n |-> ticket(r)']
  BY <1>2 DEF Tickets
<1>4. ticket(n)' = t
  BY <1>2, <1>t DEF ticket, Open
<1>5. \A r \in DOMAIN approvals : ticket(r)' = ticket(r)
  BY <1>2 DEF ticket, Open
<1>6. Tickets = [r \in 1..Len(approvals) |-> ticket(r)]
  BY <1>0 DEF Tickets
<1>7. /\ DOMAIN Tickets' = 1..n /\ Tickets'[n] = t
      /\ \A r \in 1..Len(approvals) : Tickets'[r] = Tickets[r]
      /\ Tickets' = [r \in 1..n |-> Tickets'[r]]
  <2>1. DOMAIN Tickets' = 1..n /\ Tickets' = [r \in 1..n |-> Tickets'[r]]
    BY <1>3
  <2>2. Tickets'[n] = t
    BY <1>2, <1>3, <1>4
  <2>3. \A r \in 1..Len(approvals) : Tickets'[r] = Tickets[r]
    BY <1>0, <1>2, <1>3, <1>5, <1>6
  <2> QED
    BY <2>1, <2>2, <2>3
<1>8. Len(Tickets') = n
  <2> HIDE DEF Tickets
  <2> QED
    BY <1>7
<1>9. Tickets' = Append(Tickets, t)
  <2>1. PICK S : S = {Tickets[r] : r \in 1..Len(approvals)} \cup {t}
    OBVIOUS
  <2>2. Tickets \in Seq(S) /\ t \in S /\ Tickets' \in Seq(S)
    <3>1. Tickets \in [1..Len(approvals) -> S]
      BY <1>0, <1>6, <2>1
    <3>2. \A r \in 1..n : r \in 1..Len(approvals) \/ r = n
      BY <1>0, <1>n
    <3>3. Tickets' \in [1..n -> S]
      BY <1>7, <2>1, <3>2
    <3> HIDE DEF Tickets
    <3> QED
      BY <1>0, <1>n, <2>1, <3>1, <3>3
  <2> HIDE DEF Tickets
  <2>a. Append(Tickets, t) \in Seq(S)
    BY <2>2
  <2>3. PICK u \in Seq(S) : u = Append(Tickets, t)
    BY <2>a, Zenon
  <2>4. Len(u) = n /\ u[n] = t /\ \A r \in 1..Len(approvals) : u[r] = Tickets[r]
    BY <1>0, <1>n, <2>2, <2>3
  <2>5. PICK v \in Seq(S) : v = Tickets'
    BY <2>2
  <2>6. u = v
    BY <1>0, <1>n, <1>7, <1>8, <2>4, <2>5
  <2> QED
    BY <2>3, <2>5, <2>6
<1>10. Consents!OpenOf(a) = Pending(a)
  BY OpenTickets
<1>11. \A r \in Pending(a) : Tickets[r].capability # c
  BY <1>1, TicketFields DEF Pending
<1>12. Consents!MayJoin(t)
  <2>1. t.agent = a /\ t.capability = c /\ t.state = "Open"
    BY <1>t
  <2>2. Consents!OpenOf(t.agent) = Pending(a)
    BY <2>1, <1>10
  <2> QED
    BY <1>1, <1>11, <2>1, <2>2 DEF Consents!MayJoin, may_ask
<1> QED
  BY <1>0, <1>1, <1>n, <1>7, <1>8, <1>9, <1>12 DEF Consents!Ask

(* An answer decides the ticket it names. *)
LEMMA DecideRefines ==
  ASSUME GateTypeOK, ConsumedWasYes, Decides
  PROVE  \E r \in DOMAIN Tickets, verdict \in {"Yes", "No"} : Consents!Decide(r, verdict)
<1>0. /\ DOMAIN Tickets = DOMAIN approvals
      /\ \A r \in DOMAIN approvals : approvals[r] \in ApprovalRequest
  BY TicketsAreSeq
<1>1. PICK r \in DOMAIN approvals, answer \in {"Yes", "No"} :
        Open(r) /\ approvals' = [approvals EXCEPT ![r].answered = answer]
  BY DEF Decides
<1>2. ~approvals[r].consumed
  BY <1>1 DEF ConsumedWasYes, Open
<1>3. Tickets' = [Tickets EXCEPT ![r].state = answer]
  <2>1. DOMAIN approvals' = DOMAIN approvals
    BY <1>1
  <2>2. Tickets' = [q \in DOMAIN approvals |-> ticket(q)']
    BY <2>1 DEF Tickets
  <2>3. ASSUME NEW q \in DOMAIN approvals, q # r  PROVE ticket(q)' = Tickets[q]
    BY <1>1, <2>3 DEF ticket, Open, Tickets
  <2>4. ticket(r)' = [Tickets[r] EXCEPT !.state = answer]
    BY <1>0, <1>1, <1>2 DEF ticket, Open, Tickets, ApprovalRequest
  <2> QED
    BY <1>0, <2>2, <2>3, <2>4
<1>4. Tickets[r].state = "Open"
  BY <1>1, OpenTickets
<1> QED
  BY <1>0, <1>3, <1>4 DEF Decides, Consents!Decide

(* An irreversible crossing uses the ticket it was approved with. *)
LEMMA BurnRefines ==
  ASSUME GateTypeOK, ConsumedWasYes, Burns
  PROVE  \E r \in DOMAIN Tickets : Consents!Act(r)
<1>0. /\ DOMAIN Tickets = DOMAIN approvals
      /\ \A r \in DOMAIN approvals : approvals[r] \in ApprovalRequest
  BY TicketsAreSeq
<1>1. PICK a \in DOMAIN agents, c \in DOMAIN slots :
        /\ approved(a, c)
        /\ approvals' = [approvals EXCEPT ![agents[a].awaiting].consumed = TRUE]
        /\ acts' = Append(acts, [agent |-> a, capability |-> c,
                                 request |-> agents[a].awaiting])
  BY DEF Burns
<1>q. PICK q : q = agents[a].awaiting
  OBVIOUS
<1>2. /\ q \in DOMAIN approvals /\ approvals[q].agent = a /\ approvals[q].capability = c
      /\ approvals[q].answered = "Yes" /\ ~approvals[q].consumed
  BY <1>1, <1>q DEF GateTypeOK, approved
<1>3. Tickets[q].state = "Yes" /\ Tickets[q].agent = a /\ Tickets[q].capability = c
  BY <1>2, TicketFields DEF Open
<1>4. Tickets' = [Tickets EXCEPT ![q].state = "Used"]
  <2>1. DOMAIN approvals' = DOMAIN approvals
    BY <1>1
  <2>2. Tickets' = [r \in DOMAIN approvals |-> ticket(r)']
    BY <2>1 DEF Tickets
  <2>3. ASSUME NEW r \in DOMAIN approvals, r # q  PROVE ticket(r)' = Tickets[r]
    BY <1>1, <1>q, <2>3 DEF ticket, Open, Tickets
  <2>4. ticket(q)' = [Tickets[q] EXCEPT !.state = "Used"]
    BY <1>0, <1>1, <1>q, <1>2 DEF ticket, Open, Tickets, ApprovalRequest
  <2> QED
    BY <1>0, <2>2, <2>3, <2>4
<1> QED
  BY <1>0, <1>1, <1>q, <1>2, <1>3, <1>4 DEF Consents!Act

(* The gate implements the consent promise of module Consent, for any      *)
(* number of agents, capabilities and questions and any limit: asking,     *)
(* answering and burning are its three steps, everything else a stutter.   *)
THEOREM GateImplementsConsent == GateSpec => ImplementsConsent
<1>1. GateInit => Consents!ConsentInit /\ ConsumedWasYes
  BY DEF GateInit, Consents!ConsentInit, Tickets, ConsumedWasYes
<1>2. GateTypeOK /\ GateTypeOK' /\ ConsumedWasYes /\ [GateNext]_gateVars
        => [Consents!ConsentNext]_(Consents!consentVars) /\ ConsumedWasYes'
  <2> SUFFICES ASSUME GateTypeOK, GateTypeOK', ConsumedWasYes, [GateNext]_gateVars
               PROVE  [Consents!ConsentNext]_(Consents!consentVars) /\ ConsumedWasYes'
    OBVIOUS
  <2>1. ConsentStep
    BY ConsentSteps DEF gateVars, ConsentStep
  <2>2. ConsumedWasYes'
    BY <2>1, ConsumedStep
  <2>3. CASE UNCHANGED <<approvals, acts>>
    BY <2>2, <2>3 DEF Consents!consentVars, Tickets, ticket, Open
  <2>4. CASE Asks
    BY <2>2, <2>4, AskRefines DEF Consents!ConsentNext
  <2>5. CASE Decides
    BY <2>2, <2>5, DecideRefines DEF Consents!ConsentNext
  <2>6. CASE Burns
    BY <2>2, <2>6, BurnRefines DEF Consents!ConsentNext
  <2> QED
    BY <2>1, <2>3, <2>4, <2>5, <2>6 DEF ConsentStep
<1> QED
  BY <1>1, <1>2, GateTyped, PTL DEF GateSpec, ImplementsConsent, Consents!ConsentSpec
=============================================================================

----------------------------- MODULE Authority -----------------------------
(***************************************************************************)
(* What a capability lets an agent touch (nawa/aman): the authorities, the *)
(* risk that decides whether a human must consent, the order "at least as  *)
(* narrow as" that every derivation is checked against, and the kernel's   *)
(* price list (nawa/gate).  Pure data: no state.                           *)
(*                                                                         *)
(* A path or namespace is the sequence of its characters, because          *)
(* containment is decided on text: only the separator is told apart.       *)
(***************************************************************************)
EXTENDS Naturals, Sequences

CONSTANTS Char,   \* the characters a scope is made of
          Slash   \* the component separator among them

ASSUME SlashAssumption == Slash \in Char

Scope == Seq(Char)
ModelClass == {"Fast", "Private", "Frontier", "Arabic"}

FsAuthority     == [kind : {"Fs"}, scope : Scope, write : BOOLEAN]
MemoryAuthority == [kind : {"Memory"}, scope : Scope, write : BOOLEAN]
ModelAuthority  == [kind : {"Model"}, class : ModelClass]
SendAuthority   == [kind : {"Send"}, draft_only : BOOLEAN]
SpendAuthority  == [kind : {"Spend"}, micro_dollars : Nat]

(* Every authority the enum can express. *)
Authority == FsAuthority \cup MemoryAuthority \cup ModelAuthority
               \cup SendAuthority \cup SpendAuthority

-----------------------------------------------------------------------------
(* child.strip_prefix(parent) succeeds. *)
strip_prefix(child, parent) ==
  /\ Len(parent) <= Len(child)
  /\ \A i \in 1..Len(parent) : child[i] = parent[i]

(* A plausible slip: any textual prefix taken for a path prefix. *)
is_within_TextOnly(child, parent) == strip_prefix(child, parent)

(* Containment ends at a component boundary: nothing is left over, or the *)
(* parent ends with the separator, or the remainder starts with it.       *)
is_within(child, parent) ==
  /\ strip_prefix(child, parent)
  /\ \/ Len(child) = Len(parent)
     \/ Len(parent) > 0 /\ parent[Len(parent)] = Slash
     \/ Len(child) > Len(parent) /\ child[Len(parent) + 1] = Slash

(* Risk decides consent, not the caller. *)
risk(authority) ==
  CASE authority.kind \in {"Fs", "Memory"} ->
         IF authority.write THEN "Reversible" ELSE "Benign"
    [] authority.kind = "Model" -> "Benign"
    [] authority.kind = "Send" ->
         IF authority.draft_only THEN "Reversible" ELSE "Irreversible"
    [] authority.kind = "Spend" -> "Irreversible"

Irreversible(authority) == risk(authority) = "Irreversible"

(* The whole delegation law: is child at least as narrow as parent? *)
is_subset_of(child, parent) ==
  /\ child.kind = parent.kind
  /\ \/ /\ child.kind \in {"Fs", "Memory"}
        /\ is_within(child.scope, parent.scope)
        /\ child.write => parent.write
     \/ /\ child.kind = "Model"
        /\ child.class = parent.class
     \/ /\ child.kind = "Send"
        /\ child.draft_only \/ ~parent.draft_only
     \/ /\ child.kind = "Spend"
        /\ child.micro_dollars <= parent.micro_dollars

(* The kernel's price list, in micro-dollars.  Spend is metered by `spend`. *)
price_of(authority) ==
  CASE authority.kind \in {"Fs", "Memory"} -> IF authority.write THEN 40 ELSE 10
    [] authority.kind = "Model" ->
         [Fast |-> 50, Private |-> 80, Arabic |-> 150, Frontier |-> 300][authority.class]
    [] authority.kind = "Send" -> IF authority.draft_only THEN 20 ELSE 200
    [] authority.kind = "Spend" -> 0
=============================================================================

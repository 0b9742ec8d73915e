------------------------------ MODULE Consent ------------------------------
(***************************************************************************)
(* What the gate promises about consent, and nothing else: a question is   *)
(* a ticket about one agent and one capability; a human decides it once;   *)
(* a yes is used for one act, by that agent and through that capability,   *)
(* and is then gone.  Nobody holds more than Limit open tickets, nor two   *)
(* about the same thing.  The gate's approvals, budgets, states and steps  *)
(* are shown to implement this (Gate, ImplementsConsent).                  *)
(***************************************************************************)
EXTENDS Naturals, Sequences

CONSTANTS Limit,     \* how many questions one agent may have open
          Size(_)    \* the number of elements of a set

VARIABLES tickets,    \* every question ever asked, in order
          performed   \* every irreversible act, with the ticket it used

consentVars == <<tickets, performed>>

OpenOf(a) == {r \in DOMAIN tickets : tickets[r].agent = a /\ tickets[r].state = "Open"}

ConsentInit == tickets = <<>> /\ performed = <<>>

(* A new ticket t joins, if its agent may still ask and has not asked. *)
MayJoin(t) ==
  /\ t.state = "Open"
  /\ Size(OpenOf(t.agent)) < Limit
  /\ \A r \in OpenOf(t.agent) : tickets[r].capability # t.capability

Ask ==
  /\ Len(tickets') = Len(tickets) + 1
  /\ MayJoin(tickets'[Len(tickets) + 1])
  /\ tickets' = Append(tickets, tickets'[Len(tickets) + 1])
  /\ UNCHANGED performed

Decide(r, verdict) ==
  /\ tickets[r].state = "Open"
  /\ tickets' = [tickets EXCEPT ![r].state = verdict]
  /\ UNCHANGED performed

Act(r) ==
  /\ tickets[r].state = "Yes"
  /\ tickets' = [tickets EXCEPT ![r].state = "Used"]
  /\ performed' = Append(performed, [agent |-> tickets[r].agent,
                                     capability |-> tickets[r].capability,
                                     request |-> r])

ConsentNext ==
  \/ Ask
  \/ \E r \in DOMAIN tickets :
       \/ \E verdict \in {"Yes", "No"} : Decide(r, verdict)
       \/ Act(r)

ConsentSpec == ConsentInit /\ [][ConsentNext]_consentVars
=============================================================================

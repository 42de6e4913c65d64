------------------------------ MODULE Delivery ------------------------------
(***************************************************************************)
(* What the channel outbox promises for each message, whatever fails: it   *)
(* is handed to targets only after it was submitted, it is settled once, a *)
(* message settled as sent has reached every target that is bound to all   *)
(* sessions, and nothing is handed out after it was settled, unless a      *)
(* fault disturbed its sending before.                                     *)
(***************************************************************************)
EXTENDS Naturals

CONSTANTS Messages, Targets, AlwaysBound

VARIABLES
  outcome,   \* "none", "open", "sent" or "failed"
  reached,   \* the targets that got the message at least once
  disturbed  \* the messages whose sending a fault disturbed

deliveryVars == <<outcome, reached, disturbed>>

Init ==
  /\ outcome = [m \in Messages |-> "none"]
  /\ reached = [m \in Messages |-> {}]
  /\ disturbed = {}

Submit(m) ==
  /\ outcome[m] = "none"
  /\ outcome' = [outcome EXCEPT ![m] = "open"]
  /\ UNCHANGED <<reached, disturbed>>

\* A send nobody waits for any more may still arrive after the message was settled.
Reach(m, t) ==
  /\ outcome[m] = "open" \/ (outcome[m] # "none" /\ m \in disturbed)
  /\ reached' = [reached EXCEPT ![m] = @ \cup {t}]
  /\ UNCHANGED <<outcome, disturbed>>

\* A fault disturbs the sending of a message that is not settled; a failing send may have arrived.
Disturb(m) ==
  /\ outcome[m] = "open"
  /\ disturbed' = disturbed \cup {m}
  /\ \E got \in SUBSET Targets : reached' = [reached EXCEPT ![m] = @ \cup got]
  /\ UNCHANGED outcome

Settle(m) ==
  /\ outcome[m] = "open"
  /\ \/ outcome' = [outcome EXCEPT ![m] = "failed"]
     \/ /\ AlwaysBound \subseteq reached[m]
        /\ outcome' = [outcome EXCEPT ![m] = "sent"]
  /\ UNCHANGED <<reached, disturbed>>

Next == \E m \in Messages : Submit(m) \/ Settle(m) \/ Disturb(m) \/ \E t \in Targets : Reach(m, t)

Spec == Init /\ [][Next]_deliveryVars
=============================================================================

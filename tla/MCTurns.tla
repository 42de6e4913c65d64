------------------------------ MODULE MCTurns -------------------------------
(***************************************************************************)
(* The turns of a session from their creation to their end, the switch of  *)
(* providers between two instances of the API, which keeps turns out, and  *)
(* the sessions and the project that turns belong to.  The models see a    *)
(* turn with different detail and share no state, so that a behaviour is   *)
(* one of a single part, chosen at the start; the others stay as they are. *)
(***************************************************************************)
EXTENDS TurnLifecycle, ProviderSwitch, ProjectSessions

VARIABLE part

TurnsInit ==
  /\ part \in {"lifecycle", "providers", "sessions"}
  /\ Init /\ ProviderInit /\ SessionsInit
  /\ part = "sessions" \/ (project.backend = "codex" /\ Existing = {})

TurnsNext ==
  /\ UNCHANGED part
  /\ \/ part = "lifecycle" /\ Next /\ UNCHANGED <<switchVars, sessionVars>>
     \/ part = "providers" /\ ProviderNext /\ UNCHANGED <<vars, sessionVars>>
     \/ part = "sessions" /\ SessionsNext /\ UNCHANGED <<vars, switchVars>>

\* The fairness of FairSpec; the safety of the other parts needs none.
TurnsSpec ==
  /\ TurnsInit /\ [][TurnsNext]_<<part, vars, switchVars, sessionVars>>
  /\ \A t \in Turns :
       /\ WF_vars(part = "lifecycle" /\ Launch(t)) /\ WF_vars(part = "lifecycle" /\ Consumer(t))
       /\ WF_vars(part = "lifecycle" /\ Handler(t)) /\ WF_vars(part = "lifecycle" /\ Cancellation(t))

TurnsTypeOK == TypeOK /\ ProviderTypeOK /\ SessionsTypeOK
=============================================================================

---------------------------- MODULE MCIngestion ----------------------------
(***************************************************************************)
(* The events of a turn: how they are ingested, how its end is written and *)
(* what a reader is shown of them. The models look at the same queues and  *)
(* the same log with different detail, so that a behaviour is one of a     *)
(* single part, chosen at the start.                                       *)
(***************************************************************************)
EXTENDS EventIngestion, TurnEnding, AgentTimeline

VARIABLE part

AllFacts == {"fact", "plain", "end"}

IngestionInit ==
  /\ part \in {"log", "ending", "timeline"} /\ Init /\ EndingInit /\ TimelineInit
  /\ part = "ending" \/ version = 1
  /\ part = "log" \/ remote
  /\ part = "timeline" \/ (agentKind = "codex" /\ partials /\ spent = 0)
  /\ tools["edit2"] = "new" => tools["edit1"] = "new"  \* edits are alike

IngestionNext ==
  /\ UNCHANGED part
  /\ \/ part = "log" /\ Next /\ UNCHANGED <<endingVars, timelineVars>>
     \/ part = "ending" /\ EndingNext /\ UNCHANGED <<vars, timelineVars>>
     \/ part = "timeline" /\ TimelineNext /\ UNCHANGED <<vars, endingVars>>

\* Promise chains run and the reconciliation starts missing consumers.
IngestionSpec ==
  /\ IngestionInit /\ [][IngestionNext]_<<part, vars, endingVars, timelineVars>>
  /\ WF_vars(part = "log" /\ Handler) /\ WF_vars(part = "log" /\ AppendEventNow)
  /\ WF_vars(part = "log" /\ Consumer)

IngestionTypeOK == TypeOK /\ EndingTypeOK /\ TimelineTypeOK
=============================================================================

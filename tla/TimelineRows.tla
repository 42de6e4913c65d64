---------------------------- MODULE TimelineRows ----------------------------
(***************************************************************************)
(* What a reader gets of the durable events of one turn: the summaries     *)
(* that the API sends (timeline-event-payload.ts), the rows that the page  *)
(* folds them into (page.tsx, timeline-tool-routing.ts), and the output of *)
(* a command that it asks for by reference (getCommandOutputForTurn).      *)
(*                                                                         *)
(* An event is [type, id, via, kind, text, agg, files]: the id that its    *)
(* payload names and the sort of reference it gives, the kind of the tool, *)
(* the text as a sequence of pieces, the aggregated output of a completed  *)
(* item and the files of a diff.  The sequence number of an event is its   *)
(* place in the log.                                                       *)
(***************************************************************************)
EXTENDS Naturals, Sequences, SequencesExt, FiniteSets, FiniteSetsExt

NoRef == <<>>
DetailRef(e) == IF e.id = "" THEN NoRef ELSE <<e.via, e.id>>

\* isCommandToolKind: the kinds of Codex items, of Codex output and of Claude tools that are commands.
IsCommandToolKind(kind) == kind \in {"commandExecution", "command_execution", "Bash"}
IsFileKind(kind) == kind \in {"fileChange", "file_change"}

\* summarizeTimelineEventPayload: the output of commands and file changes stays behind. The turns
\* that name items, those of Codex, keep their messages in history version 2.
Summarize(e) ==
  [type |-> e.type, id |-> e.id, ref |-> DetailRef(e), kind |-> e.kind,
   historyVersion |-> IF e.via = "item" THEN 2 ELSE 1,
   text |-> IF \/ e.type = "tool.output" /\ (IsCommandToolKind(e.kind) \/ IsFileKind(e.kind))
               \/ e.type = "diff.updated"
            THEN <<>> ELSE e.text,
   outputAvailable |-> \/ e.type = "tool.output" /\ e.text # <<>>
                       \/ e.type = "tool.completed" /\ e.agg # <<>>]

-----------------------------------------------------------------------------
\* mergeTimelineEvent: rows, an event as it was sent, its sequence number.

Row(kind, e, n) ==
  [kind |-> kind, id |-> e.id, ref |-> e.ref, toolKind |-> e.kind, status |-> "running",
   first |-> n, last |-> n, hasOutput |-> e.outputAvailable, details |-> <<>>]

LastKind(rows) == IF rows = <<>> THEN "none" ELSE Last(rows).kind

\* findTargetToolTimelineIndex: the last row with the event's reference, 0 for none.
TargetRow(rows, e) ==
  Max({0} \cup {i \in DOMAIN rows : rows[i].kind = "tool" /\ rows[i].ref = e.ref})

StartTool(rows, e, n) == Append(rows, Row("tool", e, n))

\* Output moves a row on; without a row it makes one. The output of a command is not kept.
OutputRow(row, e, n) ==
  [row EXCEPT !.last = Max({@, n}), !.hasOutput = TRUE,
              !.details = IF IsCommandToolKind(e.kind) THEN @ ELSE @ \o e.text]

OutputTool(rows, e, n) ==
  LET i == TargetRow(rows, e) IN
  IF ~(e.outputAvailable \/ e.text # <<>>) THEN rows
  ELSE IF i = 0 THEN Append(rows, OutputRow(Row("tool", e, n), e, n))
  ELSE [rows EXCEPT ![i] = OutputRow(@, e, n)]

CompletedRow(row, e, n) ==
  [row EXCEPT !.last = Max({@, n}), !.status = "completed",
              !.hasOutput = @ \/ e.outputAvailable, !.details = @ \o e.text]

CompleteTool(rows, e, n) ==
  LET i == TargetRow(rows, e) IN
  IF i = 0 THEN Append(rows, CompletedRow(Row("tool", e, n), e, n))
  ELSE [rows EXCEPT ![i] = CompletedRow(@, e, n)]

\* A user message once; an assistant message of message history has one row, whatever comes between.
UserMessage(rows, e, n) ==
  IF \E i \in DOMAIN rows : rows[i].kind = "user" /\ rows[i].id = e.id THEN rows
  ELSE Append(rows, Row("user", e, n))

AssistantItem(rows, e, n) ==
  LET status == IF e.type = "assistant.message.completed" THEN "completed" ELSE "running"
      mine == {i \in DOMAIN rows : rows[i].kind = "assistant" /\ rows[i].id = e.id}
  IN IF mine = {} THEN Append(rows, [Row("assistant", e, n) EXCEPT !.status = status])
     ELSE [i \in DOMAIN rows |-> IF i \in mine THEN [rows[i] EXCEPT !.last = n, !.status = status] ELSE rows[i]]

\* Text and reasoning run on in the last row when it is of their kind. The row of an assistant message
\* does not hold its text (appendOrMergeByKindWithoutDetails).
RunOn(rows, kind, e, text, n) ==
  IF LastKind(rows) = kind
  THEN [rows EXCEPT ![Len(rows)].last = Max({@, n}), ![Len(rows)].details = @ \o text]
  ELSE Append(rows, [Row(kind, e, n) EXCEPT !.details = text])

MergeTimelineEvent(rows, e, n) ==
  CASE e.type = "tool.started" -> StartTool(rows, e, n)
    [] e.type = "tool.output" -> OutputTool(rows, e, n)
    [] e.type = "tool.completed" -> CompleteTool(rows, e, n)
    [] e.type = "user.message.accepted" -> UserMessage(rows, e, n)
    [] e.type \in {"assistant.message.started", "assistant.message.completed"} -> AssistantItem(rows, e, n)
    [] e.type = "assistant.delta" ->
         IF e.id # "" THEN AssistantItem(rows, e, n) ELSE RunOn(rows, "assistant", e, <<>>, n)
    [] e.type = "reasoning.delta" -> RunOn(rows, "reasoning", e, e.text, n)
    [] e.type \in {"plan.updated", "diff.updated", "turn.approval.auto_review"} -> Append(rows, Row(e.type, e, n))
    [] e.type = "turn.completed" ->
         Append(IF e.historyVersion = 2 THEN rows ELSE RunOn(rows, "assistant", e, <<>>, n), Row("event", e, n))
    [] OTHER -> rows  \* turn.started, turn.failed, turn.cancelled

\* buildTurnEventSnapshot: the rows of a log, and the text of a turn without message history.
TimelineRowsOf(log) ==
  FoldLeft(LAMBDA rows, n : MergeTimelineEvent(rows, Summarize(log[n]), n), <<>>, [n \in DOMAIN log |-> n])

AssistantText(log) ==
  LET deltas == SelectSeq(log, LAMBDA e : e.type = "assistant.delta")
      end == SelectSeq(log, LAMBDA e : e.type = "turn.completed")
      text == FlattenSeq([i \in DOMAIN deltas |-> deltas[i].text])
  IN IF text = <<>> /\ end # <<>> THEN Last(end).text ELSE text

-----------------------------------------------------------------------------
\* getCommandOutputForTurn: the pieces that came as output, else the aggregate of the item.
CommandOutput(log, ref) ==
  LET mine == SelectSeq(log, LAMBDA e : e.type \in {"tool.started", "tool.output", "tool.completed"} /\ DetailRef(e) = ref)
      outputs == SelectSeq(mine, LAMBDA e : e.type = "tool.output" /\ e.text # <<>>)
      aggregates == SelectSeq(mine, LAMBDA e : e.type = "tool.completed" /\ e.agg # <<>>)
  IN [found |-> \E i \in DOMAIN mine : IsCommandToolKind(mine[i].kind),
      output |-> IF outputs # <<>> THEN FlattenSeq([i \in DOMAIN outputs |-> outputs[i].text])
                 ELSE IF aggregates # <<>> THEN Last(aggregates).agg ELSE <<>>]
=============================================================================

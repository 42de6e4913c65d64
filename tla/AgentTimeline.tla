--------------------------- MODULE AgentTimeline ---------------------------
(***************************************************************************)
(* One running turn from what its agent does to the rows that a reader     *)
(* sees.  Codex sends notifications, each of which becomes at most one     *)
(* event (handleCodexNotification).  The messages of Claude wait for a     *)
(* loop that awaits every event it emits, while the hooks of the tools run *)
(* beside it (runTurn, buildClaudeHooks); both may be the first to say     *)
(* that a tool has started.                                                *)
(*                                                                         *)
(* A turn that is cancelled or fails stops with the log as it is, whatever *)
(* the agent and its hooks still send.  How events reach the log is the    *)
(* subject of EventIngestion, how a turn ends that of ClaudeBackend and    *)
(* CodexWorkers.                                                           *)
(***************************************************************************)
EXTENDS TimelineRows

CONSTANTS
  Commands, Edits, Tasks,  \* the tools of the turn, as the ids the agent gives them
  MaxWork,                 \* bound on tools, sayings, prompts, reports, summaries and remarks together
  MaxPrints                \* bound on the pieces of output a command prints

ASSUME TimelineAssumption ==
  /\ Commands \cap Edits = {} /\ Commands \cap Tasks = {} /\ Edits \cap Tasks = {}
  /\ MaxWork \in 0..3 /\ MaxPrints \in Nat

VARIABLES
  agentKind,  \* "codex" or "claude"
  partials,   \* whether the agent sends its text in parts before it sends it whole
  said,       \* what the agent has begun to say
  speech,     \* Codex: how far it is with its last message
  tools,      \* each tool as the agent sees it
  printed,    \* the pieces that each command has printed, Blank ones included
  prompts,    \* Codex: the user items it has acknowledged, each by two notifications
  inbox,      \* Claude: messages that the loop has not taken
  todo,       \* Claude: what the loop has still to emit for the message it took
  sawPartial, \* sawPartialAssistantDelta
  hook,       \* Claude: the hook of each tool
  started,    \* startedToolCallsByTurn
  merged,     \* aggregatedDiffsByTurn: the edits it holds
  reply,      \* assistantText
  events,     \* the durable events
  over,       \* the turn has ended
  spent

agentVars == <<said, speech, tools, printed, prompts>>
loopVars == <<inbox, todo, sawPartial>>
hookVars == <<hook, merged>>
timelineVars == <<agentKind, partials, said, speech, tools, printed, prompts, inbox, todo, sawPartial,
                  hook, started, merged, reply, events, over, spent>>

Tools == Commands \cup Edits \cup Tasks
Users == {"u1", "u2"}
Blank == 0      \* a piece of white space
Elapsed == 100  \* the text of tool_progress
Failure == 101  \* the error of a failed tool
Gist == 102     \* the text of tool_use_summary and of tasks
Pieces == 0..MaxPrints \cup 1..MaxWork \cup {Elapsed, Failure, Gist}

\* The kinds that the two agents give their tools.
CodexKind(t) == IF t \in Commands THEN "commandExecution" ELSE IF t \in Edits THEN "fileChange" ELSE "tool"
ClaudeKind(t) == IF t \in Commands THEN "Bash" ELSE IF t \in Edits THEN "Edit" ELSE "task"

NewEvent(type, id, via, kind, text, agg) ==
  [type |-> type, id |-> id, via |-> via, kind |-> kind, text |-> text, agg |-> agg, files |-> {}]
Codex(type, id, kind, text) == NewEvent(type, id, "item", kind, text, <<>>)
Claude(type, id, kind, text) == NewEvent(type, id, "call", kind, text, <<>>)

Claims(type, t) == \E n \in DOMAIN events : events[n].type = type /\ events[n].id = t

TimelineTypeOK ==
  /\ agentKind \in {"codex", "claude"} /\ partials \in BOOLEAN /\ said \in 0..MaxWork
  /\ speech \in {"silent", "begun", "told"}
  /\ tools \in [Tools -> {"unused", "new", "running", "returned", "unchanged", "failed", "denied", "done"}]
  /\ printed \in [Commands -> Seq(0..MaxPrints)]
  /\ prompts \in [Users -> 0..2]
  /\ sawPartial \in BOOLEAN
  /\ hook \in [Tools -> {"off", "begin", "output", "diff", "complete", "over"}]
  /\ started \subseteq Tools /\ merged \subseteq Edits
  /\ reply \in Seq(Pieces) /\ over \in BOOLEAN /\ spent \in 0..MaxWork
  /\ \A n \in DOMAIN events : events[n].text \in Seq(Pieces) /\ events[n].files \subseteq Edits

TimelineInit ==
  /\ agentKind \in {"codex", "claude"} /\ partials \in BOOLEAN
  /\ said = 0 /\ speech = "silent"
  /\ \E used \in SUBSET Tools : /\ Cardinality(used) < MaxWork /\ spent = Cardinality(used)
                               /\ tools = [t \in Tools |-> IF t \in used THEN "new" ELSE "unused"]
  /\ printed = [t \in Commands |-> <<>>] /\ prompts = [u \in Users |-> 0]
  /\ inbox = <<>> /\ todo = <<>> /\ sawPartial = FALSE
  /\ hook = [t \in Tools |-> "off"] /\ started = {} /\ merged = {}
  /\ reply = <<>> /\ events = <<>> /\ over = FALSE

Spend == spent < MaxWork /\ spent' = spent + 1
Persist(e) == events' = Append(events, e)
Quiet == \A t \in Tools : tools[t] # "running" /\ hook[t] \in {"off", "over"}

\* Commands print something, or white space, before they are done; what they print is numbered.
Printed(t) == SelectSeq(printed[t], LAMBDA p : p # Blank)
Prints(t) ==
  /\ t \in Commands /\ tools[t] = "running" /\ Len(printed[t]) < MaxPrints
  /\ \E p \in {Blank, Len(printed[t]) + 1} : printed' = [printed EXCEPT ![t] = Append(@, p)]

-----------------------------------------------------------------------------
\* Codex.

CodexStep == ~over /\ agentKind = "codex" /\ UNCHANGED <<agentKind, partials, loopVars, hookVars, started>>

MessageId == <<"m1", "m2", "m3">>[said]

\* item/started, item/agentMessage/delta and item/completed of an agent message.
CodexSpeaks ==
  /\ CodexStep /\ speech = "silent" /\ Spend
  /\ said' = said + 1 /\ speech' = "begun"
  /\ Persist(Codex("assistant.message.started", MessageId', "", <<>>))
  /\ UNCHANGED <<tools, printed, prompts, reply, over>>

CodexTells ==
  /\ CodexStep /\ speech = "begun" /\ partials
  /\ speech' = "told" /\ reply' = Append(reply, said)
  /\ Persist(Codex("assistant.delta", MessageId, "", <<said>>))
  /\ UNCHANGED <<said, tools, printed, prompts, over, spent>>

CodexHasSpoken ==
  /\ CodexStep /\ speech = (IF partials THEN "told" ELSE "begun")
  /\ speech' = "silent"
  /\ reply' = IF reply = <<>> THEN <<said>> ELSE reply
  /\ Persist(Codex("assistant.message.completed", MessageId, "", <<said>>))
  /\ UNCHANGED <<said, tools, printed, prompts, over, spent>>

\* item/started and item/completed of a user message: emitUserMessage, twice for every item.
CodexTakesPrompt(u) ==
  /\ CodexStep /\ prompts[u] < 2
  /\ u = "u2" => prompts["u1"] = 2
  /\ IF prompts[u] = 0 THEN Spend ELSE UNCHANGED spent
  /\ prompts' = [prompts EXCEPT ![u] = @ + 1]
  /\ Persist(Codex("user.message.accepted", u, "", <<>>))
  /\ UNCHANGED <<said, speech, tools, printed, reply, over>>

CodexStartsTool(t) ==
  /\ CodexStep /\ tools[t] = "new"
  /\ tools' = [tools EXCEPT ![t] = "running"]
  /\ Persist(Codex("tool.started", t, CodexKind(t), <<>>))
  /\ UNCHANGED <<said, speech, printed, prompts, reply, over, spent>>

\* outputDelta: the text is trimmed, and white space alone is no event (buildToolOutputPayload).
CodexPrints(t) ==
  /\ CodexStep /\ Prints(t)
  /\ IF partials /\ Last(printed'[t]) # Blank
     THEN Persist(Codex("tool.output", t, "command_execution", <<Last(printed'[t])>>))
     ELSE UNCHANGED events
  /\ UNCHANGED <<said, speech, tools, prompts, reply, over, spent>>

\* item/completed carries the whole output of a command.
CodexCompletesTool(t) ==
  /\ CodexStep /\ tools[t] = "running"
  /\ tools' = [tools EXCEPT ![t] = "done"]
  /\ Persist(NewEvent("tool.completed", t, "item", CodexKind(t), <<>>, IF t \in Commands THEN printed[t] ELSE <<>>))
  /\ UNCHANGED <<said, speech, printed, prompts, reply, over, spent>>

\* What else the agent says: reviews of approvals, plans, reasoning, diffs, and errors it will retry.
CodexRemarks(type, id, kind) ==
  /\ CodexStep /\ Spend
  /\ Persist(Codex(type, id, kind, <<Gist>>))
  /\ UNCHANGED <<agentVars, reply, over>>

CodexReviews == CodexRemarks("turn.approval.auto_review", "", "")
CodexPlans == CodexRemarks("plan.updated", "", "")
CodexReasons == CodexRemarks("reasoning.delta", "", "")
CodexDiffs == CodexRemarks("diff.updated", "", "")
CodexRetries == CodexRemarks("tool.output", "codex-retry", "system")

\* turn/completed: extractAssistantTextFromTurn when nothing was collected.
CodexCompletes ==
  /\ CodexStep /\ Quiet /\ speech = "silent" /\ said > 0
  /\ over' = TRUE
  /\ Persist(Codex("turn.completed", "", "", IF reply # <<>> THEN reply ELSE <<said>>))
  /\ UNCHANGED <<agentVars, reply, spent>>

-----------------------------------------------------------------------------
\* What Claude does, and the messages it leaves for the loop.

ClaudeStep == ~over /\ agentKind = "claude" /\ UNCHANGED <<agentKind, partials, speech, prompts>>
Unfinished == ClaudeStep /\ \A i \in DOMAIN inbox : inbox[i].is # "result"
Post(messages) == inbox' = inbox \o messages
Message(is, t, pieces) == [is |-> is, of |-> t, text |-> pieces]

\* One message of text and of tool uses. With partial messages the text and the start of every
\* tool come ahead of the whole.
ClaudeSpeaks ==
  /\ Unfinished /\ Quiet /\ Spend
  /\ \E uses \in SUBSET {t \in Commands \cup Edits : tools[t] = "new"} :
       LET parts == <<Message("text", "", <<said + 1>>)>> \o SetToSeq({Message("block", t, <<>>) : t \in uses})
           whole == SetToSeq({Message("use", t, <<>>) : t \in uses}) \o <<Message("whole", "", <<said + 1>>)>>
       IN /\ Post((IF partials THEN parts ELSE <<>>) \o whole)
          /\ tools' = [t \in Tools |-> IF t \in uses THEN "running" ELSE tools[t]]
  /\ said' = said + 1
  /\ UNCHANGED <<printed, todo, sawPartial, hookVars, started, reply, events, over>>

ClaudePrints(t) ==
  /\ Unfinished /\ Prints(t)
  /\ UNCHANGED <<said, tools, loopVars, hookVars, started, reply, events, over, spent>>

\* tool_progress.
ClaudeReports(t) ==
  /\ Unfinished /\ t \in Commands /\ tools[t] = "running"
  /\ Spend
  /\ Post(<<Message("progress", t, <<Elapsed>>)>>)
  /\ UNCHANGED <<said, tools, printed, todo, sawPartial, hookVars, started, reply, events, over>>

\* The tool has run, with or without a change, or failed, and its hook is called; without permission
\* there is no hook.
ClaudeToolReturns(t) ==
  /\ Unfinished /\ t \notin Tasks /\ tools[t] = "running"
  /\ \E how \in {"returned", "failed", "denied"} \cup (IF t \in Edits THEN {"unchanged"} ELSE {}) :
       /\ tools' = [tools EXCEPT ![t] = how]
       /\ hook' = [hook EXCEPT ![t] = IF how = "denied" THEN "off" ELSE "begin"]
  /\ UNCHANGED <<said, printed, loopVars, merged, started, reply, events, over, spent>>

\* tool_use_summary names the first of the tools it sums up.
ClaudeSumsUp(t) ==
  /\ Unfinished /\ Quiet /\ tools[t] = "done" /\ t \notin Tasks
  /\ Spend
  /\ Post(<<Message("summary", t, <<Gist>>)>>)
  /\ UNCHANGED <<said, tools, printed, todo, sawPartial, hookVars, started, reply, events, over>>

\* status, thinking and api_retry, and task_progress.
ClaudeRemarks ==
  /\ Unfinished /\ Spend
  /\ \/ \E is \in {"status", "retry"} : Post(<<Message(is, "", <<Gist>>)>>)
     \/ \E t \in Tasks : tools[t] = "running" /\ Post(<<Message("taskProgress", t, <<Gist>>)>>)
  /\ UNCHANGED <<said, tools, printed, todo, sawPartial, hookVars, started, reply, events, over>>

\* task_started and task_notification; the hooks of the user's settings are told in the same way.
ClaudeTask(t) ==
  /\ Unfinished /\ t \in Tasks /\ tools[t] \in {"new", "running"}
  /\ tools' = [tools EXCEPT ![t] = IF @ = "new" THEN "running" ELSE "done"]
  /\ Post(<<Message(IF tools[t] = "new" THEN "task" ELSE "taskDone", t, <<Gist>>)>>)
  /\ UNCHANGED <<said, printed, todo, sawPartial, hookVars, started, reply, events, over, spent>>

ClaudeResult ==
  /\ Unfinished /\ Quiet /\ said > 0
  /\ Post(<<Message("result", "", <<said>>)>>)
  /\ UNCHANGED <<said, tools, printed, todo, sawPartial, hookVars, started, reply, events, over, spent>>

-----------------------------------------------------------------------------
\* The loop over the messages, and the hooks.

\* emitToolStarted: the set is asked and extended before the event is awaited.
EmitToolStarted_Always(t) ==
  /\ started' = started \cup {t}
  /\ Persist(Claude("tool.started", t, ClaudeKind(t), <<>>))

EmitToolStarted(t) ==
  /\ started' = started \cup {t}
  /\ IF t \in started THEN UNCHANGED events ELSE Persist(Claude("tool.started", t, ClaudeKind(t), <<>>))

\* What the loop emits for a message, one awaited event after the other.
Emissions(m) ==
  LET start == Claude("tool.started", m.of, "", <<>>)
      output(kind) == Claude("tool.output", m.of, kind, m.text)
      complete(kind) == Claude("tool.completed", m.of, kind, m.text)
      delta == Claude("assistant.delta", "", "", m.text)
      thought == Claude("reasoning.delta", "", "", m.text)
  IN CASE m.is = "text" -> <<delta>>
       [] m.is \in {"block", "use"} -> <<start>>
       [] m.is = "whole" -> IF sawPartial THEN <<>> ELSE <<delta>>
       [] m.is = "progress" -> <<start, output("Bash")>>
       [] m.is = "summary" -> <<output("tool"), complete("tool")>>
       [] m.is = "task" -> <<start, output("task")>>
       [] m.is = "taskProgress" -> <<thought, output("task")>>
       [] m.is = "taskDone" -> <<complete("task")>>
       [] m.is = "status" -> <<thought>>
       [] m.is = "retry" -> <<Claude("tool.output", "api-retry", "system", m.text)>>

Emits(e) ==
  /\ IF e.type = "tool.started" THEN EmitToolStarted(e.id) ELSE Persist(e) /\ UNCHANGED started
  /\ reply' = IF e.type = "assistant.delta" THEN reply \o e.text ELSE reply

\* The loop takes a message and emits its first event; the next one when that has been awaited.
LoopTakes ==
  /\ ClaudeStep /\ todo = <<>> /\ inbox # <<>> /\ Head(inbox).is # "result"
  /\ LET emitted == Emissions(Head(inbox)) IN
     IF emitted = <<>> THEN UNCHANGED <<todo, started, reply, events>>
     ELSE todo' = Tail(emitted) /\ Emits(Head(emitted))
  /\ inbox' = Tail(inbox)
  /\ sawPartial' = (sawPartial \/ Head(inbox).is = "text")
  /\ UNCHANGED <<said, tools, printed, hookVars, over, spent>>

LoopEmits ==
  /\ ClaudeStep /\ todo # <<>>
  /\ todo' = Tail(todo) /\ Emits(Head(todo))
  /\ UNCHANGED <<said, tools, printed, inbox, sawPartial, hookVars, over, spent>>

\* result: the text that was collected, or that of the result.
LoopEnds ==
  /\ ClaudeStep /\ todo = <<>> /\ inbox # <<>> /\ Head(inbox).is = "result"
  /\ inbox' = Tail(inbox) /\ over' = TRUE
  /\ Persist(Claude("turn.completed", "", "", IF reply # <<>> THEN reply ELSE Head(inbox).text))
  /\ UNCHANGED <<said, tools, printed, todo, sawPartial, hookVars, started, reply, spent>>

\* PostToolUse and PostToolUseFailure up to each of their awaits.
HookMoves(t, to) == hook' = [hook EXCEPT ![t] = to]

HookStarts(t) ==
  /\ ClaudeStep /\ hook[t] = "begin"
  /\ EmitToolStarted(t) /\ HookMoves(t, "output")
  /\ UNCHANGED <<said, tools, printed, loopVars, merged, reply, over, spent>>

\* buildDiffPayloadFromTool: the patch of the response, or what the input says of one; it may be empty.
PatchOf(t) == IF t \in Edits /\ tools[t] = "returned" THEN {t} ELSE {}

HookOutput(t) ==
  LET text == IF tools[t] = "failed" THEN <<Failure>> ELSE IF t \in Commands THEN Printed(t) ELSE <<>> IN
  /\ ClaudeStep /\ hook[t] = "output"
  /\ HookMoves(t, IF PatchOf(t) # {} THEN "diff" ELSE "complete")
  /\ IF text # <<>> THEN Persist(Claude("tool.output", t, ClaudeKind(t), text)) ELSE UNCHANGED events
  /\ UNCHANGED <<said, tools, printed, loopVars, merged, started, reply, over, spent>>

\* mergeTurnDiffPayload, and the event with all the files of the turn so far.
HookDiff(t) ==
  /\ ClaudeStep /\ hook[t] = "diff"
  /\ HookMoves(t, "complete") /\ merged' = merged \cup PatchOf(t)
  /\ Persist([Claude("diff.updated", "", "", <<>>) EXCEPT !.files = merged'])
  /\ UNCHANGED <<said, tools, printed, loopVars, started, reply, over, spent>>

HookCompletes(t) ==
  /\ ClaudeStep /\ hook[t] = "complete"
  /\ HookMoves(t, "over")
  /\ tools' = [tools EXCEPT ![t] = IF @ = "returned" THEN "done" ELSE @]
  /\ Persist(Claude("tool.completed", t, ClaudeKind(t), <<>>))
  /\ UNCHANGED <<said, printed, loopVars, merged, started, reply, over, spent>>

TimelineNext ==
  \/ CodexSpeaks \/ CodexTells \/ CodexHasSpoken \/ CodexCompletes
  \/ CodexReviews \/ CodexPlans \/ CodexReasons \/ CodexDiffs \/ CodexRetries
  \/ \E u \in Users : CodexTakesPrompt(u)
  \/ \E t \in Tools : CodexStartsTool(t) \/ CodexPrints(t) \/ CodexCompletesTool(t)
  \/ ClaudeSpeaks \/ ClaudeRemarks \/ ClaudeResult
  \/ \E t \in Tools : ClaudePrints(t) \/ ClaudeReports(t) \/ ClaudeToolReturns(t) \/ ClaudeSumsUp(t) \/ ClaudeTask(t)
  \/ LoopTakes \/ LoopEmits \/ LoopEnds
  \/ \E t \in Tools : HookStarts(t) \/ HookOutput(t) \/ HookDiff(t) \/ HookCompletes(t)

TimelineSpec == TimelineInit /\ [][TimelineNext]_timelineVars

-----------------------------------------------------------------------------
RowsOf(rows, t) == {i \in DOMAIN rows : rows[i].kind \in {"tool", "user"} /\ rows[i].id = t}

\* However the hooks overtake the loop, a tool is one row, and it is completed when its completion
\* is in the log; a message of the user is one row (emitToolStarted, mergeTimelineEvent).
OneRowPerTool ==
  LET rows == TimelineRowsOf(events) IN
  \A t \in Tools \cup Users :
    /\ Cardinality(RowsOf(rows, t)) <= 1
    /\ Claims("tool.completed", t) => \E i \in RowsOf(rows, t) : rows[i].status = "completed"

\* A row of a command says that it has output just when the output can be fetched, and what a
\* finished command printed is fetched whole, in order and once, up to white space
\* (getCommandOutputForTurn, summarizeTimelineEventPayload).
OutputIsThere ==
  LET rows == TimelineRowsOf(events) IN
  \A t \in Commands : \A i \in RowsOf(rows, t) :
    LET detail == CommandOutput(events, rows[i].ref)
        own == SelectSeq(detail.output, LAMBDA p : p \in 1..MaxPrints \cup {Failure})
    IN /\ IsCommandToolKind(rows[i].toolKind) => detail.found /\ (rows[i].hasOutput <=> detail.output # <<>>)
       /\ tools[t] = "done" => own = Printed(t)

\* The text of the turn is what the agent said, each part once, and its final text all of it
\* (sawPartialAssistantDelta, assistantText).
SaidOnce ==
  LET text == AssistantText(events)
      told == [n \in 1..said |-> n]
  IN /\ partials \/ agentKind = "claude" => IsPrefix(text, told) /\ IsPrefix(reply, told)
     /\ over /\ (partials \/ agentKind = "claude") => text = told /\ reply = told

\* The last diff of a turn has every edit whose tool has completed (mergeTurnDiffPayload).
DiffIsWhole ==
  LET diffs == SelectSeq(events, LAMBDA e : e.type = "diff.updated") IN
  \A t \in Edits : agentKind = "claude" /\ tools[t] = "done" => diffs # <<>> /\ t \in Last(diffs).files

TimelineSafe == OneRowPerTool /\ OutputIsThere /\ SaidOnce /\ DiffIsWhole
=============================================================================

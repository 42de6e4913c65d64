--------------------------- MODULE ClaudeBackend ---------------------------
(***************************************************************************)
(* One turn of the Claude backend: the loop over the messages of the SDK,  *)
(* the queue of user inputs that a steer adds to, the requests for         *)
(* approval that the SDK makes in between, cancellation, and the end of    *)
(* the turn, which each of them may bring about while another one waits.   *)
(* (claude-backend.ts, and finalizeTurn of embedded-runner.service.ts; the *)
(* SDK and the agent behind it are external)                               *)
(***************************************************************************)
EXTENDS Naturals, Sequences, SequencesExt

CONSTANTS
  Steers,        \* inputs a user adds while the turn runs
  Tools,         \* uses of a tool that need an approval
  MaxAgentOutput \* bound on messages of the SDK

ASSUME ClaudeAssumption == MaxAgentOutput \in Nat

VARIABLES
  loop,       \* startTurn: where it awaits
  result,     \* the result being dealt with: "ok" or "error"
  sawResult,
  finalized,  \* the turn has left activeTurns
  cancelling, \* cancellingTurns
  status,     \* status of the turn's event stream
  ends,       \* terminal events in the stream
  input,      \* AsyncInputQueue: [items, closed, reader], reader: the SDK waits for the next item
  heard,      \* inputs that a read of the SDK has taken
  accepted,   \* steers that were accepted
  agent,      \* the SDK: "run", "idle", or "gone" when its stream has ended
  out,        \* its messages that the loop has not read
  outputs,    \* how many it has sent
  tool,       \* per use of a tool, where requestToolApproval stands and what it returned
  choice,     \* per use, the decision of the user that was accepted
  ending      \* history: what brought the end about

claudeVars == <<loop, result, sawResult, finalized, cancelling, status, ends, input, heard, accepted,
                agent, out, outputs, tool, choice, ending>>
loopVars == <<loop, result, sawResult>>
endVars == <<finalized, cancelling, status, ends, ending>>
inputVars == <<input, heard, accepted>>
agentVars == <<agent, out, outputs>>
toolVars == <<tool, choice>>

Prompt == "prompt"
TerminalStatus == {"completed", "failed", "cancelled"}

ClaudeTypeOK ==
  /\ loop \in {"starting", "reading", "handling", "usage", "grace", "errors", "ended", "over"}
  /\ result \in {"none", "ok", "error"} /\ sawResult \in BOOLEAN
  /\ finalized \in BOOLEAN /\ cancelling \in BOOLEAN
  /\ status \in {"running", "waiting_approval"} \cup TerminalStatus /\ ends \in 0..1
  /\ input \in [items : Seq(Steers \cup {Prompt}), closed : BOOLEAN, reader : BOOLEAN]
  /\ heard \subseteq Steers \cup {Prompt} /\ accepted \subseteq Steers
  /\ agent \in {"run", "idle", "gone"}
  /\ out \in Seq({"message", "ok", "error", "throw"}) /\ outputs \in 0..MaxAgentOutput
  /\ tool \in [Tools -> {"none", "announcing", "pending", "answering", "allowed", "denied"}]
  /\ choice \in [Tools -> {"none", "accept", "decline", "cancel"}]
  /\ ending \in {"none", "result", "stream", "cancel"}

\* startTurn up to its first await: the prompt is queued, the query made, turn.started emitted.
ClaudeInit ==
  /\ loop = "starting" /\ result = "none" /\ sawResult = FALSE
  /\ finalized = FALSE /\ cancelling = FALSE /\ status = "running" /\ ends = 0 /\ ending = "none"
  /\ input = [items |-> <<Prompt>>, closed |-> FALSE, reader |-> FALSE]
  /\ heard = {} /\ accepted = {}
  /\ agent = "idle" /\ out = <<>> /\ outputs = 0
  /\ tool = [t \in Tools |-> "none"] /\ choice = [t \in Tools |-> "none"]

-----------------------------------------------------------------------------
\* The end of a turn.

\* disposePendingApprovalsForTurn.
Disposed == [t \in Tools |-> IF tool[t] = "pending" THEN "denied" ELSE tool[t]]

FinalizeTurn_Again(type, by) ==
  /\ finalized' = TRUE
  /\ status' = type /\ ends' = ends + 1 /\ ending' = by
  /\ tool' = Disposed
  /\ agent' = "gone"

\* finalizeTurn: the first one counts.
FinalizeTurn(type, by) ==
  IF finalized
  THEN UNCHANGED <<finalized, status, ends, ending, tool, agent>>
  ELSE /\ finalized' = TRUE
       /\ status' = type /\ ends' = ends + 1 /\ ending' = by
       /\ tool' = Disposed
       /\ agent' = "gone"

CloseQueue(queue) == [queue EXCEPT !.items = <<>>, !.closed = TRUE, !.reader = FALSE]

\* The finally block; every way through the loop comes here once the turn is finalized.
Finally ==
  /\ loop = "ended" /\ finalized
  /\ loop' = "over"
  /\ tool' = Disposed
  /\ input' = CloseQueue(input)
  /\ cancelling' = FALSE
  /\ UNCHANGED <<result, sawResult, finalized, status, ends, ending, heard, accepted, agentVars, choice>>

\* cancelTurn, for a turn that is still active.
CancelClaudeTurn ==
  /\ ~finalized
  /\ cancelling' = TRUE
  /\ input' = CloseQueue(input)
  /\ FinalizeTurn("cancelled", "cancel")
  /\ UNCHANGED <<loopVars, heard, accepted, out, outputs, choice>>

-----------------------------------------------------------------------------
\* The loop of startTurn.

\* An event was delivered to the consumer: turn.started or one for a message.
Delivered(from) ==
  /\ loop = from /\ loop' = "reading"
  /\ UNCHANGED <<result, sawResult, endVars, inputVars, agentVars, toolVars>>

ClaudeTurnStarted == Delivered("starting")
EventDelivered == Delivered("handling")

\* A message ends up in events; the loop breaks off once the turn is finalized.
ReadMessage ==
  /\ loop = "reading" /\ out # <<>> /\ Head(out) = "message"
  /\ out' = Tail(out)
  /\ loop' = IF finalized THEN "ended" ELSE "handling"
  /\ UNCHANGED <<result, sawResult, endVars, inputVars, agent, outputs, toolVars>>

\* A result: the context usage is asked for first.
ReadResult ==
  /\ loop = "reading" /\ out # <<>> /\ Head(out) \in {"ok", "error"}
  /\ out' = Tail(out)
  /\ IF finalized
     THEN loop' = "ended" /\ UNCHANGED <<result, sawResult>>
     ELSE loop' = "usage" /\ result' = Head(out) /\ sawResult' = TRUE
  /\ UNCHANGED <<endVars, inputVars, agent, outputs, toolVars>>

\* The stream throws: the turn is cancelled or has failed.
StreamThrows ==
  /\ loop = "reading" /\ out # <<>> /\ Head(out) = "throw"
  /\ out' = Tail(out) /\ loop' = "ended"
  /\ FinalizeTurn(IF cancelling THEN "cancelled" ELSE "failed", "stream")
  /\ UNCHANGED <<result, sawResult, cancelling, inputVars, outputs, choice>>

StreamEnds_NotFinalized ==
  /\ loop = "reading" /\ out = <<>> /\ agent = "gone"
  /\ loop' = "ended"
  /\ UNCHANGED <<result, sawResult, endVars, inputVars, agentVars, toolVars>>

\* The stream ends. After a result of an earlier run nothing finalizes the turn.
StreamEnds ==
  /\ loop = "reading" /\ out = <<>> /\ agent = "gone"
  /\ loop' = "ended"
  /\ IF sawResult
     THEN UNCHANGED <<finalized, status, ends, ending, tool, agent>>
     ELSE FinalizeTurn(IF cancelling THEN "cancelled" ELSE "completed", "stream")
  /\ UNCHANGED <<result, sawResult, cancelling, inputVars, out, outputs, choice>>

\* What a result comes to when no more input is there.
Conclude ==
  IF result = "error"
  THEN loop' = "errors" /\ UNCHANGED <<finalized, status, ends, ending, tool, agent>>
  ELSE loop' = "ended" /\ FinalizeTurn("completed", "result")

UsageRead_NoQueue ==
  /\ loop = "usage"
  /\ IF cancelling
     THEN loop' = "ended" /\ FinalizeTurn("cancelled", "result")
     ELSE Conclude
  /\ UNCHANGED <<result, sawResult, cancelling, inputVars, out, outputs, choice>>

\* The usage is known (or could not be read): cancelled, more input in the queue, or a grace period.
UsageRead ==
  /\ loop = "usage"
  /\ \/ cancelling /\ loop' = "ended" /\ FinalizeTurn("cancelled", "result")
     \/ ~cancelling /\ input.items # <<>> /\ loop' = "reading"
        /\ UNCHANGED <<finalized, status, ends, ending, tool, agent>>
     \/ ~cancelling /\ input.items = <<>> /\ ~input.closed /\ loop' = "grace"
        /\ UNCHANGED <<finalized, status, ends, ending, tool, agent>>
     \/ ~cancelling /\ input.items = <<>> /\ input.closed /\ Conclude
  /\ UNCHANGED <<result, sawResult, cancelling, inputVars, out, outputs, choice>>

\* 1.5 s without input, or the queue was closed.
GraceEnds ==
  /\ loop = "grace"
  /\ Conclude
  /\ UNCHANGED <<result, sawResult, cancelling, inputVars, out, outputs, choice>>

\* The errors were reported as output; the turn has failed.
ErrorsReported ==
  /\ loop = "errors" /\ loop' = "ended"
  /\ FinalizeTurn("failed", "result")
  /\ UNCHANGED <<result, sawResult, cancelling, inputVars, out, outputs, choice>>

-----------------------------------------------------------------------------
\* Steering and the queue.

\* steerTurn: an item goes to the reader that waits, and ends the grace period.
Steer(s) ==
  /\ ~finalized /\ ~input.closed /\ s \notin accepted
  /\ accepted' = accepted \cup {s}
  /\ IF input.reader
     THEN /\ input' = [input EXCEPT !.reader = FALSE]
          /\ heard' = heard \cup {s} /\ agent' = (IF agent = "gone" THEN "gone" ELSE "run")
     ELSE input' = [input EXCEPT !.items = Append(@, s)] /\ UNCHANGED <<heard, agent>>
  /\ loop' = IF loop = "grace" THEN "reading" ELSE loop
  /\ UNCHANGED <<result, sawResult, endVars, out, outputs, toolVars>>

\* The SDK asks for the next input whenever it likes.
AgentReads ==
  /\ agent # "gone" /\ ~input.closed /\ ~input.reader
  /\ IF input.items = <<>>
     THEN input' = [input EXCEPT !.reader = TRUE] /\ UNCHANGED <<heard, agent>>
     ELSE /\ input' = [input EXCEPT !.items = Tail(@)]
          /\ heard' = heard \cup {Head(input.items)} /\ agent' = "run"
  /\ UNCHANGED <<loopVars, endVars, accepted, out, outputs, toolVars>>

\* It sends messages, ends a run with a result, or breaks off.
AgentSends ==
  /\ agent = "run" /\ outputs < MaxAgentOutput
  /\ outputs' = outputs + 1
  /\ \E m \in {"message", "ok", "error", "throw"} :
       /\ m \in {"ok", "error"} => \A t \in Tools : tool[t] \notin {"announcing", "pending", "answering"}
       /\ out' = Append(out, m)
       /\ agent' = CASE m = "message" -> "run" [] m = "throw" -> "gone" [] OTHER -> "idle"
  /\ UNCHANGED <<loopVars, endVars, inputVars, toolVars>>

AgentStops ==
  /\ agent # "gone" /\ agent' = "gone"
  /\ UNCHANGED <<loopVars, endVars, inputVars, out, outputs, toolVars>>

-----------------------------------------------------------------------------
\* Approvals.

\* requestToolApproval: refused at once, or announced. A request may be on its way when the turn ends.
RequestToolApproval(t) ==
  /\ tool[t] = "none" /\ agent = "run"
  /\ IF finalized \/ cancelling
     THEN tool' = [tool EXCEPT ![t] = "denied"] /\ UNCHANGED status
     ELSE tool' = [tool EXCEPT ![t] = "announcing"] /\ status' = "waiting_approval"
  /\ UNCHANGED <<loopVars, finalized, cancelling, ends, ending, inputVars, agentVars, choice>>

\* Registered once its event was delivered, whatever has become of the turn.
ApprovalAnnounced(t) ==
  /\ tool[t] = "announcing"
  /\ tool' = [tool EXCEPT ![t] = "pending"]
  /\ UNCHANGED <<loopVars, endVars, inputVars, agentVars, choice>>

\* resolvePendingApproval: the request leaves the map before its answer is reported.
ResolveToolApproval(t, d) ==
  /\ ~finalized /\ tool[t] = "pending"
  /\ tool' = [tool EXCEPT ![t] = "answering"]
  /\ choice' = [choice EXCEPT ![t] = d]
  /\ status' = "running"
  /\ cancelling' = (cancelling \/ d = "cancel")
  /\ UNCHANGED <<loopVars, finalized, ends, ending, inputVars, agentVars>>

ApprovalAnswered(t) ==
  /\ tool[t] = "answering"
  /\ tool' = [tool EXCEPT ![t] = IF choice[t] = "accept" THEN "allowed" ELSE "denied"]
  /\ UNCHANGED <<loopVars, endVars, inputVars, agentVars, choice>>

\* The SDK withdraws a request.
ApprovalAborted(t) ==
  /\ tool[t] = "pending" /\ agent # "gone"
  /\ tool' = [tool EXCEPT ![t] = "denied"]
  /\ status' = "running"
  /\ UNCHANGED <<loopVars, finalized, cancelling, ends, ending, inputVars, agentVars, choice>>

-----------------------------------------------------------------------------
\* Awaited calls return.
LoopMoves ==
  \/ ClaudeTurnStarted \/ EventDelivered \/ ReadMessage \/ ReadResult \/ StreamThrows \/ StreamEnds
  \/ UsageRead \/ GraceEnds \/ ErrorsReported \/ Finally

ClaudeNext ==
  \/ LoopMoves \/ CancelClaudeTurn \/ AgentReads \/ AgentSends \/ AgentStops
  \/ \E s \in Steers : Steer(s)
  \/ \E t \in Tools :
       \/ RequestToolApproval(t) \/ ApprovalAnnounced(t) \/ ApprovalAnswered(t) \/ ApprovalAborted(t)
       \/ \E d \in {"accept", "decline", "cancel"} : ResolveToolApproval(t, d)

ClaudeSpec == ClaudeInit /\ [][ClaudeNext]_claudeVars

-----------------------------------------------------------------------------
\* A decision that was accepted from a user is the one the agent gets, whatever ends the turn while
\* the answer is being reported (resolvePendingApproval, disposePendingApprovalsForTurn).
DecisionHonoured ==
  \A t \in Tools :
    choice[t] # "none" /\ tool[t] \in {"allowed", "denied"} =>
      (tool[t] = "allowed" <=> choice[t] = "accept")

\* The stream of an ended turn has one terminal event and no request or answer after it that would
\* make its status an active one again (finalizeTurn, requestToolApproval).
EndIsFinal == finalized => ends = 1 /\ status \in TerminalStatus

\* A turn that a result completed has handed every accepted steer to the agent: none is thrown
\* away with the queue (startTurn, AsyncInputQueue).
SteersAreRead == ending = "result" /\ status = "completed" => accepted \subseteq heard

ClaudeSafe == DecisionHonoured /\ EndIsFinal /\ SteersAreRead

\* When the agent has stopped, the turn ends; only one that was steered after a result waits for a
\* cancellation (startTurn).
TurnFollowsAgent == <>[](agent = "gone" => loop = "over" \/ sawResult)
=============================================================================

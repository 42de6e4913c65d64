--------------------------- MODULE Backends_proofs ---------------------------
(***************************************************************************)
(* The safety of the two agent backends, for any number of turns, steers,  *)
(* approvals, messages and processes: a turn of Claude (ClaudeSafe), and   *)
(* the turns that share the worker of Codex (CodexSafe).                   *)
(***************************************************************************)
EXTENDS ClaudeBackend, CodexWorkers, SequenceTheorems, TLAPS

-----------------------------------------------------------------------------
\* A turn of Claude (ClaudeBackend).

\* A request that nobody has decided has no decision, and one that was decided keeps it.
ToolInv ==
  \A t \in Tools :
    /\ tool[t] \in {"none", "announcing", "pending"} => choice[t] = "none"
    /\ tool[t] \in {"allowed", "denied"} /\ choice[t] # "none" => (tool[t] = "allowed" <=> choice[t] = "accept")

\* The end closes the stream and stops the agent, once.
EndInv == IF finalized THEN ends = 1 /\ status \in TerminalStatus /\ agent = "gone"
          ELSE ends = 0 /\ ending = "none"

\* Until the end, an accepted steer is heard or still in an open queue.
QueueInv ==
  /\ ~finalized =>
       ~input.closed /\ \A s \in accepted : s \in heard \/ \E k \in DOMAIN input.items : input.items[k] = s
  /\ loop = "grace" => input.items = <<>>

ClaudeInv == ClaudeTypeOK /\ ToolInv /\ EndInv /\ QueueInv /\ SteersAreRead

LEMMA ClaudeInits == ClaudeInit => ClaudeInv
<1> SUFFICES ASSUME ClaudeInit PROVE ClaudeInv
  OBVIOUS
<1>1. <<Prompt>> \in Seq(Steers \cup {Prompt}) /\ <<>> \in Seq({"message", "ok", "error", "throw"})
  OBVIOUS
<1>2. ClaudeTypeOK
  <2>1. input \in [items : Seq(Steers \cup {Prompt}), closed : BOOLEAN, reader : BOOLEAN]
    BY <1>1 DEF ClaudeInit
  <2>2. out \in Seq({"message", "ok", "error", "throw"}) /\ outputs \in 0..MaxAgentOutput
    BY <1>1, ClaudeAssumption DEF ClaudeInit
  <2> QED
    <3>1. /\ tool \in [Tools -> {"none", "announcing", "pending", "answering", "allowed", "denied"}]
          /\ choice \in [Tools -> {"none", "accept", "decline", "cancel"}]
      BY DEF ClaudeInit
    <3>2. heard \subseteq Steers \cup {Prompt} /\ accepted \subseteq Steers /\ ends \in 0..1
      BY DEF ClaudeInit
    <3>3. loop = "starting" /\ result = "none" /\ ~sawResult /\ sawResult \in BOOLEAN /\ finalized \in BOOLEAN
          /\ cancelling \in BOOLEAN /\ status = "running" /\ ending = "none" /\ agent = "idle"
      BY DEF ClaudeInit
    <3> QED
      BY <2>1, <2>2, <3>1, <3>2, <3>3 DEF ClaudeTypeOK
<1>3. ToolInv /\ EndInv /\ QueueInv /\ SteersAreRead
  BY DEF ClaudeInit, ToolInv, EndInv, QueueInv, SteersAreRead
<1> QED
  BY <1>2, <1>3 DEF ClaudeInv

\* The first end counts, and disposes only of requests nobody has decided.
LEMMA Finalizes ==
  ASSUME ClaudeInv, NEW type \in TerminalStatus, NEW by \in {"result", "stream", "cancel"},
         FinalizeTurn(type, by), UNCHANGED <<heard, accepted, choice>>,
         by = "result" /\ type = "completed" /\ ~finalized => accepted \subseteq heard
  PROVE  /\ finalized' = TRUE /\ status' \in TerminalStatus /\ ends' \in 0..1
         /\ ending' \in {"none", "result", "stream", "cancel"} /\ agent' = "gone"
         /\ tool' \in [Tools -> {"none", "announcing", "pending", "answering", "allowed", "denied"}]
         /\ ToolInv' /\ EndInv' /\ SteersAreRead'
<1>1. CASE finalized
  BY <1>1 DEF FinalizeTurn, ClaudeInv, ClaudeTypeOK, ToolInv, EndInv, SteersAreRead
<1>2. CASE ~finalized
  <2>1. finalized' = TRUE /\ status' = type /\ ends' = 1 /\ ending' = by /\ agent' = "gone" /\ tool' = Disposed
    BY <1>2 DEF FinalizeTurn, ClaudeInv, EndInv
  <2>2. \A t \in Tools : tool'[t] = IF tool[t] = "pending" THEN "denied" ELSE tool[t]
    BY <2>1 DEF Disposed
  <2>3. tool' \in [Tools -> {"none", "announcing", "pending", "answering", "allowed", "denied"}]
    BY <2>1 DEF Disposed, ClaudeInv, ClaudeTypeOK
  <2>4. ToolInv'
    BY <2>2 DEF ToolInv, ClaudeInv
  <2>5. EndInv' /\ SteersAreRead'
    BY <1>2, <2>1 DEF EndInv, SteersAreRead
  <2> QED
    BY <2>1, <2>3, <2>4, <2>5
<1> QED
  BY <1>1, <1>2

LEMMA ClaudeKept == ClaudeInv /\ [ClaudeNext]_claudeVars => ClaudeInv'
<1> SUFFICES ASSUME ClaudeInv, [ClaudeNext]_claudeVars PROVE ClaudeInv'
  OBVIOUS
<1> USE DEF loopVars, endVars, inputVars, agentVars, toolVars
<1>t. ClaudeTypeOK /\ ToolInv /\ EndInv /\ QueueInv /\ SteersAreRead
  BY DEF ClaudeInv
<1>q. /\ input \in [items : Seq(Steers \cup {Prompt}), closed : BOOLEAN, reader : BOOLEAN]
      /\ CloseQueue(input) \in [items : Seq(Steers \cup {Prompt}), closed : BOOLEAN, reader : BOOLEAN]
      /\ CloseQueue(input).items = <<>>
  <2>1. <<>> \in Seq(Steers \cup {Prompt})
    OBVIOUS
  <2>2. input \in [items : Seq(Steers \cup {Prompt}), closed : BOOLEAN, reader : BOOLEAN]
    BY <1>t DEF ClaudeTypeOK
  <2> QED
    BY <2>1, <2>2 DEF CloseQueue
<1>o. out # <<>> => Tail(out) \in Seq({"message", "ok", "error", "throw"})
  BY <1>t DEF ClaudeTypeOK
<1>1. CASE UNCHANGED claudeVars
  BY <1>t, <1>1 DEF claudeVars, ClaudeInv, ClaudeTypeOK, ToolInv, EndInv, QueueInv, SteersAreRead
\* Steps of the loop that end nothing.
<1>2. ASSUME UNCHANGED <<endVars, inputVars, agent, outputs, toolVars>>,
             loop' \in {"starting", "reading", "handling", "usage", "errors", "ended", "over"} \/ (loop' = "grace" /\ input.items = <<>>),
             result' \in {"none", "ok", "error"}, sawResult' \in BOOLEAN,
             out' \in Seq({"message", "ok", "error", "throw"})
      PROVE  ClaudeInv'
  <2>1. ClaudeTypeOK'
    BY <1>t, <1>2 DEF ClaudeTypeOK
  <2>2. ToolInv' /\ EndInv'
    BY <1>t, <1>2 DEF ToolInv, EndInv
  <2>3. QueueInv' /\ SteersAreRead'
    BY <1>t, <1>2 DEF QueueInv, SteersAreRead
  <2> QED
    BY <2>1, <2>2, <2>3 DEF ClaudeInv
<1>3. CASE ClaudeTurnStarted \/ EventDelivered \/ ReadMessage \/ ReadResult
  <2>1. CASE ClaudeTurnStarted \/ EventDelivered
    BY <1>2, <1>t, <2>1 DEF ClaudeTurnStarted, EventDelivered, Delivered, ClaudeTypeOK
  <2>2. CASE ReadMessage
    BY <1>2, <1>o, <1>t, <2>2 DEF ReadMessage, ClaudeTypeOK
  <2>3. CASE ReadResult
    BY <1>2, <1>o, <1>t, <2>3 DEF ReadResult, ClaudeTypeOK
  <2> QED
    BY <1>3, <2>1, <2>2, <2>3
\* Steps that end the turn.
<1>4. ASSUME NEW type \in TerminalStatus, NEW by \in {"result", "stream", "cancel"}, FinalizeTurn(type, by),
             UNCHANGED <<result, sawResult, heard, accepted, outputs, choice>>,
             by = "result" /\ type = "completed" /\ ~finalized => accepted \subseteq heard,
             loop' = "ended" \/ (loop' = loop /\ input' = CloseQueue(input)),
             input' \in {input, CloseQueue(input)}, cancelling' \in BOOLEAN,
             out' \in Seq({"message", "ok", "error", "throw"})
      PROVE  ClaudeInv'
  <2>1. /\ finalized' = TRUE /\ status' \in TerminalStatus /\ ends' \in 0..1
        /\ ending' \in {"none", "result", "stream", "cancel"} /\ agent' = "gone"
        /\ tool' \in [Tools -> {"none", "announcing", "pending", "answering", "allowed", "denied"}]
        /\ ToolInv' /\ EndInv' /\ SteersAreRead'
    BY <1>4, Finalizes
  <2>2. input' \in [items : Seq(Steers \cup {Prompt}), closed : BOOLEAN, reader : BOOLEAN]
    BY <1>4, <1>q
  <2>3. loop' \in {"starting", "reading", "handling", "usage", "grace", "errors", "ended", "over"}
    BY <1>4, <1>t DEF ClaudeTypeOK
  <2>4. ClaudeTypeOK'
    BY <1>4, <1>t, <2>1, <2>2, <2>3 DEF ClaudeTypeOK
  <2>5. QueueInv'
    BY <1>4, <1>q, <2>1 DEF QueueInv
  <2> QED
    BY <2>1, <2>4, <2>5 DEF ClaudeInv
<1>5. CASE StreamThrows
  BY <1>4, <1>5, <1>o, <1>t DEF StreamThrows, TerminalStatus, ClaudeTypeOK
<1>6. CASE StreamEnds
  <2>1. CASE sawResult
    BY <1>2, <1>6, <1>t, <2>1 DEF StreamEnds, ClaudeTypeOK
  <2>2. CASE ~sawResult
    BY <1>4, <1>6, <1>t, <2>2 DEF StreamEnds, TerminalStatus, ClaudeTypeOK
  <2> QED
    BY <2>1, <2>2
\* A result concludes with an empty queue.
<1>7. ASSUME Conclude, input.items = <<>>,
             UNCHANGED <<result, sawResult, cancelling, inputVars, out, outputs, choice>>
      PROVE  ClaudeInv'
  <2>1. ~finalized => accepted \subseteq heard
    BY <1>7, <1>t DEF QueueInv
  <2>2. CASE result = "error"
    BY <1>2, <1>7, <1>t, <2>2 DEF Conclude, ClaudeTypeOK
  <2>3. CASE result # "error"
    BY <1>4, <1>7, <1>t, <2>1, <2>3 DEF Conclude, ClaudeTypeOK, TerminalStatus
  <2> QED
    BY <2>2, <2>3
<1>8. CASE UsageRead
  <2>1. CASE cancelling
    BY <1>4, <1>8, <1>t, <2>1 DEF UsageRead, ClaudeTypeOK, TerminalStatus
  <2>2. CASE ~cancelling /\ (input.items # <<>> \/ ~input.closed)
    BY <1>2, <1>8, <1>t, <2>2 DEF UsageRead, ClaudeTypeOK
  <2>3. CASE ~cancelling /\ input.items = <<>> /\ input.closed
    BY <1>7, <1>8, <2>3 DEF UsageRead
  <2> QED
    BY <2>1, <2>2, <2>3
<1>9. CASE GraceEnds
  BY <1>7, <1>9, <1>t DEF GraceEnds, QueueInv
<1>10. CASE ErrorsReported
  BY <1>4, <1>10, <1>t DEF ErrorsReported, ClaudeTypeOK, TerminalStatus
<1>11. CASE Finally
  <2>1. tool' \in [Tools -> {"none", "announcing", "pending", "answering", "allowed", "denied"}]
    BY <1>11, <1>t DEF Finally, Disposed, ClaudeTypeOK
  <2>2. \A t \in Tools : tool'[t] = IF tool[t] = "pending" THEN "denied" ELSE tool[t]
    BY <1>11 DEF Finally, Disposed
  <2>3. ToolInv'
    BY <1>11, <1>t, <2>2 DEF Finally, ToolInv
  <2>4. ClaudeTypeOK'
    BY <1>11, <1>t, <1>q, <2>1 DEF Finally, ClaudeTypeOK
  <2>5. EndInv' /\ QueueInv' /\ SteersAreRead'
    BY <1>11, <1>t DEF Finally, EndInv, QueueInv, SteersAreRead
  <2> QED
    BY <2>3, <2>4, <2>5 DEF ClaudeInv
<1>12. CASE CancelClaudeTurn
  BY <1>4, <1>12, <1>t DEF CancelClaudeTurn, ClaudeTypeOK, TerminalStatus
\* Steps of the queue, before the end.
<1>13. ASSUME ~finalized, NEW s \in Steers, Steer(s) PROVE ClaudeInv'
  <2> DEFINE q == Append(input.items, s)
  <2>1. q \in Seq(Steers \cup {Prompt}) /\ Len(q) = Len(input.items) + 1 /\ q[Len(q)] = s
        /\ \A k \in DOMAIN input.items : k \in DOMAIN q /\ q[k] = input.items[k]
    BY <1>q
  <2>2. CASE input.reader
    <3>1. input' = [input EXCEPT !.reader = FALSE] /\ heard' = heard \cup {s} /\ accepted' = accepted \cup {s}
      BY <1>13, <2>2 DEF Steer
    <3>2. ClaudeTypeOK'
      <4>1. input' \in [items : Seq(Steers \cup {Prompt}), closed : BOOLEAN, reader : BOOLEAN]
        BY <1>q, <3>1
      <4>2. loop' \in {"starting", "reading", "handling", "usage", "grace", "errors", "ended", "over"}
        BY <1>13, <1>t DEF Steer, ClaudeTypeOK
      <4>3. agent' \in {"run", "idle", "gone"}
        BY <1>13, <1>t, <2>2 DEF Steer, ClaudeTypeOK
      <4> QED
        BY <1>13, <1>t, <3>1, <4>1, <4>2, <4>3 DEF Steer, ClaudeTypeOK
    <3>3. QueueInv'
      BY <1>13, <1>t, <1>q, <3>1 DEF Steer, QueueInv
    <3>4. ToolInv' /\ EndInv' /\ SteersAreRead'
      BY <1>13, <1>t, <3>1 DEF Steer, ToolInv, EndInv, SteersAreRead, TerminalStatus, ClaudeTypeOK
    <3> QED
      BY <3>2, <3>3, <3>4 DEF ClaudeInv
  <2>3. CASE ~input.reader
    <3>1. input' = [input EXCEPT !.items = q] /\ heard' = heard /\ accepted' = accepted \cup {s} /\ agent' = agent
      BY <1>13, <2>3 DEF Steer
    <3>2. /\ input' \in [items : Seq(Steers \cup {Prompt}), closed : BOOLEAN, reader : BOOLEAN]
          /\ input'.items = q /\ input'.closed = input.closed
      BY <1>q, <2>1, <3>1
    <3> HIDE DEF q
    <3>3. ClaudeTypeOK'
      BY <1>13, <1>t, <3>1, <3>2 DEF Steer, ClaudeTypeOK
    <3>4. loop' # "grace"
      BY <1>13 DEF Steer
    <3>5. \A r \in accepted' : r \in heard' \/ \E k \in DOMAIN q : q[k] = r
      <4>1. Len(q) \in DOMAIN q
        BY <2>1, <1>q DEF q
      <4> QED
        BY <1>13, <1>t, <2>1, <3>1, <4>1 DEF QueueInv
    <3>6. QueueInv'
      BY <1>13, <1>t, <3>2, <3>4, <3>5 DEF QueueInv
    <3>7. ToolInv' /\ EndInv' /\ SteersAreRead'
      BY <1>13, <1>t, <3>1 DEF Steer, ToolInv, EndInv, SteersAreRead
    <3> QED
      BY <3>3, <3>6, <3>7 DEF ClaudeInv
  <2> QED
    BY <2>2, <2>3
<1>14. CASE AgentReads
  <2>0. ~finalized /\ ~input.closed
    BY <1>14, <1>t DEF AgentReads, EndInv
  <2>1. CASE input.items = <<>>
    <3>1. input' = [input EXCEPT !.reader = TRUE] /\ UNCHANGED <<heard, agent>>
      BY <1>14, <2>1 DEF AgentReads
    <3>2. input' \in [items : Seq(Steers \cup {Prompt}), closed : BOOLEAN, reader : BOOLEAN]
          /\ input'.items = input.items /\ input'.closed = input.closed
      BY <1>q, <3>1
    <3>3. ClaudeTypeOK'
      BY <1>14, <1>t, <3>1, <3>2 DEF AgentReads, ClaudeTypeOK
    <3>4. QueueInv'
      BY <1>14, <1>t, <3>1, <3>2 DEF AgentReads, QueueInv
    <3>5. ToolInv' /\ EndInv' /\ SteersAreRead'
      BY <1>14, <1>t, <3>1 DEF AgentReads, ToolInv, EndInv, SteersAreRead
    <3> QED
      BY <3>3, <3>4, <3>5 DEF ClaudeInv
  <2>2. CASE input.items # <<>>
    <3>1. /\ input' = [input EXCEPT !.items = Tail(@)]
          /\ heard' = heard \cup {Head(input.items)} /\ agent' = "run"
      BY <1>14, <2>2 DEF AgentReads
    <3>2. /\ input' \in [items : Seq(Steers \cup {Prompt}), closed : BOOLEAN, reader : BOOLEAN]
          /\ input'.items = Tail(input.items) /\ input'.closed = input.closed
      <4>1. Tail(input.items) \in Seq(Steers \cup {Prompt})
        BY <1>q, <2>2
      <4> QED
        BY <1>q, <3>1, <4>1
    <3>3. Head(input.items) \in Steers \cup {Prompt}
      BY <1>q, <2>2
    <3>4. ClaudeTypeOK'
      BY <1>14, <1>t, <3>1, <3>2, <3>3 DEF AgentReads, ClaudeTypeOK
    <3>5. loop' # "grace"
      BY <1>14, <1>t, <2>2 DEF AgentReads, QueueInv
    <3>6. \A s \in accepted : s \in heard' \/ \E k \in DOMAIN Tail(input.items) : Tail(input.items)[k] = s
      <4> SUFFICES ASSUME NEW s \in accepted, s \notin heard'
                   PROVE  \E k \in DOMAIN Tail(input.items) : Tail(input.items)[k] = s
        OBVIOUS
      <4>1. PICK k \in DOMAIN input.items : input.items[k] = s
        BY <1>t, <2>0, <3>1 DEF QueueInv
      <4>2. k \in 2..Len(input.items)
        BY <1>q, <2>2, <3>1, <4>1
      <4>3. k - 1 \in DOMAIN Tail(input.items) /\ Tail(input.items)[k - 1] = s
        BY <1>q, <2>2, <4>1, <4>2
      <4> QED
        BY <4>3
    <3>7. QueueInv'
      BY <1>14, <2>0, <3>2, <3>5, <3>6 DEF AgentReads, QueueInv
    <3>8. ToolInv' /\ EndInv' /\ SteersAreRead'
      BY <1>14, <1>t, <2>0, <3>1 DEF AgentReads, ToolInv, EndInv, SteersAreRead
    <3> QED
      BY <3>4, <3>7, <3>8 DEF ClaudeInv
  <2> QED
    BY <2>1, <2>2
<1>15. CASE AgentSends
  <2>0. ~finalized
    BY <1>15, <1>t DEF AgentSends, EndInv
  <2>1. PICK m \in {"message", "ok", "error", "throw"} :
          /\ out' = Append(out, m)
          /\ agent' = CASE m = "message" -> "run" [] m = "throw" -> "gone" [] OTHER -> "idle"
    BY <1>15 DEF AgentSends
  <2>2. out' \in Seq({"message", "ok", "error", "throw"}) /\ agent' \in {"run", "idle", "gone"}
    BY <1>t, <2>1 DEF ClaudeTypeOK
  <2>3. outputs' \in 0..MaxAgentOutput
    BY <1>15, <1>t, ClaudeAssumption DEF AgentSends, ClaudeTypeOK
  <2>4. ClaudeTypeOK'
    BY <1>15, <1>t, <2>2, <2>3 DEF AgentSends, ClaudeTypeOK
  <2>5. ToolInv' /\ EndInv' /\ QueueInv' /\ SteersAreRead'
    BY <1>15, <1>t, <2>0 DEF AgentSends, ToolInv, EndInv, QueueInv, SteersAreRead
  <2> QED
    BY <2>4, <2>5 DEF ClaudeInv
<1>16. CASE AgentStops
  BY <1>16, <1>t DEF AgentStops, ClaudeInv, ClaudeTypeOK, ToolInv, EndInv, QueueInv, SteersAreRead
\* Steps of a request for approval.
<1>17. ASSUME NEW t \in Tools, NEW a \in {"announcing", "pending", "answering", "allowed", "denied"},
              NEW d \in {"none", "accept", "decline", "cancel"},
              tool' = [tool EXCEPT ![t] = a], choice' = [choice EXCEPT ![t] = d],
              a \in {"announcing", "pending"} => d = "none",
              a \in {"allowed", "denied"} /\ d # "none" => (a = "allowed" <=> d = "accept"),
              UNCHANGED <<loopVars, finalized, ends, ending, inputVars, agentVars>>,
              status' = status \/ (~finalized /\ status' \in {"running", "waiting_approval"}),
              cancelling' \in BOOLEAN
       PROVE  ClaudeInv'
  <2>1. ClaudeTypeOK'
    BY <1>17, <1>t DEF ClaudeTypeOK
  <2>2. ToolInv'
    BY <1>17, <1>t DEF ToolInv, ClaudeTypeOK
  <2>3. EndInv' /\ QueueInv' /\ SteersAreRead'
    BY <1>17, <1>t DEF EndInv, QueueInv, SteersAreRead
  <2> QED
    BY <2>1, <2>2, <2>3 DEF ClaudeInv
<1>18. ASSUME NEW t \in Tools PROVE [choice EXCEPT ![t] = choice[t]] = choice
  BY <1>t DEF ClaudeTypeOK
<1>19. ASSUME NEW t \in Tools, RequestToolApproval(t) PROVE ClaudeInv'
  <2>1. choice[t] = "none" /\ choice' = [choice EXCEPT ![t] = "none"] /\ ~finalized
    BY <1>19, <1>18, <1>t DEF RequestToolApproval, ToolInv, EndInv
  <2> QED
    BY <1>17, <1>19, <1>t, <2>1 DEF RequestToolApproval, ClaudeTypeOK
<1>20. ASSUME NEW t \in Tools, ApprovalAnnounced(t) PROVE ClaudeInv'
  <2>1. choice[t] = "none" /\ choice' = [choice EXCEPT ![t] = "none"]
    BY <1>20, <1>18, <1>t DEF ApprovalAnnounced, ToolInv
  <2> QED
    BY <1>17, <1>20, <1>t, <2>1 DEF ApprovalAnnounced, ClaudeTypeOK
<1>21. ASSUME NEW t \in Tools, ApprovalAborted(t) PROVE ClaudeInv'
  <2>1. choice[t] = "none" /\ choice' = [choice EXCEPT ![t] = "none"] /\ ~finalized
    BY <1>21, <1>18, <1>t DEF ApprovalAborted, ToolInv, EndInv
  <2> QED
    BY <1>17, <1>21, <1>t, <2>1 DEF ApprovalAborted, ClaudeTypeOK
<1>22. ASSUME NEW t \in Tools, NEW d \in {"accept", "decline", "cancel"}, ResolveToolApproval(t, d) PROVE ClaudeInv'
  BY <1>17, <1>22, <1>t DEF ResolveToolApproval, ClaudeTypeOK
<1>23. ASSUME NEW t \in Tools, ApprovalAnswered(t) PROVE ClaudeInv'
  <2> DEFINE a == IF choice[t] = "accept" THEN "allowed" ELSE "denied"
  <2>1. choice' = [choice EXCEPT ![t] = choice[t]] /\ tool' = [tool EXCEPT ![t] = a]
    BY <1>23, <1>18 DEF ApprovalAnswered
  <2>2. choice[t] \in {"none", "accept", "decline", "cancel"} /\ a \in {"allowed", "denied"}
    BY <1>t DEF ClaudeTypeOK
  <2> QED
    BY <1>17, <1>23, <1>t, <2>1, <2>2 DEF ApprovalAnswered, ClaudeTypeOK
<1>24. ASSUME NEW s \in Steers, Steer(s) PROVE ClaudeInv'
  BY <1>13, <1>24 DEF Steer
<1> QED
  BY <1>1, <1>3, <1>5, <1>6, <1>8, <1>9, <1>10, <1>11, <1>12, <1>14, <1>15, <1>16,
     <1>19, <1>20, <1>21, <1>22, <1>23, <1>24 DEF ClaudeNext, LoopMoves

\* A decision accepted from a user is the one the agent gets, an ended turn has one terminal event and a
\* terminal status, and a result completes a turn only when every accepted steer was handed to
\* the agent (claude-backend.ts).
THEOREM ClaudeIsSafe == ClaudeSpec => []ClaudeSafe
<1>1. ClaudeInv => ClaudeSafe
  BY DEF ClaudeInv, ToolInv, EndInv, ClaudeSafe, DecisionHonoured, EndIsFinal
<1> QED
  BY <1>1, ClaudeInits, ClaudeKept, PTL DEF ClaudeSpec

-----------------------------------------------------------------------------
\* Sequences.

LEMMA RemoveAtFacts ==
  ASSUME NEW S, NEW q \in Seq(S), NEW k \in 1..Len(q)
  PROVE  /\ RemoveAt(q, k) \in Seq(S) /\ Len(RemoveAt(q, k)) = Len(q) - 1
         /\ \A j \in 1..(Len(q) - 1) : RemoveAt(q, k)[j] = IF j < k THEN q[j] ELSE q[j + 1]
<1> DEFINE a == SubSeq(q, 1, k - 1)
           b == SubSeq(q, k + 1, Len(q))
<1>1. a \in Seq(S) /\ Len(a) = k - 1 /\ \A j \in 1..(k - 1) : a[j] = q[j]
  OBVIOUS
<1>2. b \in Seq(S) /\ Len(b) = Len(q) - k /\ \A j \in 1..(Len(q) - k) : b[j] = q[j + k]
  OBVIOUS
<1>3. RemoveAt(q, k) = a \o b
  BY DEF RemoveAt
<1> HIDE DEF a, b
<1>4. a \o b \in Seq(S) /\ Len(a \o b) = Len(q) - 1
  <2>1. a \o b \in Seq(S)
    BY <1>1, <1>2
  <2>2. Len(a \o b) = Len(a) + Len(b)
    BY <1>1, <1>2, ConcatProperties
  <2> QED
    BY <1>1, <1>2, <2>1, <2>2
<1>5. ASSUME NEW j \in 1..(Len(q) - 1) PROVE (a \o b)[j] = IF j < k THEN q[j] ELSE q[j + 1]
  <2>1. CASE j < k
    BY <1>1, <1>2, <2>1
  <2>2. CASE ~(j < k)
    <3>1. j - (k - 1) \in 1..(Len(q) - k) /\ (a \o b)[j] = b[j - (k - 1)]
      BY <1>1, <1>2, <2>2
    <3>2. b[j - (k - 1)] = q[(j - (k - 1)) + k]
      BY <1>2, <3>1
    <3> QED
      BY <2>2, <3>1, <3>2
  <2> QED
    BY <2>1, <2>2
<1> QED
  BY <1>3, <1>4, <1>5

-----------------------------------------------------------------------------
\* The turns of the Codex worker (CodexWorkers).

Run == [pc : {"idle", "ready", "resume", "thread", "start", "running", "over"},
        gen : 0..MaxWorkers, final : BOOLEAN, thread : Thread, native : Turns \cup {NoTurn}]
Note == [gen : Nat, kind : {"completed", "approval"}, of : Turns, id : Nat]

\* A native turn and a thread belong to their turn, but for the thread of a session, of which one turn
\* is active at a time; whatever an agent sends comes after the thread is known.
CodexInv ==
  /\ worker \in [gen : 0..MaxWorkers, state : {"up", "closed"}, init : {"asked", "ready", "failed"}, next : Nat]
  /\ runs \in [Turns -> Run] /\ agents \in [Turns -> {"none", "running", "done"}]
  /\ notes \in Seq(Note) /\ cancels \subseteq Turns
  /\ prefers \in [Turns -> {"shared", "none"}] /\ misgiven \in BOOLEAN /\ borrowed \in BOOLEAN
  /\ \A t \in Turns : runs[t].native \in {t, NoTurn}
  /\ \A t \in Turns : runs[t].thread \in {"none", t} \/ (runs[t].thread = "shared" /\ prefers[t] = "shared")
  /\ \A t \in Turns : runs[t].pc = "resume" => prefers[t] = "shared"
  /\ \A t, u \in Turns : t # u /\ Active(t) /\ Active(u) => prefers[t] # "shared" \/ prefers[u] # "shared"
  /\ \A t \in Turns : runs[t].pc = "start" \/ agents[t] # "none" => runs[t].thread # "none"
  /\ \A k \in DOMAIN notes : runs[notes[k].of].thread # "none"
  /\ \A t \in cancels : runs[t].native # NoTurn
  /\ CodexSafe

LEMMA CodexInits == CodexInit => CodexInv
<1> SUFFICES ASSUME CodexInit PROVE CodexInv
  OBVIOUS
<1>1. /\ runs = [t \in Turns |-> [pc |-> "idle", gen |-> 0, final |-> FALSE, thread |-> "none", native |-> NoTurn]]
      /\ agents = [t \in Turns |-> "none"] /\ notes = <<>> /\ cancels = {}
      /\ worker = [gen |-> 0, state |-> "closed", init |-> "failed", next |-> 1]
  BY DEF CodexInit
<1>2. runs \in [Turns -> Run]
  <2>1. [pc |-> "idle", gen |-> 0, final |-> FALSE, thread |-> "none", native |-> NoTurn] \in Run
    BY CodexAssumption DEF Run, Thread
  <2> QED
    BY <1>1, <2>1
<1>3. worker \in [gen : 0..MaxWorkers, state : {"up", "closed"}, init : {"asked", "ready", "failed"}, next : Nat]
  BY <1>1, CodexAssumption
<1>4. \A t \in Turns : runs[t].native = NoTurn /\ runs[t].thread = "none" /\ runs[t].pc = "idle" /\ agents[t] = "none"
  BY <1>1
<1>5. notes \in Seq(Note) /\ DOMAIN notes = {} /\ agents \in [Turns -> {"none", "running", "done"}]
  BY <1>1
<1>6. CodexSafe /\ misgiven \in BOOLEAN /\ borrowed \in BOOLEAN /\ prefers \in [Turns -> {"shared", "none"}]
  BY DEF CodexInit, CodexSafe
<1> QED
  BY <1>1, <1>2, <1>3, <1>4, <1>5, <1>6 DEF CodexInv, Active

\* A step that starts no turn and names no thread.
LEMMA CodexStays ==
  ASSUME CodexInv, UNCHANGED <<prefers, misgiven, borrowed>>,
         worker' \in [gen : 0..MaxWorkers, state : {"up", "closed"}, init : {"asked", "ready", "failed"}, next : Nat],
         runs' \in [Turns -> Run], agents' \in [Turns -> {"none", "running", "done"}],
         notes' \in Seq(Note), cancels' \subseteq Turns,
         \A t \in Turns : runs'[t].thread = runs[t].thread /\ runs'[t].native = runs[t].native
                          /\ (Active(t)' => Active(t))
                          /\ (runs'[t].pc = "resume" => runs[t].pc = "resume" \/ prefers[t] = "shared")
                          /\ (runs'[t].pc = "start" => runs[t].pc = "start"),
         \A t \in Turns : agents'[t] # "none" => agents[t] # "none" \/ runs[t].pc = "start",
         \A k \in DOMAIN notes' : agents[notes'[k].of] # "none" \/ \E j \in DOMAIN notes : notes'[k].of = notes[j].of,
         \A t \in cancels' : t \in cancels \/ runs[t].native # NoTurn
  PROVE  CodexInv'
<1>1. \A t \in Turns : runs'[t].native \in {t, NoTurn}
  BY DEF CodexInv
<1>2. \A t \in Turns : runs'[t].thread \in {"none", t} \/ (runs'[t].thread = "shared" /\ prefers[t] = "shared")
  BY DEF CodexInv
<1>3. \A t \in Turns : runs'[t].pc = "resume" => prefers[t] = "shared"
  BY DEF CodexInv
<1>4. \A t, u \in Turns : t # u /\ Active(t)' /\ Active(u)' => prefers[t] # "shared" \/ prefers[u] # "shared"
  BY DEF CodexInv
<1>5. \A t \in Turns : runs'[t].pc = "start" \/ agents'[t] # "none" => runs'[t].thread # "none"
  BY DEF CodexInv
<1>6. \A k \in DOMAIN notes' : runs'[notes'[k].of].thread # "none"
  <2> SUFFICES ASSUME NEW k \in DOMAIN notes' PROVE runs'[notes'[k].of].thread # "none"
    OBVIOUS
  <2>1. notes'[k] \in Note
    OBVIOUS
  <2>2. notes'[k].of \in Turns
    BY <2>1 DEF Note
  <2>3. CASE agents[notes'[k].of] # "none"
    <3>1. runs[notes'[k].of].thread # "none"
      BY <2>2, <2>3 DEF CodexInv
    <3> QED
      BY <2>2, <3>1
  <2>4. CASE \E j \in DOMAIN notes : notes'[k].of = notes[j].of
    <3>1. PICK j \in DOMAIN notes : notes'[k].of = notes[j].of
      BY <2>4
    <3>2. runs[notes[j].of].thread # "none"
      BY DEF CodexInv
    <3> QED
      BY <2>2, <3>1, <3>2
  <2> QED
    BY <2>3, <2>4
<1>7. \A t \in cancels' : runs'[t].native # NoTurn
  BY DEF CodexInv
<1>8. CodexSafe' /\ misgiven' \in BOOLEAN /\ borrowed' \in BOOLEAN /\ prefers' \in [Turns -> {"shared", "none"}]
  BY DEF CodexInv, CodexSafe
<1>9. \A t, u \in Turns : (t # u /\ Active(t) /\ Active(u) => prefers[t] # "shared" \/ prefers[u] # "shared")'
  BY <1>4
<1> QED
  BY <1>1, <1>2, <1>3, <1>5, <1>6, <1>7, <1>8, <1>9 DEF CodexInv

\* Ending a run.
LEMMA EndedFacts ==
  ASSUME NEW r \in Run
  PROVE  /\ Ended(r) \in Run /\ [Ended(r) EXCEPT !.pc = "over"] \in Run
         /\ Ended(r).final = TRUE /\ Ended(r).thread = r.thread /\ Ended(r).native = r.native
         /\ Ended(r).pc \in {r.pc, "over"}
         /\ [Ended(r) EXCEPT !.pc = "over"].final = TRUE /\ [Ended(r) EXCEPT !.pc = "over"].thread = r.thread
         /\ [Ended(r) EXCEPT !.pc = "over"].native = r.native /\ [Ended(r) EXCEPT !.pc = "over"].pc = "over"
BY DEF Ended, Run

\* No step changes what CodexStays keeps but ones that start a turn, name a thread or a native turn.
LEMMA CodexKept == CodexInv /\ [CodexNext]_codexVars => CodexInv'
<1> SUFFICES ASSUME CodexInv, [CodexNext]_codexVars PROVE CodexInv'
  OBVIOUS
<1> USE DEF approvalVars
<1>t. /\ worker \in [gen : 0..MaxWorkers, state : {"up", "closed"}, init : {"asked", "ready", "failed"}, next : Nat]
      /\ runs \in [Turns -> Run] /\ agents \in [Turns -> {"none", "running", "done"}]
      /\ notes \in Seq(Note) /\ cancels \subseteq Turns
  BY DEF CodexInv
<1>0. ASSUME UNCHANGED <<prefers, misgiven, borrowed, worker, runs, agents, notes, cancels>> PROVE CodexInv'
  BY <1>0 DEF CodexInv, Active, CodexSafe
<1>1. CASE UNCHANGED codexVars
  BY <1>0, <1>1 DEF codexVars
<1>2. ASSUME NEW t \in Turns, DisposeNext(t) \/ \E i \in Ids : ResolvePendingApproval(t, i) PROVE CodexInv'
  <2>1. misgiven' = misgiven
    <3>1. misgiven \in BOOLEAN
      BY DEF CodexInv
    <3>2. CASE DisposeNext(t)
      BY <3>2 DEF DisposeNext, DisposeOne
    <3>3. ASSUME NEW i \in Ids, ResolvePendingApproval(t, i) PROVE misgiven' = misgiven
      BY <3>1, <3>3 DEF ResolvePendingApproval, Decide
    <3> QED
      BY <1>2, <3>2, <3>3
  <2> QED
    BY <1>0, <1>2, <2>1 DEF DisposeNext, ResolvePendingApproval, Decide
<1>3. CASE CallMoves
  BY <1>0, <1>3 DEF CallMoves, CallSends, CallAnswered, CallRejected
\* The process.
<1>4. ASSUME UNCHANGED <<prefers, misgiven, borrowed, runs, notes, cancels>>,
             worker' \in [gen : 0..MaxWorkers, state : {"up", "closed"}, init : {"asked", "ready", "failed"}, next : Nat],
             agents' \in {agents, Stopped}
      PROVE  CodexInv'
  <2>1. /\ agents' \in [Turns -> {"none", "running", "done"}]
        /\ \A t \in Turns : agents'[t] # "none" => agents[t] # "none"
    BY <1>4, <1>t DEF Stopped
  <2>2. \A t \in Turns : Active(t)' => Active(t)
    BY <1>4 DEF Active
  <2> QED
    BY <1>4, <1>t, <2>1, <2>2, CodexStays
<1>5. EnsureCodexWorker =>
        worker' \in [gen : 0..MaxWorkers, state : {"up", "closed"}, init : {"asked", "ready", "failed"}, next : Nat]
  BY <1>t, CodexAssumption DEF EnsureCodexWorker
<1>6. CASE WorkerMoves
  BY <1>4, <1>6, <1>t DEF WorkerMoves, InitializeAnswered, InitializeTimesOut
<1>7. CASE ResetWorker
  BY <1>4, <1>7, <1>t DEF ResetWorker
<1>8. CASE CallWorker
  BY <1>4, <1>5, <1>8 DEF CallWorker
\* A turn ends, and nothing else that matters here.
<1>r. ASSUME notes' = notes \/ \E k \in DOMAIN notes : notes' = RemoveAt(notes, k)
      PROVE  notes' \in Seq(Note) /\ \A k \in DOMAIN notes' : \E j \in DOMAIN notes : notes'[k].of = notes[j].of
  <2>1. CASE notes' = notes
    BY <1>t, <2>1
  <2>2. ASSUME NEW k \in DOMAIN notes, notes' = RemoveAt(notes, k)
        PROVE  notes' \in Seq(Note) /\ \A m \in DOMAIN notes' : \E j \in DOMAIN notes : notes'[m].of = notes[j].of
    <3>1. k \in 1..Len(notes) /\ Len(notes) \in Nat
      BY <1>t
    <3>2. /\ notes' \in Seq(Note) /\ Len(notes') = Len(notes) - 1
          /\ \A j \in 1..(Len(notes) - 1) : notes'[j] = IF j < k THEN notes[j] ELSE notes[j + 1]
      BY <1>t, <2>2, <3>1, RemoveAtFacts
    <3>3. ASSUME NEW m \in DOMAIN notes' PROVE \E j \in DOMAIN notes : notes'[m].of = notes[j].of
      <4>1. m \in 1..(Len(notes) - 1)
        BY <3>2
      <4>2. m \in DOMAIN notes /\ m + 1 \in DOMAIN notes /\ notes'[m] \in {notes[m], notes[m + 1]}
        BY <1>t, <3>1, <3>2, <4>1
      <4> QED
        BY <4>2
    <3> QED
      BY <3>2, <3>3
  <2> QED
    BY <1>r, <2>1, <2>2
<1>9. ASSUME NEW S \in SUBSET Turns, UNCHANGED <<prefers, misgiven, borrowed>>,
             notes' = notes \/ (\E k \in DOMAIN notes : notes' = RemoveAt(notes, k)),
             worker' \in [gen : 0..MaxWorkers, state : {"up", "closed"}, init : {"asked", "ready", "failed"}, next : Nat],
             runs' = [t \in Turns |-> IF t \in S THEN Ended(runs[t]) ELSE runs[t]],
             agents' \in {agents, Stopped}, cancels' \subseteq cancels
      PROVE  CodexInv'
  <2>1. /\ agents' \in [Turns -> {"none", "running", "done"}]
        /\ \A t \in Turns : agents'[t] # "none" => agents[t] # "none"
    BY <1>9, <1>t DEF Stopped
  <2>2. \A t \in Turns : runs'[t] = IF t \in S THEN Ended(runs[t]) ELSE runs[t]
    BY <1>9
  <2>3. \A t \in Turns : runs[t] \in Run
    BY <1>t
  <2>4. ASSUME NEW t \in Turns
        PROVE  /\ runs'[t] \in Run /\ runs'[t].thread = runs[t].thread /\ runs'[t].native = runs[t].native
               /\ Active(t)' => Active(t)
               /\ runs'[t].pc = "resume" => runs[t].pc = "resume"
               /\ runs'[t].pc = "start" => runs[t].pc = "start"
    BY <2>2, <2>3, EndedFacts, ZenonT(60) DEF Active
  <2>5. runs' \in [Turns -> Run]
    BY <1>9, <2>3, EndedFacts
  <2>6. notes' \in Seq(Note) /\ \A k \in DOMAIN notes' : \E j \in DOMAIN notes : notes'[k].of = notes[j].of
    BY <1>9, <1>r
  <2> QED
    BY <1>9, <1>t, <2>1, <2>4, <2>5, <2>6, CodexStays
<1>10. ASSUME NEW t \in Turns, UNCHANGED <<prefers, misgiven, borrowed, worker, agents>>,
              notes' = notes \/ (\E k \in DOMAIN notes : notes' = RemoveAt(notes, k)),
              cancels' \subseteq cancels, Finalize(t)
       PROVE  CodexInv'
  <2>1. runs' = [u \in Turns |-> IF u \in {t} THEN Ended(runs[u]) ELSE runs[u]]
    BY <1>10, <1>t DEF Finalize
  <2>2. {t} \in SUBSET Turns
    OBVIOUS
  <2>3. agents' \in {agents, Stopped}
    BY <1>10
  <2>4. worker' \in [gen : 0..MaxWorkers, state : {"up", "closed"}, init : {"asked", "ready", "failed"}, next : Nat]
    BY <1>10, <1>t
  <2> QED
    BY <1>9, <1>10, <2>1, <2>2, <2>3, <2>4
<1>11. CASE HandleWorkerExit
  <2>1. runs' = [u \in Turns |-> IF u \in {v \in Turns : Active(v)} THEN Ended(runs[u]) ELSE runs[u]]
    BY <1>11 DEF HandleWorkerExit
  <2>2. worker' \in [gen : 0..MaxWorkers, state : {"up", "closed"}, init : {"asked", "ready", "failed"}, next : Nat]
    BY <1>11, <1>t DEF HandleWorkerExit
  <2> QED
    BY <1>9, <1>11, <2>1, <2>2 DEF HandleWorkerExit
<1>12. ASSUME NEW t \in Turns, CancelTurn(t) \/ InterruptAnswered(t) PROVE CodexInv'
  <2>1. CASE InterruptAnswered(t)
    BY <1>10, <2>1 DEF InterruptAnswered
  <2>2. CASE CancelTurn(t) /\ cancels' = cancels
    <3>1. CASE Finalize(t)
      BY <1>10, <2>2, <3>1 DEF CancelTurn
    <3>2. CASE UNCHANGED runs
      BY <1>0, <2>2, <3>2 DEF CancelTurn
    <3> QED
      BY <2>2, <3>1, <3>2 DEF CancelTurn
  <2>3. CASE CancelTurn(t) /\ cancels' # cancels
    <3>1. runs[t].native # NoTurn /\ cancels' = cancels \cup {t} /\ UNCHANGED runs
      BY <2>3 DEF CancelTurn
    <3>2. \A u \in Turns : Active(u)' => Active(u)
      BY <3>1 DEF Active
    <3> QED
      BY <1>t, <2>3, <3>1, <3>2, CodexStays DEF CancelTurn
  <2> QED
    BY <1>12, <2>1, <2>2, <2>3
\* One run moves.
<1>13. ASSUME NEW t \in Turns, NEW r \in Run, runs' = [runs EXCEPT ![t] = r],
              UNCHANGED <<prefers, misgiven, borrowed, notes, worker, agents, cancels>>,
              r.thread = runs[t].thread, r.native = runs[t].native, runs[t].pc # "idle",
              runs[t].final => r.final,
              r.pc = "resume" => prefers[t] = "shared", r.pc # "start"
       PROVE  CodexInv'
  <2>1. runs' \in [Turns -> Run] /\ \A u \in Turns : runs'[u] = IF u = t THEN r ELSE runs[u]
    BY <1>13, <1>t
  <2>2. \A u \in Turns : Active(u)' => Active(u)
    BY <1>13, <2>1 DEF Active
  <2> QED
    BY <1>13, <1>t, <2>1, <2>2, CodexStays
<1>14. ASSUME NEW t \in Turns, WorkerReady(t) PROVE CodexInv'
  <2> DEFINE r == [runs[t] EXCEPT !.pc = IF prefers[t] = "none" THEN "thread" ELSE "resume"]
  <2>1. prefers[t] # "none" => prefers[t] = "shared"
    BY DEF CodexInv
  <2>2. r \in Run /\ runs' = [runs EXCEPT ![t] = r]
    BY <1>14, <1>t DEF WorkerReady, Run
  <2> QED
    BY <1>13, <1>14, <1>t, <2>1, <2>2 DEF WorkerReady, Run
<1>15. ASSUME NEW t \in Turns, StartTurnFails(t) PROVE CodexInv'
  <2> DEFINE r == [Ended(runs[t]) EXCEPT !.pc = "over"]
  <2>1. runs[t] \in Run /\ runs' = [runs EXCEPT ![t] = r]
    BY <1>15, <1>t DEF StartTurnFails
  <2>2. r \in Run /\ r.final /\ r.thread = runs[t].thread /\ r.native = runs[t].native /\ r.pc = "over"
    BY <2>1, EndedFacts
  <2>3. runs[t].pc # "idle" /\ UNCHANGED <<prefers, misgiven, borrowed, notes, worker, agents, cancels>>
    BY <1>15 DEF StartTurnFails
  <2> HIDE DEF r
  <2> QED
    BY <1>13, <2>1, <2>2, <2>3
\* One run is named a thread or its native turn.
<1>16. ASSUME NEW t \in Turns, NEW r \in Run, runs' = [runs EXCEPT ![t] = r],
              UNCHANGED <<prefers, misgiven, borrowed, notes, worker, agents, cancels>>,
              r.thread \in {t, runs[t].thread} \/ (r.thread = "shared" /\ prefers[t] = "shared"),
              r.native \in {t, runs[t].native}, runs[t].pc # "idle", runs[t].final => r.final,
              r.pc # "resume", r.pc = "start" => r.thread # "none"
       PROVE  CodexInv'
  <2>1. runs' \in [Turns -> Run] /\ \A u \in Turns : runs'[u] = IF u = t THEN r ELSE runs[u]
    BY <1>16, <1>t
  <2>2. \A u \in Turns : Active(u)' => Active(u)
    BY <1>16, <2>1 DEF Active
  <2>3. t # "none" /\ t # NoTurn /\ "shared" # "none"
    BY CodexAssumption
  <2>4. \A u \in Turns : runs[u].thread # "none" => runs'[u].thread # "none"
    BY <1>16, <2>1, <2>3
  <2>5. /\ \A u \in Turns : runs'[u].native \in {u, NoTurn}
        /\ \A u \in Turns : runs'[u].thread \in {"none", u} \/ (runs'[u].thread = "shared" /\ prefers[u] = "shared")
        /\ \A u \in Turns : runs'[u].pc = "resume" => prefers[u] = "shared"
        /\ \A u \in Turns : runs[u].native # NoTurn => runs'[u].native # NoTurn
    BY <1>16, <2>1, <2>3 DEF CodexInv
  <2>6. \A u \in Turns : runs'[u].pc = "start" \/ agents[u] # "none" => runs'[u].thread # "none"
    BY <1>16, <2>1, <2>4 DEF CodexInv
  <2>7. \A k \in DOMAIN notes : runs'[notes[k].of].thread # "none"
    <3> SUFFICES ASSUME NEW k \in DOMAIN notes PROVE runs'[notes[k].of].thread # "none"
      OBVIOUS
    <3>1. notes[k] \in Note /\ runs[notes[k].of].thread # "none"
      BY <1>t DEF CodexInv
    <3> QED
      BY <2>4, <3>1 DEF Note
  <2>8. \A u \in cancels : runs'[u].native # NoTurn
    BY <1>t, <2>5 DEF CodexInv
  <2>9. \A u, v \in Turns : (u # v /\ Active(u) /\ Active(v) => prefers[u] # "shared" \/ prefers[v] # "shared")'
    BY <1>16, <2>2 DEF CodexInv
  <2> QED
    BY <1>16, <2>1, <2>5, <2>6, <2>7, <2>8, <2>9 DEF CodexInv, CodexSafe
<1>17. ASSUME NEW t \in Turns, ResumeAnswered(t) PROVE CodexInv'
  <2>1. PICK resumed \in BOOLEAN :
          runs' = [runs EXCEPT ![t].pc = IF resumed THEN "start" ELSE "thread",
                               ![t].thread = IF resumed THEN prefers[t] ELSE @]
    BY <1>17 DEF ResumeAnswered
  <2> DEFINE r == [runs[t] EXCEPT !.pc = IF resumed THEN "start" ELSE "thread",
                                  !.thread = IF resumed THEN prefers[t] ELSE @]
  <2>2. runs[t].pc = "resume" /\ prefers[t] = "shared"
    BY <1>17 DEF ResumeAnswered, CodexInv
  <2>3. runs' = [runs EXCEPT ![t] = r] /\ r \in Run
    <3>1. runs[t] \in Run /\ prefers[t] \in Thread
      BY <1>t, <2>2 DEF Thread
    <3>2. r \in Run
      BY <3>1 DEF Run
    <3>3. runs' = [runs EXCEPT ![t] = r]
      BY <2>1, <1>t
    <3> QED
      BY <3>2, <3>3
  <2>4. r.final = runs[t].final /\ r.native = runs[t].native /\ r.pc = (IF resumed THEN "start" ELSE "thread")
        /\ r.thread = IF resumed THEN "shared" ELSE runs[t].thread
    BY <1>t, <2>2 DEF Run
  <2> HIDE DEF r
  <2> QED
    BY <1>16, <1>17, <2>2, <2>3, <2>4 DEF ResumeAnswered
<1>18. ASSUME NEW t \in Turns, ThreadStarted(t) PROVE CodexInv'
  <2> DEFINE r == [runs[t] EXCEPT !.pc = "start", !.thread = t]
  <2>1. runs' = [runs EXCEPT ![t] = r] /\ r \in Run
    <3>1. runs[t] \in Run /\ t \in Thread
      BY <1>t DEF Thread
    <3>2. r \in Run
      BY <3>1 DEF Run
    <3>3. runs' = [runs EXCEPT ![t] = r]
      BY <1>18, <1>t DEF ThreadStarted
    <3> QED
      BY <3>2, <3>3
  <2>2. r.final = runs[t].final /\ r.native = runs[t].native /\ r.pc = "start" /\ r.thread = t /\ t # "none"
    BY <1>t, CodexAssumption DEF Run
  <2> HIDE DEF r
  <2> QED
    BY <1>16, <1>18, <2>1, <2>2 DEF ThreadStarted
<1>19. ASSUME NEW t \in Turns, TurnStarted(t) PROVE CodexInv'
  <2> DEFINE r == [runs[t] EXCEPT !.pc = IF runs[t].final THEN "over" ELSE "running", !.native = t]
  <2>1. runs' = [runs EXCEPT ![t] = r] /\ r \in Run
    BY <1>19, <1>t DEF TurnStarted, Run
  <2>2. r.final = runs[t].final /\ r.native = t /\ r.pc \in {"over", "running"} /\ r.thread = runs[t].thread
    BY <1>t DEF Run
  <2> HIDE DEF r
  <2> QED
    BY <1>16, <1>19, <2>1, <2>2 DEF TurnStarted
\* A turn of a session starts when no other one of it is active.
<1>20. ASSUME NEW t \in Turns, StartTurn(t) PROVE CodexInv'
  <2> DEFINE r == [runs[t] EXCEPT !.pc = "ready", !.gen = worker'.gen]
  <2>1. worker' \in [gen : 0..MaxWorkers, state : {"up", "closed"}, init : {"asked", "ready", "failed"}, next : Nat]
    BY <1>5, <1>20 DEF StartTurn
  <2>2. runs' = [runs EXCEPT ![t] = r] /\ r \in Run
    <3>1. runs[t] \in Run /\ worker'.gen \in 0..MaxWorkers
      BY <1>t, <2>1
    <3>2. r \in Run
      BY <3>1 DEF Run
    <3>3. runs' = [runs EXCEPT ![t] = r]
      BY <1>20, <1>t DEF StartTurn
    <3> QED
      BY <3>2, <3>3
  <2>3. r.pc = "ready" /\ r.native = runs[t].native /\ r.thread = runs[t].thread
    BY <1>t DEF Run
  <2> HIDE DEF r
  <2>4. runs' \in [Turns -> Run] /\ \A u \in Turns : runs'[u] = IF u = t THEN r ELSE runs[u]
    BY <1>t, <2>2
  <2>5. \A u \in Turns : u # t => (Active(u)' <=> Active(u))
    BY <2>4 DEF Active
  <2>6. \A u \in Turns : u # t /\ prefers[u] = "shared" /\ prefers[t] = "shared" => ~Active(u)
    BY <1>20 DEF StartTurn, Active
  <2>7. \A u, v \in Turns : u # v /\ Active(u)' /\ Active(v)' => prefers[u] # "shared" \/ prefers[v] # "shared"
    BY <2>5, <2>6 DEF CodexInv
  <2>8. \A u, v \in Turns : (u # v /\ Active(u) /\ Active(v) => prefers[u] # "shared" \/ prefers[v] # "shared")'
    BY <1>20, <2>7 DEF StartTurn
  <2>9. /\ \A u \in Turns : runs'[u].native = runs[u].native /\ runs'[u].thread = runs[u].thread
        /\ \A u \in Turns : runs'[u].pc \in {"start", "resume"} => runs'[u].pc = runs[u].pc
    BY <2>3, <2>4
  <2>10. \A k \in DOMAIN notes : runs'[notes[k].of].thread # "none"
    <3> SUFFICES ASSUME NEW k \in DOMAIN notes PROVE runs'[notes[k].of].thread # "none"
      OBVIOUS
    <3>1. notes[k] \in Note /\ runs[notes[k].of].thread # "none"
      BY <1>t DEF CodexInv
    <3> QED
      BY <2>9, <3>1 DEF Note
  <2>11. UNCHANGED <<prefers, agents, notes, cancels, misgiven, borrowed>>
    BY <1>20 DEF StartTurn
  <2>12. /\ \A u \in Turns : runs'[u].native \in {u, NoTurn}
         /\ \A u \in Turns : runs'[u].thread \in {"none", u} \/ (runs'[u].thread = "shared" /\ prefers[u] = "shared")
         /\ \A u \in Turns : runs'[u].pc = "resume" => prefers[u] = "shared"
         /\ \A u \in Turns : runs'[u].pc = "start" \/ agents[u] # "none" => runs'[u].thread # "none"
         /\ \A u \in cancels : runs'[u].native # NoTurn
    BY <1>t, <2>9 DEF CodexInv
  <2> QED
    BY <2>1, <2>4, <2>8, <2>10, <2>11, <2>12, <1>t DEF CodexInv, CodexSafe
\* The agents.
<1>21. ASSUME NEW t \in Turns, NEW a \in {"running", "done"}, NEW n \in Seq(Note),
              UNCHANGED <<prefers, misgiven, borrowed, runs, cancels>>,
              worker' \in [gen : 0..MaxWorkers, state : {"up", "closed"}, init : {"asked", "ready", "failed"}, next : Nat],
              agents' = [agents EXCEPT ![t] = a], agents[t] # "none" \/ runs[t].pc = "start", notes' = n,
              \A k \in DOMAIN n : (n[k].of = t /\ agents[t] # "none") \/ \E j \in DOMAIN notes : n[k].of = notes[j].of
       PROVE  CodexInv'
  <2>1. /\ agents' \in [Turns -> {"none", "running", "done"}]
        /\ \A u \in Turns : agents'[u] # "none" => agents[u] # "none" \/ runs[u].pc = "start"
    BY <1>21, <1>t
  <2>2. \A u \in Turns : Active(u)' => Active(u)
    BY <1>21 DEF Active
  <2>3. \A k \in DOMAIN notes' : agents[notes'[k].of] # "none" \/ \E j \in DOMAIN notes : notes'[k].of = notes[j].of
    BY <1>21
  <2> QED
    BY <1>21, <1>t, <2>1, <2>2, <2>3, CodexStays
<1>22. ASSUME NEW x \in Note
       PROVE  /\ Append(notes, x) \in Seq(Note)
              /\ \A k \in DOMAIN Append(notes, x) : Append(notes, x)[k] = x \/ \E j \in DOMAIN notes : Append(notes, x)[k] = notes[j]
  BY <1>t
<1>23. ASSUME NEW t \in Turns, AgentBegins(t) PROVE CodexInv'
  BY <1>21, <1>23, <1>t DEF AgentBegins
<1>24. ASSUME NEW t \in Turns, agents[t] = "running", AgentEnds(t) PROVE CodexInv'
  <2> DEFINE x == [gen |-> worker.gen, kind |-> "completed", of |-> t, id |-> 0]
  <2>1. x \in Note /\ x.of = t
    BY <1>t DEF Note
  <2>2. notes' = Append(notes, x) /\ agents' = [agents EXCEPT ![t] = "done"]
        /\ UNCHANGED <<prefers, misgiven, borrowed, runs, cancels, worker>>
    BY <1>24 DEF AgentEnds
  <2> HIDE DEF x
  <2>3. /\ notes' \in Seq(Note)
        /\ \A k \in DOMAIN notes' : (notes'[k].of = t /\ agents[t] # "none") \/ \E j \in DOMAIN notes : notes'[k].of = notes[j].of
    BY <1>22, <1>24, <2>1, <2>2
  <2> QED
    BY <1>21, <1>24, <1>t, <2>2, <2>3
<1>25. ASSUME NEW t \in Turns, AgentAsks(t) PROVE CodexInv'
  <2> DEFINE x == [gen |-> worker.gen, kind |-> "approval", of |-> t, id |-> worker.next]
  <2>1. x \in Note /\ x.of = t
    BY <1>t DEF Note
  <2>2. /\ notes' = Append(notes, x) /\ agents[t] = "running" /\ agents' = [agents EXCEPT ![t] = "running"]
        /\ UNCHANGED <<prefers, misgiven, borrowed, runs, cancels>>
    BY <1>25, <1>t DEF AgentAsks
  <2>3. worker' \in [gen : 0..MaxWorkers, state : {"up", "closed"}, init : {"asked", "ready", "failed"}, next : Nat]
    <3>1. worker' = [worker EXCEPT !.next = worker.next + 1] /\ worker.next + 1 \in Nat
      BY <1>25, <1>t DEF AgentAsks
    <3> HIDE DEF x
    <3> QED
      BY <3>1, <1>t
  <2> HIDE DEF x
  <2>4. /\ notes' \in Seq(Note)
        /\ \A k \in DOMAIN notes' : (notes'[k].of = t /\ agents[t] # "none") \/ \E j \in DOMAIN notes : notes'[k].of = notes[j].of
    BY <1>22, <2>1, <2>2
  <2> QED
    BY <1>21, <2>2, <2>3, <2>4
<1>26. ASSUME NEW t \in Turns, AgentCompletes(t) \/ AgentInterrupted(t) PROVE CodexInv'
  <2>1. CASE AgentCompletes(t)
    BY <1>24, <2>1 DEF AgentCompletes
  <2>2. CASE AgentInterrupted(t)
    <3>1. runs[t].native = t
      BY <2>2 DEF AgentInterrupted, CodexInv
    <3> QED
      BY <1>24, <2>2, <3>1 DEF AgentInterrupted
  <2> QED
    BY <1>26, <2>1, <2>2
\* A message is for its own turn while that one is active.
<1>27. ASSUME NEW k \in DOMAIN notes, Active(notes[k].of) PROVE FindTurnByThread(notes[k].of) = {notes[k].of}
  <2> DEFINE w == notes[k].of
             exact == {t \in OnThread(w) : runs[t].native = w}
  <2>1. w \in Turns /\ runs[w].thread # "none"
    <3>1. notes[k] \in Note /\ runs[w].thread # "none"
      BY <1>t DEF CodexInv
    <3> QED
      BY <3>1 DEF Note
  <2> HIDE DEF w
  <2>2. \A t \in OnThread(w) : t = w
    <3> SUFFICES ASSUME NEW t \in OnThread(w), t # w PROVE FALSE
      OBVIOUS
    <3>1. t \in Turns /\ Active(t) /\ runs[t].thread = runs[w].thread /\ Active(w)
      BY <1>27 DEF OnThread, w
    <3>2. "shared" \notin Turns /\ "none" \notin Turns
      BY CodexAssumption
    <3>3. runs[w].thread = "shared" /\ prefers[w] = "shared" /\ prefers[t] = "shared"
      BY <2>1, <3>1, <3>2 DEF CodexInv
    <3> QED
      BY <2>1, <3>1, <3>3 DEF CodexInv
  <2>3. w \in OnThread(w)
    BY <1>27, <2>1 DEF OnThread, w
  <2>4. OnThread(w) = {w}
    BY <2>2, <2>3
  <2>5. exact \in {{}, {w}}
    BY <2>4
  <2> QED
    BY <2>4, <2>5 DEF FindTurnByThread, w
<1>28. CASE NoteMoves
  <2>1. PICK k \in DOMAIN notes : HandleMessage(k)
    BY <1>28 DEF NoteMoves
  <2> DEFINE found == FindTurnByThread(notes[k].of)
  <2>2. borrowed' = borrowed
    <3>1. borrowed' = (borrowed \/ (Active(notes[k].of) /\ found # {notes[k].of}))
      BY <2>1 DEF HandleMessage
    <3>2. ~(Active(notes[k].of) /\ found # {notes[k].of}) /\ borrowed \in BOOLEAN
      BY <1>27 DEF CodexInv
    <3> HIDE DEF found
    <3> QED
      BY <3>1, <3>2
  <2>3. /\ notes' = RemoveAt(notes, k) /\ UNCHANGED <<prefers, misgiven, worker, agents, cancels>>
        /\ UNCHANGED runs \/ \E t \in found : Finalize(t)
    BY <2>1 DEF HandleMessage, HandleServerRequest, CompleteNative
  <2>4. found \subseteq Turns
    BY DEF FindTurnByThread, OnThread
  <2> HIDE DEF found
  <2>5. CASE UNCHANGED runs
    <3>1. notes' \in Seq(Note) /\ \A m \in DOMAIN notes' : \E j \in DOMAIN notes : notes'[m].of = notes[j].of
      BY <1>r, <2>3
    <3>2. \A u \in Turns : Active(u)' => Active(u)
      BY <2>5 DEF Active
    <3> QED
      BY <1>t, <2>2, <2>3, <2>5, <3>1, <3>2, CodexStays
  <2>6. CASE \E t \in found : Finalize(t)
    BY <1>10, <2>2, <2>3, <2>4, <2>6
  <2> QED
    BY <2>3, <2>5, <2>6
<1> QED
  BY <1>1, <1>2, <1>3, <1>6, <1>7, <1>8, <1>11, <1>12, <1>14, <1>15, <1>17, <1>18, <1>19, <1>20,
     <1>23, <1>25, <1>26, <1>28 DEF CodexNext, StartMoves

\* A user's decision answers the request it was made for, and a message of an agent goes to another
\* turn only when its own is over (codex-backend.ts).
THEOREM CodexIsSafe == CodexSpec => []CodexSafe
<1>1. CodexInv => CodexSafe
  BY DEF CodexInv
<1> QED
  BY <1>1, CodexInits, CodexKept, PTL DEF CodexSpec
=============================================================================

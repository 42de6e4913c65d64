---------------------------- MODULE ApprovalQueue ----------------------------
(***************************************************************************)
(* The tool approvals of one turn: ApprovalQueueService (serial            *)
(* publishing, auto-approve timers, pause and resume), the approval cases  *)
(* of TurnsService.ingestRunnerEvent that drive it, and the part of the    *)
(* runner that holds the requests it waits for.                            *)
(*                                                                         *)
(* The runner appends events to the turn's stream.  A consumer in the API  *)
(* hands them to the turn's ingestion queue one at a time; the handler of  *)
(* an event is a chain of awaited database calls, one action per await     *)
(* here, so that timers, user requests, database failures and restarts    *)
(* come between any two of them.                                           *)
(***************************************************************************)
EXTENDS Naturals, Sequences, FiniteSets

CONSTANTS
  Requests,       \* the approval requests the agent may raise in this turn
  Backends,       \* the backends considered, a subset of {"codex", "claude"}
  Modes,          \* auto-approve settings considered, see ModeValues
  Decisions,      \* what users may answer, a subset of {"accept", "decline"}
  Pausable,       \* the approvals whose timer the user may pause and resume
  Interruptible,  \* handler steps at which a transient failure or a restart may hit
  DispatchMayFail,\* whether the startTurn request may be reported as failed
  MaxAnswers,     \* users answer while fewer answers than this are on their way
  MaxFaults       \* bound on database failures, failed dispatches and restarts

ModeValues == {"manual", "timed", "immediate"}
Steps == {"start", "enqueue", "count", "publishRead", "publishTx", "publishEvent",
          "settle", "append", "end"}

ASSUME ApprovalAssumption ==
  /\ IsFiniteSet(Requests)
  /\ Backends \subseteq {"codex", "claude"}
  /\ Modes \subseteq ModeValues
  /\ Decisions \subseteq {"accept", "decline"}
  /\ Pausable \subseteq Requests
  /\ Interruptible \subseteq Steps \cup {"idle", "pause", "auto"}
  /\ DispatchMayFail \in BOOLEAN
  /\ MaxAnswers \in Nat /\ MaxFaults \in Nat

VARIABLES
  backend, mode,                        \* fixed when the turn is created
  \* the database
  turnStatus, status, created, deadline, paused, cursor,
  \* the runner
  stream, asking, held, finalizing,
  \* the API process
  up, pos, pc, seen, next, timers, due, answers, control, dispatching,
  \* bookkeeping
  faults,
  userPaused                            \* history: the user's last completed timer request

db      == <<turnStatus, status, created, deadline, paused, cursor>>
runner  == <<stream, asking, held, finalizing>>
handler == <<up, pos, pc, seen, next>>
fixed   == <<backend, mode>>
vars    == <<backend, mode, turnStatus, status, created, deadline, paused, cursor,
             stream, asking, held, finalizing, up, pos, pc, seen, next, timers, due, answers,
             control, dispatching, faults, userPaused>>

None == "none"
RowStatus == {None, "queued", "pending", "approved", "rejected"}
TurnStatus == {"queued", "running", "waiting_approval", "ended"}
Answers == {"auto", "accept", "decline"}
EventTypes == {"started", "requested", "resolved", "ended"}

Events == [type : EventTypes, req : Requests \cup {None}, decision : {None, "accept", "decline"}]
Event(type, r, decision) == [type |-> type, req |-> r, decision |-> decision]
Emits(type) == \E i \in DOMAIN stream : stream[i].type = type
Raised(r) == \E i \in DOMAIN stream : stream[i].type = "requested" /\ stream[i].req = r
RunnerEnded == Emits("ended")
Current == stream[pos + 1]

WithStatus(s) == {r \in Requests : status[r] = s}
Pending == WithStatus("pending")
Oldest(S) == {r \in S : \A q \in S : created[r] <= created[q]}

-----------------------------------------------------------------------------
Init ==
  /\ backend \in Backends /\ mode \in Modes
  /\ turnStatus = "queued"
  /\ status = [r \in Requests |-> None]
  /\ created = [r \in Requests |-> 0]
  /\ deadline = [r \in Requests |-> FALSE]
  /\ paused = [r \in Requests |-> FALSE]
  /\ cursor = 0
  /\ stream = <<>> /\ asking = {} /\ held = {} /\ finalizing = FALSE
  /\ up = FALSE /\ pos = 0 /\ pc = "idle" /\ seen = "queued" /\ next = None
  /\ timers = {} /\ due = {} /\ answers = {}
  /\ control = [r \in Requests |-> None]
  /\ dispatching = DispatchMayFail
  /\ faults = 0
  /\ userPaused = [r \in Requests |-> FALSE]

-----------------------------------------------------------------------------
(* The runner: a Codex or Claude turn.                                     *)

\* Everything the API holds, for the runner's own actions.
api == <<turnStatus, status, created, deadline, paused, cursor, up, pos, pc, seen, next,
         timers, due, control, dispatching, faults, userPaused>>

RunnerStarts ==
  /\ ~Emits("started") /\ ~finalizing
  /\ stream' = Append(stream, Event("started", None, None))
  /\ UNCHANGED <<fixed, api, asking, held, finalizing, answers>>

\* The agent asks for permission and waits for the answer.  Codex remembers the
\* request before it emits the event, Claude after the event was delivered.
RaiseApproval(r) ==
  /\ ~Raised(r) /\ ~finalizing
  /\ IF backend = "codex" THEN held' = held \cup {r} /\ asking' = asking
                          ELSE asking' = asking \cup {r} /\ held' = held
  /\ stream' = Append(stream, Event("requested", r, None))
  /\ UNCHANGED <<fixed, api, finalizing, answers>>

\* Remembered once the turn is finalized, a request is never looked up again.
RegisterApproval(r) ==
  /\ r \in asking
  /\ asking' = asking \ {r}
  /\ held' = IF finalizing THEN held ELSE held \cup {r}
  /\ UNCHANGED <<fixed, api, stream, finalizing, answers>>

\* The agent itself withdraws a request.
AbortApproval(r) ==
  /\ backend = "claude" /\ r \in held
  /\ held' = held \ {r}
  /\ stream' = Append(stream, Event("resolved", r, "decline"))
  /\ UNCHANGED <<fixed, api, asking, finalizing, answers>>

\* The turn ends: completed, failed, interrupted or cancelled by the user.  For
\* Codex, releasing the open requests comes first and is awaited; for Claude they
\* are answered without an event, and the terminal event follows at once.
BeginFinalize ==
  /\ ~finalizing
  /\ finalizing' = TRUE
  /\ IF backend = "codex" THEN UNCHANGED <<held, stream>>
     ELSE held' = {} /\ stream' = Append(stream, Event("ended", None, None))
  /\ UNCHANGED <<fixed, api, asking, answers>>

\* Mutant: the release is not reported, as with Claude.
DisposePending_Silent ==
  /\ finalizing /\ held # {}
  /\ held' = {}
  /\ UNCHANGED <<fixed, api, stream, asking, finalizing, answers>>

\* Codex releases requests in the order they were raised, each with an event.
DisposePending ==
  /\ finalizing
  /\ \E i \in DOMAIN stream :
       LET r == stream[i].req IN
       /\ stream[i].type = "requested" /\ r \in held
       /\ \A j \in 1..(i - 1) : ~(stream[j].type = "requested" /\ stream[j].req \in held)
       /\ held' = held \ {r}
       /\ stream' = Append(stream, Event("resolved", r, "decline"))
  /\ UNCHANGED <<fixed, api, asking, finalizing, answers>>

RunnerEnds ==
  /\ finalizing /\ held = {} /\ ~RunnerEnded
  /\ stream' = Append(stream, Event("ended", None, None))
  /\ UNCHANGED <<fixed, api, asking, held, finalizing, answers>>

\* An answer reaches the runner: the request is released, or the call is
\* refused because the runner no longer waits for it.
ResolvePendingApproval(r, a) ==
  /\ <<r, a>> \in answers
  /\ answers' = answers \ {<<r, a>>}
  /\ IF r \in held
     THEN /\ held' = held \ {r}
          /\ stream' = Append(stream, Event("resolved", r, IF a = "decline" THEN a ELSE "accept"))
     ELSE UNCHANGED <<held, stream>>
  /\ UNCHANGED <<fixed, api, asking, finalizing>>

-----------------------------------------------------------------------------
(* The ingestion handler, one action per awaited call.                     *)

calm == <<timers, due, answers, control, dispatching, faults, userPaused>>

FirstStep(type) == CASE type = "started" -> "start" [] type = "requested" -> "enqueue"
                     [] type = "resolved" -> "settle" [] type = "ended" -> "end"

\* A handler goes on, with its local variables, or is over, and they are gone.
Goto(step) == pc' = step /\ UNCHANGED <<up, pos, seen, next>>
Over       == pc' = "idle" /\ seen' = "queued" /\ next' = None
Handled    == Over /\ pos' = pos + 1 /\ up' = up

\* Reads the turn; drops a replayed event and, once the turn is over, any event.
IngestRunnerEvent ==
  /\ up /\ pc = "idle" /\ pos < Len(stream)
  /\ IF pos + 1 <= cursor \/ turnStatus = "ended"
     THEN Handled
     ELSE pc' = FirstStep(Current.type) /\ seen' = turnStatus /\ UNCHANGED <<up, pos, next>>
  /\ UNCHANGED <<fixed, db, runner, calm>>


TurnStarted ==
  /\ pc = "start"
  /\ turnStatus' = IF seen = "queued" THEN "running" ELSE turnStatus
  /\ Goto("append")
  /\ UNCHANGED <<fixed, status, created, deadline, paused, cursor, runner, calm>>

\* Mutant: nothing is promoted after a resolution.
AppendEvent_NoPromotion ==
  /\ pc = "append"
  /\ cursor' = pos + 1
  /\ Handled
  /\ UNCHANGED <<fixed, turnStatus, status, created, deadline, paused, runner, calm>>

\* The event row and the durable cursor are one transaction.
AppendEvent ==
  /\ pc = "append"
  /\ cursor' = pos + 1
  /\ IF Current.type = "resolved" THEN Goto("count") ELSE Handled
  /\ UNCHANGED <<fixed, turnStatus, status, created, deadline, paused, runner, calm>>

\* Upsert: a replayed request starts over in the queue, with its first createdAt.
EnqueueApprovalRequest ==
  /\ pc = "enqueue"
  /\ LET r == Current.req IN
     /\ status' = [status EXCEPT ![r] = "queued"]
     /\ created' = [created EXCEPT ![r] =
                      IF @ = 0 THEN 1 + Cardinality({q \in Requests : created[q] > 0}) ELSE @]
     /\ deadline' = [deadline EXCEPT ![r] = FALSE]
     /\ paused' = [paused EXCEPT ![r] = FALSE]
  /\ Goto("count")
  /\ UNCHANGED <<fixed, turnStatus, cursor, runner, calm>>

Publish(candidates) == next' \in candidates /\ pc' = "publishRead" /\ UNCHANGED <<up, pos, seen>>

\* Mutants: publish without counting the pending rows; publish the newest row.
TryPublishNext_Uncounted ==
  /\ pc = "count"
  /\ IF WithStatus("queued") = {}
     THEN Handled
     ELSE Publish(Oldest(WithStatus("queued")))
  /\ UNCHANGED <<fixed, db, runner, calm>>

TryPublishNext_Newest ==
  /\ pc = "count"
  /\ IF Pending # {} \/ WithStatus("queued") = {}
     THEN Handled
     ELSE Publish({r \in WithStatus("queued") :
                     \A q \in WithStatus("queued") : created[q] <= created[r]})
  /\ UNCHANGED <<fixed, db, runner, calm>>

TryPublishNext ==
  /\ pc = "count"
  /\ IF Pending # {} \/ WithStatus("queued") = {}
     THEN Handled
     ELSE Publish(Oldest(WithStatus("queued")))
  /\ UNCHANGED <<fixed, db, runner, calm>>

\* Reads the turn the approval belongs to; one that is over takes no approval.
PublishRead ==
  /\ pc = "publishRead"
  /\ IF turnStatus = "ended"
     THEN Handled /\ status' = [status EXCEPT ![next] = "rejected"]
     ELSE pc' = "publishTx" /\ seen' = turnStatus /\ UNCHANGED <<up, pos, next, status>>
  /\ UNCHANGED <<fixed, turnStatus, created, deadline, paused, cursor, runner, calm>>

\* The row becomes visible and the turn waits, whatever its status is by now.
PublishTx ==
  /\ pc = "publishTx"
  /\ status' = [status EXCEPT ![next] = "pending"]
  /\ deadline' = [deadline EXCEPT ![next] = (mode = "timed")]
  /\ paused' = [paused EXCEPT ![next] = FALSE]
  /\ turnStatus' = IF seen = "waiting_approval" THEN turnStatus ELSE "waiting_approval"
  /\ Goto("publishEvent")
  /\ UNCHANGED <<fixed, created, cursor, runner, calm>>

\* The visible event; it does not advance the cursor.  Then the timer.
PublishEvent ==
  /\ pc = "publishEvent"
  /\ timers' = IF mode = "timed" THEN timers \cup {next} ELSE timers
  /\ due' = IF mode = "immediate" THEN due \cup {next} ELSE due
  /\ Handled
  /\ UNCHANGED <<fixed, db, runner, answers, control, dispatching, faults, userPaused>>

\* Mutants: the decision is written as the status; the turn stays waiting.
ApprovalResolved_DecisionAsStatus ==
  /\ pc = "settle"
  /\ LET r == Current.req IN
     /\ status' = [status EXCEPT ![r] = Current.decision]
     /\ timers' = timers \ {r}
  /\ turnStatus' = IF seen = "waiting_approval" THEN "running" ELSE turnStatus
  /\ Goto("append")
  /\ UNCHANGED <<fixed, created, deadline, paused, cursor, runner, due, answers, control,
                 dispatching, faults, userPaused>>

\* turn.approval.resolved: close the row and put the turn back to running in
\* one transaction, then drop the local timer.
ApprovalResolved ==
  /\ pc = "settle"
  /\ LET r == Current.req IN
     /\ status' = [status EXCEPT ![r] = IF @ # "pending" THEN @
                                        ELSE IF Current.decision = "accept" THEN "approved"
                                        ELSE "rejected"]
     /\ timers' = timers \ {r}
  /\ turnStatus' = IF seen = "waiting_approval" THEN "running" ELSE turnStatus
  /\ Goto("append")
  /\ UNCHANGED <<fixed, created, deadline, paused, cursor, runner, due, answers, control,
                 dispatching, faults, userPaused>>

\* The terminal event: status, event and cursor in one transaction.
TurnEnded ==
  /\ pc = "end"
  /\ turnStatus' = "ended"
  /\ cursor' = pos + 1
  /\ Handled
  /\ UNCHANGED <<fixed, status, created, deadline, paused, runner, calm>>

\* A database error that the consumer treats as transient stops the handler
\* where it stands; the consumer comes back later and replays from the cursor.
TransientFailure ==
  /\ up /\ pc # "idle" /\ pc \in Interruptible /\ faults < MaxFaults
  /\ up' = FALSE /\ pos' = 0 /\ Over
  /\ faults' = faults + 1
  /\ UNCHANGED <<fixed, db, runner, timers, due, answers, control,
                 dispatching, userPaused>>

\* After the dispatch, by the retry timer or by the periodic reconciliation:
\* only turns that are still active.
EnsureRunnerEventConsumer ==
  /\ ~up /\ turnStatus # "ended"
  /\ up' = TRUE /\ pos' = cursor
  /\ UNCHANGED <<fixed, db, runner, pc, seen, next, calm>>

-----------------------------------------------------------------------------
(* Timers, and the requests of users.                                      *)

TimerFires(r) ==
  /\ r \in timers
  /\ timers' = timers \ {r} /\ due' = due \cup {r}
  /\ UNCHANGED <<fixed, db, runner, handler, answers, control, dispatching, faults, userPaused>>

FireAutoApprove(r) ==
  /\ r \in due
  /\ due' = due \ {r}
  /\ answers' = IF status[r] = "pending" /\ ~paused[r] THEN answers \cup {<<r, "auto">>} ELSE answers
  /\ UNCHANGED <<fixed, db, runner, handler, timers, control, dispatching, faults, userPaused>>

\* The row cannot be read or the runner cannot be reached: logged, no retry.
AutoApproveFails(r) ==
  /\ r \in due /\ "auto" \in Interruptible /\ faults < MaxFaults
  /\ due' = due \ {r}
  /\ faults' = faults + 1
  /\ UNCHANGED <<fixed, db, runner, handler, timers, answers, control, dispatching, userPaused>>

ResolveTurnApproval(r, a) ==
  /\ status[r] = "pending" /\ Cardinality(answers) < MaxAnswers
  /\ answers' = answers \cup {<<r, a>>}
  /\ UNCHANGED <<fixed, db, runner, handler, timers, due, control, dispatching, faults, userPaused>>

\* One timer request of the user at a time per approval; reading the row and
\* writing it back are separate calls.
PauseRead(r) ==
  /\ r \in Pausable /\ control[r] = None
  /\ status[r] = "pending" /\ ~paused[r] /\ deadline[r]
  /\ timers' = timers \ {r}
  /\ control' = [control EXCEPT ![r] = "pause"]
  /\ UNCHANGED <<fixed, db, runner, handler, due, answers, dispatching, faults, userPaused>>

PauseWrite(r) ==
  /\ control[r] = "pause"
  /\ control' = [control EXCEPT ![r] = None]
  /\ deadline' = [deadline EXCEPT ![r] = FALSE]
  /\ paused' = [paused EXCEPT ![r] = TRUE]
  /\ userPaused' = [userPaused EXCEPT ![r] = TRUE]
  /\ UNCHANGED <<fixed, turnStatus, status, created, cursor, runner, handler, timers, due,
                 answers, dispatching, faults>>

\* The write fails; the local timer is gone already.
PauseFails(r) ==
  /\ control[r] = "pause" /\ "pause" \in Interruptible /\ faults < MaxFaults
  /\ control' = [control EXCEPT ![r] = None]
  /\ faults' = faults + 1
  /\ UNCHANGED <<fixed, db, runner, handler, timers, due, answers, dispatching, userPaused>>

ResumeRead(r) ==
  /\ control[r] = None
  /\ status[r] = "pending" /\ paused[r]
  /\ control' = [control EXCEPT ![r] = "resume"]
  /\ UNCHANGED <<fixed, db, runner, handler, timers, due, answers, dispatching, faults, userPaused>>

ResumeWrite(r) ==
  /\ control[r] = "resume"
  /\ control' = [control EXCEPT ![r] = None]
  /\ deadline' = [deadline EXCEPT ![r] = TRUE]
  /\ paused' = [paused EXCEPT ![r] = FALSE]
  /\ timers' = timers \cup {r}
  /\ userPaused' = [userPaused EXCEPT ![r] = FALSE]
  /\ UNCHANGED <<fixed, turnStatus, status, created, cursor, runner, handler, due, answers,
                 dispatching, faults>>

-----------------------------------------------------------------------------
(* Starting the turn, and restarting the API beside a remote runner.       *)

\* startTurn is reported as failed although the runner runs the turn: failTurn
\* ends the turn outside the ingestion queue.  (One that succeeds only starts
\* the consumer, as the reconciliation does.)
DispatchFails ==
  /\ dispatching /\ faults < MaxFaults
  /\ dispatching' = FALSE
  /\ faults' = faults + 1
  /\ turnStatus' = "ended"
  /\ UNCHANGED <<fixed, status, created, deadline, paused, cursor, runner, handler, timers, due,
                 answers, control, userPaused>>

\* Mutant: timers are not recovered at startup.
RestartApi_TimersLost ==
  /\ pc \in Interruptible /\ faults < MaxFaults
  /\ faults' = faults + 1
  /\ up' = FALSE /\ pos' = 0 /\ Over
  /\ timers' = {}
  /\ due' = {} /\ answers' \in {{}, answers}
  /\ control' = [r \in Requests |-> None] /\ dispatching' = FALSE
  /\ UNCHANGED <<fixed, db, runner, userPaused>>

\* recoverTimers re-arms what the rows say; calls on their way may still arrive.
RestartApi ==
  /\ pc \in Interruptible /\ faults < MaxFaults
  /\ faults' = faults + 1
  /\ up' = FALSE /\ pos' = 0 /\ Over
  /\ timers' = {r \in Pending : deadline[r] /\ ~paused[r]}
  /\ due' = {} /\ answers' \in {{}, answers}
  /\ control' = [r \in Requests |-> None] /\ dispatching' = FALSE
  /\ UNCHANGED <<fixed, db, runner, userPaused>>

-----------------------------------------------------------------------------
Runner == RunnerStarts \/ BeginFinalize
          \/ (\E r \in Requests : RaiseApproval(r) \/ RegisterApproval(r) \/ AbortApproval(r))
          \/ DisposePending \/ RunnerEnds
          \/ \E r \in Requests, a \in Answers : ResolvePendingApproval(r, a)

Ingestion == IngestRunnerEvent \/ TurnStarted \/ AppendEvent \/ EnqueueApprovalRequest
             \/ TryPublishNext \/ PublishRead \/ PublishTx \/ PublishEvent \/ ApprovalResolved
             \/ TurnEnded

TimersAndUsers(r) ==
  \/ TimerFires(r) \/ FireAutoApprove(r) \/ AutoApproveFails(r)
  \/ \E a \in Decisions : ResolveTurnApproval(r, a)
  \/ PauseRead(r) \/ PauseWrite(r) \/ PauseFails(r) \/ ResumeRead(r) \/ ResumeWrite(r)

Next == Runner \/ Ingestion \/ TransientFailure \/ EnsureRunnerEventConsumer
        \/ (\E r \in Requests : TimersAndUsers(r))
        \/ DispatchFails \/ RestartApi

Spec == Init /\ [][Next]_vars

\* What the scheduler owes: the handler or its retry goes on, a runner that began
\* to finish finishes, and for each approval timers, requests and answers run.
Fairness ==
  /\ WF_vars(Ingestion \/ EnsureRunnerEventConsumer)
  /\ WF_vars(DisposePending \/ RunnerEnds)
  /\ \A r \in Requests :
       /\ WF_vars(TimerFires(r) \/ FireAutoApprove(r))
       /\ WF_vars(PauseWrite(r) \/ ResumeWrite(r))
       /\ WF_vars(\E a \in Answers : ResolvePendingApproval(r, a))

FairSpec == Spec /\ Fairness

-----------------------------------------------------------------------------
(* Properties.                                                             *)

\* The values each variable takes.
DatabaseOK ==
  /\ turnStatus \in TurnStatus
  /\ status \in [Requests -> RowStatus]
  /\ created \in [Requests -> Nat]
  /\ deadline \in [Requests -> BOOLEAN] /\ paused \in [Requests -> BOOLEAN]
  /\ cursor \in Nat

RunnerOK ==
  /\ backend \in {"codex", "claude"} /\ mode \in ModeValues
  /\ stream \in Seq(Events)
  /\ asking \subseteq Requests /\ held \subseteq Requests /\ finalizing \in BOOLEAN

HandlerOK ==
  /\ up \in BOOLEAN /\ pos \in Nat /\ pc \in Steps \cup {"idle"}
  /\ seen \in TurnStatus /\ next \in Requests \cup {None}
  /\ pc \in {"publishRead", "publishTx", "publishEvent"} => next \in Requests

CallsOK ==
  /\ timers \subseteq Requests /\ due \subseteq Requests
  /\ answers \subseteq Requests \X Answers
  /\ control \in [Requests -> {None, "pause", "resume"}]
  /\ dispatching \in BOOLEAN /\ faults \in Nat
  /\ userPaused \in [Requests -> BOOLEAN]

TypeOK == DatabaseOK /\ RunnerOK /\ HandlerOK /\ CallsOK

\* A turn never has two approvals in front of the user, whatever fails or
\* restarts in between: counting and publishing are separate calls, and only
\* the turn's ingestion queue keeps them together.
OnePending == \A r, q \in Pending : r = q

\* Every event the runner emitted so far has been handled, and no handler runs.
CaughtUp == up /\ pc = "idle" /\ pos = Len(stream)

\* The API and the runner agree on what is open once the API has caught up:
\* the rows still queued or pending are the requests the agent waits for.
OpenIsHeld == CaughtUp => {r \in Requests : status[r] \in {"queued", "pending"}} = held

\* An active turn that has caught up says it waits for an approval exactly when
\* one is visible: steering and the clients' status depend on it.
WaitingIsPending ==
  CaughtUp /\ turnStatus # "ended" => (turnStatus = "waiting_approval" <=> Pending # {})

\* Both: what an API that has caught up knows of the open approvals is true.
ApprovalsAgree == OpenIsHeld /\ WaitingIsPending

\* A request waits in the queue only behind a visible one: nothing else would
\* ever call tryPublishNext for it.
QueuedIsBehindPending == CaughtUp /\ WithStatus("queued") # {} => Pending # {}

\* Requests become visible in the order the agent raised them, also when their
\* events are replayed after a failure.
RaisedBefore(q, r) ==
  \E i, j \in DOMAIN stream : /\ i < j
                              /\ stream[i] = Event("requested", q, None)
                              /\ stream[j] = Event("requested", r, None)

PublishedInOrder ==
  [][\A r \in Requests : status[r] # "pending" /\ status'[r] = "pending" =>
       \A q \in Requests : RaisedBefore(q, r) => status[q] \notin {None, "queued"}]_vars

\* No automatic answer is sent for an approval the user has paused.
PauseHolds ==
  [][\A r \in Requests : <<r, "auto">> \in answers' \ answers => ~userPaused[r]]_vars

\* If visible approvals keep being answered, a queued one becomes visible.
QueuedIsPublished ==
  \A r \in Requests : []<>(Pending = {}) => (status[r] = "queued" ~> status[r] # "queued")

\* With a timeout set, a visible approval is settled unless the user pauses it,
\* although an API restart forgets every timer.
AutoApproved ==
  mode = "timed" =>
    \A r \in Requests : status[r] = "pending" ~> status[r] # "pending" \/ paused[r]
=============================================================================

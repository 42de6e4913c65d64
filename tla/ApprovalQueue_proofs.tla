------------------------ MODULE ApprovalQueue_proofs ------------------------
(***************************************************************************)
(* Proofs about ApprovalQueue, for every set of requests, every bound on   *)
(* faults and every choice of the steps at which a fault may hit.          *)
(***************************************************************************)
EXTENDS ApprovalQueue, TLAPS, FiniteSetTheorems

-----------------------------------------------------------------------------
(* Type correctness.                                                       *)

\* The type invariant holds initially.
LEMMA InitTypeOK == Init => TypeOK
<1> SUFFICES ASSUME Init PROVE TypeOK
  OBVIOUS
<1> USE ApprovalAssumption DEF Init
<1>1. DatabaseOK
  BY DEF DatabaseOK, TurnStatus, RowStatus
<1>2. RunnerOK
  <2>1. backend \in {"codex", "claude"} /\ mode \in ModeValues
    OBVIOUS
  <2>2. stream \in Seq(Events)
    OBVIOUS
  <2>3. asking \subseteq Requests /\ held \subseteq Requests /\ finalizing \in BOOLEAN
    OBVIOUS
  <2> QED BY <2>1, <2>2, <2>3 DEF RunnerOK
<1>3. HandlerOK
  BY DEF HandlerOK, TurnStatus
<1>4. CallsOK
  <2>1. dispatching \in BOOLEAN
    BY Zenon
  <2> QED BY <2>1 DEF CallsOK
<1> QED BY <1>1, <1>2, <1>3, <1>4 DEF TypeOK

\* The number of rows created so far is a number.
LEMMA CreatedCount == Cardinality({q \in Requests : created[q] > 0}) \in Nat
BY ApprovalAssumption, FS_Subset, FS_CardinalityType

\* What the runner appends to its stream are events.
LEMMA EventsOK ==
  /\ Event("started", None, None) \in Events
  /\ Event("ended", None, None) \in Events
  /\ \A r \in Requests : /\ Event("requested", r, None) \in Events
                         /\ Event("resolved", r, "accept") \in Events
                         /\ Event("resolved", r, "decline") \in Events
BY DEF Event, Events, EventTypes

\* The event the handler works on is one.
LEMMA CurrentOK == TypeOK /\ pos < Len(stream) => Current \in Events
BY DEF TypeOK, RunnerOK, HandlerOK, Current

\* The handler of an event starts with one of four steps, none of them publishing.
LEMMA FirstStepOK ==
  ASSUME TypeOK, IngestRunnerEvent
  PROVE  pc' \in {"idle", "start", "enqueue", "settle", "end"}
<1>1. Current \in Events
  BY CurrentOK DEF IngestRunnerEvent
<1>2. FirstStep(Current.type) \in {"start", "enqueue", "settle", "end"}
  BY <1>1 DEF FirstStep, Events, EventTypes
<1> QED BY <1>2 DEF IngestRunnerEvent, Handled, Over

\* The parts of the state an action leaves alone keep their types.
LEMMA Unchanged ==
  /\ UNCHANGED db /\ DatabaseOK => DatabaseOK'
  /\ UNCHANGED <<fixed, runner>> /\ RunnerOK => RunnerOK'
  /\ UNCHANGED handler /\ HandlerOK => HandlerOK'
  /\ UNCHANGED calm /\ CallsOK => CallsOK'
BY DEF db, handler, calm, runner, fixed, DatabaseOK, RunnerOK, HandlerOK, CallsOK

\* The runner's actions keep the types.
LEMMA RunnerTypeOK == ASSUME TypeOK, Runner PROVE TypeOK'
<1> USE EventsOK DEF TypeOK
<1>1. UNCHANGED db /\ UNCHANGED handler
  BY DEF Runner, RunnerStarts, RaiseApproval, RegisterApproval, AbortApproval, BeginFinalize,
         DisposePending, RunnerEnds, ResolvePendingApproval, api, db, handler
<1>2. CallsOK'
  BY DEF Runner, RunnerStarts, RaiseApproval, RegisterApproval, AbortApproval, BeginFinalize,
         DisposePending, RunnerEnds, ResolvePendingApproval, api, CallsOK
<1>3. RunnerOK'
  <2>1. CASE RunnerStarts
    BY <2>1 DEF RunnerStarts, RunnerOK, fixed
  <2>2. ASSUME NEW r \in Requests, RaiseApproval(r) PROVE RunnerOK'
    BY <2>2 DEF RaiseApproval, RunnerOK, fixed
  <2>3. CASE BeginFinalize
    BY <2>3 DEF BeginFinalize, RunnerOK, fixed
  <2>4. CASE DisposePending
    <3>1. PICK i \in DOMAIN stream :
            LET r == stream[i].req IN
            /\ r \in held /\ held' = held \ {r}
            /\ stream' = Append(stream, Event("resolved", r, "decline"))
      BY <2>4 DEF DisposePending
    <3>2. Event("resolved", stream[i].req, "decline") \in Events
      BY <3>1 DEF RunnerOK
    <3> QED BY <2>4, <3>1, <3>2 DEF DisposePending, RunnerOK, fixed
  <2>5. CASE RunnerEnds
    BY <2>5 DEF RunnerEnds, RunnerOK, fixed
  <2>6. ASSUME NEW r \in Requests, NEW a \in Answers, ResolvePendingApproval(r, a)
        PROVE RunnerOK'
    <3>1. Event("resolved", r, IF a = "decline" THEN a ELSE "accept") \in Events
      OBVIOUS
    <3>2. \/ stream' = stream
          \/ stream' = Append(stream, Event("resolved", r, IF a = "decline" THEN a ELSE "accept"))
      BY <2>6 DEF ResolvePendingApproval
    <3>3. stream' \in Seq(Events)
      BY <3>1, <3>2 DEF RunnerOK
    <3>4. held' \in {held, held \ {r}} /\ UNCHANGED <<fixed, asking, finalizing>>
      BY <2>6 DEF ResolvePendingApproval, fixed
    <3> QED BY <3>3, <3>4 DEF RunnerOK, fixed
  <2>7. ASSUME NEW r \in Requests, RegisterApproval(r) PROVE RunnerOK'
    BY <2>7 DEF RegisterApproval, RunnerOK, fixed
  <2>8. ASSUME NEW r \in Requests, AbortApproval(r) PROVE RunnerOK'
    BY <2>8 DEF AbortApproval, RunnerOK, fixed
  <2> QED BY <2>1, <2>2, <2>3, <2>4, <2>5, <2>6, <2>7, <2>8 DEF Runner
<1> QED BY <1>1, <1>2, <1>3, Unchanged

\* The handler's steps keep the types.
LEMMA IngestionTypeOK == ASSUME TypeOK, Ingestion PROVE TypeOK'
<1> USE DEF TypeOK
<1>1. RunnerOK'
  <2>1. UNCHANGED <<fixed, runner>>
    BY DEF Ingestion, IngestRunnerEvent, TurnStarted, AppendEvent, EnqueueApprovalRequest,
           TryPublishNext, PublishRead, PublishTx, PublishEvent, ApprovalResolved, TurnEnded,
           db, fixed, runner
  <2> QED BY <2>1, Unchanged
<1>2. CASE IngestRunnerEvent
  <2>1. UNCHANGED db /\ UNCHANGED calm
    BY <1>2 DEF IngestRunnerEvent
  <2>2. pc' \in {"idle", "start", "enqueue", "settle", "end"}
    BY <1>2, FirstStepOK
  <2>3. up' = up /\ next' \in {next, None} /\ pos' \in Nat /\ seen' \in TurnStatus
    <3>1. turnStatus \in TurnStatus /\ seen \in TurnStatus /\ "queued" \in TurnStatus
          /\ pos \in Nat
      BY DEF HandlerOK, DatabaseOK, TurnStatus
    <3>2. up' = up /\ next' \in {next, None}
      BY <1>2 DEF IngestRunnerEvent, Handled, Over
    <3>3. pos' \in {pos, pos + 1} /\ seen' \in {"queued", turnStatus}
      BY <1>2 DEF IngestRunnerEvent, Handled, Over
    <3> QED BY <3>1, <3>2, <3>3
  <2>4. HandlerOK'
    BY <2>2, <2>3 DEF HandlerOK, Steps
  <2> QED BY <1>1, <2>1, <2>4, Unchanged
<1>3. CASE TurnStarted
  <2>1. UNCHANGED calm
    BY <1>3 DEF TurnStarted
  <2>2. DatabaseOK'
    BY <1>3 DEF TurnStarted, DatabaseOK, TurnStatus
  <2>3. HandlerOK'
    BY <1>3 DEF TurnStarted, HandlerOK, Goto, Steps
  <2> QED BY <1>1, <2>1, <2>2, <2>3, Unchanged
<1>4. CASE AppendEvent
  <2>1. UNCHANGED calm
    BY <1>4 DEF AppendEvent
  <2>2. DatabaseOK'
    BY <1>4 DEF AppendEvent, DatabaseOK, HandlerOK
  <2>3. HandlerOK'
    BY <1>4 DEF AppendEvent, HandlerOK, Goto, Handled, Over, TurnStatus, Steps
  <2> QED BY <1>1, <2>1, <2>2, <2>3, Unchanged
<1>5. CASE EnqueueApprovalRequest
  <2>1. UNCHANGED calm
    BY <1>5 DEF EnqueueApprovalRequest
  <2>2. DatabaseOK'
    <3> DEFINE r == Current.req
               n == 1 + Cardinality({q \in Requests : created[q] > 0})
    <3>1. n \in Nat
      BY CreatedCount
    <3>2. created' = [created EXCEPT ![r] = IF @ = 0 THEN n ELSE @]
      BY <1>5 DEF EnqueueApprovalRequest
    <3> HIDE DEF n, r
    <3>3. created' \in [Requests -> Nat]
      BY <3>1, <3>2 DEF DatabaseOK
    <3>4. UNCHANGED <<turnStatus, cursor>>
      BY <1>5 DEF EnqueueApprovalRequest
    <3>5. status' = [status EXCEPT ![r] = "queued"] /\ deadline' = [deadline EXCEPT ![r] = FALSE]
          /\ paused' = [paused EXCEPT ![r] = FALSE]
      BY <1>5 DEF EnqueueApprovalRequest, r
    <3> QED BY <3>3, <3>4, <3>5 DEF DatabaseOK, RowStatus
  <2>3. HandlerOK'
    BY <1>5 DEF EnqueueApprovalRequest, HandlerOK, Goto, Steps
  <2> QED BY <1>1, <2>1, <2>2, <2>3, Unchanged
<1>6. CASE TryPublishNext
  <2>1. UNCHANGED db /\ UNCHANGED calm
    BY <1>6 DEF TryPublishNext
  <2>2. HandlerOK'
    BY <1>6 DEF TryPublishNext, HandlerOK, Publish, Handled, Over, TurnStatus, Steps, Oldest,
               WithStatus
  <2> QED BY <1>1, <2>1, <2>2, Unchanged
<1>7. CASE PublishRead
  <2>1. UNCHANGED calm
    BY <1>7 DEF PublishRead
  <2>2. DatabaseOK'
    BY <1>7 DEF PublishRead, DatabaseOK, RowStatus
  <2>3. HandlerOK'
    BY <1>7 DEF PublishRead, HandlerOK, DatabaseOK, Steps, Handled, Over, TurnStatus
  <2> QED BY <1>1, <2>1, <2>2, <2>3, Unchanged
<1>8. CASE PublishTx
  <2>1. UNCHANGED calm
    BY <1>8 DEF PublishTx
  <2>2. DatabaseOK'
    BY <1>8 DEF PublishTx, DatabaseOK, RowStatus, TurnStatus
  <2>3. HandlerOK'
    BY <1>8 DEF PublishTx, HandlerOK, Goto, Steps
  <2> QED BY <1>1, <2>1, <2>2, <2>3, Unchanged
<1>9. CASE PublishEvent
  <2>1. UNCHANGED db
    BY <1>9 DEF PublishEvent
  <2>2. HandlerOK'
    BY <1>9 DEF PublishEvent, HandlerOK, Handled, Over, TurnStatus
  <2>4. CallsOK'
    BY <1>9 DEF PublishEvent, HandlerOK, CallsOK
  <2> QED BY <1>1, <2>1, <2>2, <2>4, Unchanged
<1>10. CASE ApprovalResolved
  <2>1. DatabaseOK'
    BY <1>10 DEF ApprovalResolved, DatabaseOK, RowStatus, TurnStatus
  <2>2. HandlerOK'
    BY <1>10 DEF ApprovalResolved, HandlerOK, Goto, Steps
  <2>3. CallsOK'
    BY <1>10 DEF ApprovalResolved, CallsOK
  <2> QED BY <1>1, <2>1, <2>2, <2>3
<1>11. CASE TurnEnded
  <2>1. UNCHANGED calm
    BY <1>11 DEF TurnEnded
  <2>2. DatabaseOK'
    BY <1>11 DEF TurnEnded, DatabaseOK, HandlerOK, TurnStatus
  <2>3. HandlerOK'
    BY <1>11 DEF TurnEnded, HandlerOK, Handled, Over, TurnStatus
  <2> QED BY <1>1, <2>1, <2>2, <2>3, Unchanged
<1> QED BY <1>2, <1>3, <1>4, <1>5, <1>6, <1>7, <1>8, <1>9, <1>10, <1>11 DEF Ingestion

\* Timers, and the requests of users, keep the types.
LEMMA CallsTypeOK == ASSUME TypeOK, NEW r \in Requests, TimersAndUsers(r) PROVE TypeOK'
<1> USE DEF TypeOK
<1>1. RunnerOK' /\ HandlerOK'
  <2>1. UNCHANGED <<fixed, runner>> /\ UNCHANGED handler
    BY DEF TimersAndUsers, TimerFires, FireAutoApprove, AutoApproveFails, ResolveTurnApproval,
           PauseRead, PauseWrite, PauseFails, ResumeRead, ResumeWrite, fixed, runner, handler
  <2> QED BY <2>1, Unchanged
<1>2. DatabaseOK'
  BY DEF TimersAndUsers, TimerFires, FireAutoApprove, AutoApproveFails, ResolveTurnApproval,
         PauseRead, PauseWrite, PauseFails, ResumeRead, ResumeWrite, db, DatabaseOK
<1>3. CallsOK'
  <2>1. CASE TimerFires(r) \/ AutoApproveFails(r)
    BY <2>1 DEF TimerFires, AutoApproveFails, CallsOK
  <2>5. CASE FireAutoApprove(r)
    <3>1. answers' \subseteq answers \cup {<<r, "auto">>}
      BY <2>5 DEF FireAutoApprove
    <3>2. answers' \subseteq Requests \X Answers
      BY <3>1 DEF CallsOK, Answers
    <3>3. due' \subseteq Requests /\ UNCHANGED <<timers, control, dispatching, faults, userPaused>>
      BY <2>5 DEF FireAutoApprove, CallsOK
    <3> QED BY <3>2, <3>3 DEF CallsOK
  <2>2. ASSUME NEW a \in Decisions, ResolveTurnApproval(r, a) PROVE CallsOK'
    <3>1. a \in Answers
      BY ApprovalAssumption DEF Answers
    <3> QED BY <2>2, <3>1 DEF ResolveTurnApproval, CallsOK
  <2>3. CASE PauseRead(r)
    BY <2>3 DEF PauseRead, CallsOK
  <2>4. CASE PauseWrite(r)
    BY <2>4 DEF PauseWrite, CallsOK
  <2>6. CASE PauseFails(r)
    BY <2>6 DEF PauseFails, CallsOK
  <2>7. CASE ResumeRead(r)
    BY <2>7 DEF ResumeRead, CallsOK
  <2>8. CASE ResumeWrite(r)
    BY <2>8 DEF ResumeWrite, CallsOK
  <2> QED BY <2>1, <2>2, <2>3, <2>4, <2>5, <2>6, <2>7, <2>8 DEF TimersAndUsers
<1> QED BY <1>1, <1>2, <1>3

\* Failures, restarts and the dispatch of the turn keep the types.
LEMMA FaultsTypeOK ==
  ASSUME TypeOK,
         TransientFailure \/ EnsureRunnerEventConsumer \/ DispatchFails
         \/ RestartApi
  PROVE  TypeOK'
<1> USE DEF TypeOK
<1>1. RunnerOK'
  <2>1. UNCHANGED <<fixed, runner>>
    BY DEF TransientFailure, EnsureRunnerEventConsumer, DispatchFails, RestartApi,
           fixed, runner
  <2> QED BY <2>1, Unchanged
<1>2. DatabaseOK'
  BY DEF TransientFailure, EnsureRunnerEventConsumer, DispatchFails, RestartApi,
         db, DatabaseOK, TurnStatus
<1>3. HandlerOK'
  <2>1. CASE TransientFailure \/ RestartApi
    <3>1. up' = FALSE /\ pos' = 0 /\ pc' = "idle" /\ seen' = "queued" /\ next' = None
      BY <2>1 DEF TransientFailure, RestartApi, Over
    <3> QED BY <3>1 DEF HandlerOK, TurnStatus
  <2>2. CASE EnsureRunnerEventConsumer
    <3>1. up' \in BOOLEAN /\ pos' \in Nat
      BY <2>2 DEF EnsureRunnerEventConsumer, DatabaseOK
    <3>2. UNCHANGED <<pc, seen, next>>
      BY <2>2 DEF EnsureRunnerEventConsumer
    <3> QED BY <3>1, <3>2 DEF HandlerOK
  <2>3. CASE DispatchFails
    BY <2>3, Unchanged DEF DispatchFails
  <2> QED BY <2>1, <2>2, <2>3
<1>4. CallsOK'
  <2>1. CASE RestartApi
    <3>1. timers' \subseteq Requests /\ due' \subseteq Requests
      BY <2>1 DEF RestartApi, Pending, WithStatus
    <3>2. answers' \subseteq answers
      BY <2>1 DEF RestartApi
    <3>3. control' \in [Requests -> {None, "pause", "resume"}] /\ dispatching' \in BOOLEAN
      BY <2>1 DEF RestartApi
    <3>4. faults' \in Nat /\ userPaused' = userPaused
      BY <2>1 DEF RestartApi, CallsOK
    <3> QED BY <3>1, <3>2, <3>3, <3>4 DEF CallsOK
  <2>2. CASE TransientFailure
    BY <2>2 DEF TransientFailure, CallsOK
  <2>3. CASE EnsureRunnerEventConsumer
    BY <2>3, Unchanged DEF EnsureRunnerEventConsumer
  <2>4. CASE DispatchFails
    <3>1. dispatching' \in BOOLEAN
      BY <2>4, Zenon DEF DispatchFails
    <3>2. faults' \in Nat
      BY <2>4 DEF DispatchFails, CallsOK
    <3>3. UNCHANGED <<timers, due, answers, control, userPaused>>
      BY <2>4 DEF DispatchFails
    <3> QED BY <3>1, <3>2, <3>3 DEF CallsOK
  <2> QED BY <2>1, <2>2, <2>3, <2>4
<1> QED BY <1>1, <1>2, <1>3, <1>4

\* Every reachable state is well typed, whatever fails or restarts.
THEOREM TypeCorrect == Spec => []TypeOK
<1>1. ASSUME TypeOK, [Next]_vars PROVE TypeOK'
  <2>1. CASE UNCHANGED vars
    BY <1>1, <2>1, Unchanged DEF vars, db, fixed, runner, handler, calm, TypeOK
  <2>2. CASE Next
    BY <1>1, <2>2, RunnerTypeOK, IngestionTypeOK, CallsTypeOK, FaultsTypeOK DEF Next
  <2> QED BY <1>1, <2>1, <2>2
<1> QED BY <1>1, InitTypeOK, PTL DEF Spec

-----------------------------------------------------------------------------
(* One approval at a time.                                                 *)

\* What a publishing handler relies on between counting the pending rows and
\* writing its own: nothing else makes a row pending meanwhile.
NoneWhilePublishing == pc \in {"publishRead", "publishTx"} => Pending = {}

OneInv == OnePending /\ NoneWhilePublishing

\* Nothing is pending initially.
LEMMA InitOne == Init => OneInv
BY DEF Init, OneInv, OnePending, NoneWhilePublishing, Pending, WithStatus, None

\* Of the handler's steps only the publish transaction makes a row pending.
LEMMA IngestionOne == ASSUME TypeOK, OneInv, Ingestion PROVE OneInv'
<1> USE DEF OneInv, OnePending, NoneWhilePublishing, Pending, WithStatus
<1>0. status \in [Requests -> RowStatus]
  BY DEF TypeOK, DatabaseOK
<1>1. CASE IngestRunnerEvent
  BY <1>1, FirstStepOK DEF IngestRunnerEvent, db
<1>2. CASE TurnStarted \/ AppendEvent \/ TurnEnded \/ PublishEvent
  BY <1>2 DEF TurnStarted, AppendEvent, TurnEnded, PublishEvent, db, Goto, Handled, Over
<1>3. CASE EnqueueApprovalRequest
  BY <1>0, <1>3 DEF EnqueueApprovalRequest, Goto
<1>4. CASE TryPublishNext
  BY <1>4 DEF TryPublishNext, db, Publish, Handled, Over
<1>5. CASE PublishRead
  BY <1>0, <1>5 DEF PublishRead, Handled, Over
<1>6. CASE PublishTx
  BY <1>0, <1>6 DEF PublishTx, Goto
<1>7. CASE ApprovalResolved
  BY <1>0, <1>7 DEF ApprovalResolved, Goto
<1> QED BY <1>1, <1>2, <1>3, <1>4, <1>5, <1>6, <1>7 DEF Ingestion

\* No other step changes a row's status or enters the publishing steps.
LEMMA OthersOne ==
  ASSUME OneInv, [Next]_vars, ~Ingestion
  PROVE  OneInv'
<1>1. status' = status /\ pc' \in {pc, "idle"}
  <2>1. CASE Runner
    BY <2>1 DEF Runner, RunnerStarts, RaiseApproval, RegisterApproval, AbortApproval, BeginFinalize,
                DisposePending, RunnerEnds, ResolvePendingApproval, api
  <2>2. ASSUME NEW r \in Requests, TimersAndUsers(r) PROVE status' = status /\ pc' \in {pc, "idle"}
    BY <2>2 DEF TimersAndUsers, TimerFires, FireAutoApprove, AutoApproveFails, ResolveTurnApproval,
                PauseRead, PauseWrite, PauseFails, ResumeRead, ResumeWrite, db, handler
  <2>3. CASE TransientFailure \/ EnsureRunnerEventConsumer \/ DispatchFails
             \/ RestartApi
    BY <2>3 DEF TransientFailure, EnsureRunnerEventConsumer, DispatchFails,
                RestartApi, Over, db, handler
  <2>4. CASE UNCHANGED vars
    BY <2>4 DEF vars
  <2> QED BY <2>1, <2>2, <2>3, <2>4 DEF Next
<1> QED BY <1>1 DEF OneInv, OnePending, NoneWhilePublishing, Pending, WithStatus

\* A turn never has two approvals in front of the user, for any number of
\* requests, faults and restarts: OnePending is strengthened by what the
\* handler knows between tryPublishNext's count and publish's transaction.
THEOREM OneApprovalAtATime == Spec => []OnePending
<1>1. ASSUME TypeOK, OneInv, [Next]_vars PROVE OneInv'
  BY <1>1, IngestionOne, OthersOne
<1>2. OneInv => OnePending
  BY DEF OneInv
<1> QED BY <1>1, <1>2, InitOne, TypeCorrect, PTL DEF Spec

-----------------------------------------------------------------------------
(* The order in which requests become visible.                             *)

Requested(i) == stream[i].type = "requested"

\* The agent raises a request once.
RaisedOnce ==
  /\ \A i \in DOMAIN stream : Requested(i) => stream[i].req \in Requests
  /\ \A i, j \in DOMAIN stream : Requested(i) /\ Requested(j) /\ stream[i].req = stream[j].req => i = j

\* The requests that have a row; createdAt of the rows follows the stream, also of rows that are
\* written again.
Filed == {q \in Requests : created[q] > 0}
Numbered ==
  /\ \A q \in Requests : q \in Filed <=> status[q] # None
  /\ \A q \in Filed : created[q] <= Cardinality(Filed) /\ Raised(q)
  /\ \A q \in Requests, r \in Filed : RaisedBefore(q, r) => q \in Filed /\ created[q] < created[r]

\* What was handled and what the cursor covers has its rows, unless the turn was over.
FiledUpTo(n) == \A i \in DOMAIN stream : i <= n /\ Requested(i) => stream[i].req \in Filed
Reached ==
  /\ cursor <= Len(stream) /\ pos <= Len(stream)
  /\ FiledUpTo(cursor)
  /\ FiledUpTo(pos) \/ (pc = "idle" /\ turnStatus = "ended")

\* The event of a handler that has begun.
Handling ==
  pc # "idle" =>
    /\ up /\ pos < Len(stream)
    /\ pc = "enqueue" => Requested(pos + 1)
    /\ pc \in {"start", "settle", "append", "end"} => ~Requested(pos + 1)
    /\ pc \in {"count", "publishRead", "publishTx", "publishEvent"} /\ Requested(pos + 1)
         => Current.req \in Filed

\* What is about to be published is the oldest row that waits.
Chosen ==
  pc \in {"publishRead", "publishTx"} =>
    status[next] = "queued" /\ \A q \in WithStatus("queued") : created[next] <= created[q]

OrderInv == RaisedOnce /\ Numbered /\ Reached /\ Handling /\ Chosen

\* There are neither rows nor events initially.
LEMMA InitOrder == Init => OrderInv
BY DEF Init, OrderInv, RaisedOnce, Numbered, Filed, Reached, FiledUpTo, Handling, Chosen

\* A step of the runner appends at most one event, a request only the first time.
LEMMA RunnerAppends ==
  ASSUME TypeOK, Runner
  PROVE  /\ UNCHANGED api
         /\ \/ stream' = stream
            \/ \E e \in Events : /\ stream' = Append(stream, e)
                                 /\ e.type = "requested" => e.req \in Requests /\ ~Raised(e.req)
<1> USE EventsOK DEF TypeOK
<1>0. UNCHANGED api
  BY DEF Runner, RunnerStarts, RaiseApproval, RegisterApproval, AbortApproval, BeginFinalize,
         DisposePending, RunnerEnds, ResolvePendingApproval
<1>1. CASE RunnerStarts \/ BeginFinalize \/ RunnerEnds
  BY <1>0, <1>1 DEF RunnerStarts, BeginFinalize, RunnerEnds, Event
<1>2. ASSUME NEW r \in Requests, RaiseApproval(r) \/ RegisterApproval(r) \/ AbortApproval(r)
      PROVE  \/ stream' = stream
             \/ \E e \in Events : /\ stream' = Append(stream, e)
                                  /\ e.type = "requested" => e.req \in Requests /\ ~Raised(e.req)
  BY <1>2 DEF RaiseApproval, RegisterApproval, AbortApproval, Event
<1>3. CASE DisposePending
  <2>1. PICK i \in DOMAIN stream : stream[i].req \in held
                                   /\ stream' = Append(stream, Event("resolved", stream[i].req, "decline"))
    BY <1>3 DEF DisposePending
  <2>2. stream[i].req \in Requests
    BY <2>1 DEF RunnerOK
  <2>3. Event("resolved", stream[i].req, "decline") \in Events
    BY <2>2
  <2> QED BY <1>0, <2>1, <2>3 DEF Event
<1>4. ASSUME NEW r \in Requests, NEW a \in Answers, ResolvePendingApproval(r, a)
      PROVE  \/ stream' = stream
             \/ \E e \in Events : /\ stream' = Append(stream, e)
                                  /\ e.type = "requested" => e.req \in Requests /\ ~Raised(e.req)
  <2>1. Event("resolved", r, IF a = "decline" THEN a ELSE "accept") \in Events
    OBVIOUS
  <2> QED BY <1>4, <2>1 DEF ResolvePendingApproval, Event
<1> QED BY <1>0, <1>1, <1>2, <1>3, <1>4 DEF Runner

\* The runner's actions keep the order.
LEMMA RunnerOrder == ASSUME TypeOK, OrderInv, Runner PROVE OrderInv'
<1> USE DEF OrderInv
<1>0. /\ UNCHANGED <<turnStatus, status, created, cursor, up, pos, pc, next>>
      /\ Filed' = Filed
  BY RunnerAppends DEF api, Filed
<1>1. stream \in Seq(Events) /\ cursor \in Nat /\ pos \in Nat
  BY DEF TypeOK, RunnerOK, DatabaseOK, HandlerOK
<1>2. CASE stream' = stream
  BY <1>0, <1>2 DEF RaisedOnce, Numbered, Raised, RaisedBefore, Reached, FiledUpTo, Handling, Chosen,
                    Requested, Current, WithStatus
<1>3. ASSUME NEW e \in Events, stream' = Append(stream, e),
             e.type = "requested" => e.req \in Requests /\ ~Raised(e.req)
      PROVE  OrderInv'
  <2>1. /\ DOMAIN stream' = 1..(Len(stream) + 1) /\ DOMAIN stream = 1..Len(stream)
        /\ Len(stream') = Len(stream) + 1 /\ Len(stream) \in Nat
        /\ stream'[Len(stream) + 1] = e
        /\ \A i \in DOMAIN stream : stream'[i] = stream[i]
    BY <1>1, <1>3
  <2>2. RaisedOnce'
    BY <1>3, <2>1 DEF RaisedOnce, Requested, Raised
  <2>3. Numbered'
    <3>1. ASSUME NEW q \in Filed' PROVE created'[q] <= Cardinality(Filed') /\ Raised(q)'
      <4>1. created[q] <= Cardinality(Filed) /\ Raised(q)
        BY <1>0, <3>1 DEF Numbered
      <4>2. Raised(q)'
        BY <2>1, <4>1 DEF Raised
      <4> QED BY <1>0, <4>1, <4>2
    <3>2. ASSUME NEW q \in Requests, NEW r \in Filed', RaisedBefore(q, r)'
          PROVE  q \in Filed' /\ created'[q] < created'[r]
      <4>1. PICK i, j \in DOMAIN stream' : /\ i < j /\ stream'[i] = Event("requested", q, None)
                                           /\ stream'[j] = Event("requested", r, None)
        BY <3>2 DEF RaisedBefore
      <4>2. Raised(r)
        BY <1>0, <3>2 DEF Numbered
      <4>3. j # Len(stream) + 1
        BY <1>3, <2>1, <4>1, <4>2 DEF Event
      <4>4. i \in DOMAIN stream /\ j \in DOMAIN stream
        BY <2>1, <4>1, <4>3
      <4>5. RaisedBefore(q, r)
        BY <2>1, <4>1, <4>4 DEF RaisedBefore
      <4> QED BY <1>0, <3>2, <4>5 DEF Numbered
    <3>3. \A q \in Requests : q \in Filed' <=> status'[q] # None
      BY <1>0 DEF Numbered
    <3> QED BY <3>1, <3>2, <3>3 DEF Numbered
  <2>5. Reached'
    <3>1. \A n \in Nat : n <= Len(stream) /\ FiledUpTo(n) =>
               (\A i \in DOMAIN stream' : i <= n /\ stream'[i].type = "requested" => stream'[i].req \in Filed')
      BY <1>0, <2>1 DEF FiledUpTo, Requested
    <3> QED BY <1>0, <1>1, <2>1, <3>1 DEF Reached, FiledUpTo, Requested
  <2>6. Handling'
    BY <1>0, <1>1, <2>1 DEF Handling, Requested, Current
  <2>7. Chosen'
    BY <1>0 DEF Chosen, WithStatus
  <2> QED BY <2>2, <2>3, <2>5, <2>6, <2>7
<1> QED BY <1>2, <1>3, RunnerAppends

\* The rows stay as they are: so does the order of the rows.
LEMMA SameRows ==
  ASSUME OrderInv, UNCHANGED <<stream, status, created, cursor>>
  PROVE  /\ RaisedOnce' /\ Numbered' /\ FiledUpTo(cursor)' /\ Filed' = Filed
         /\ cursor' <= Len(stream')
BY DEF OrderInv, RaisedOnce, Numbered, Reached, FiledUpTo, Filed, Requested, Raised, RaisedBefore

\* What a handler has gone through is behind it.
LEMMA OneFurther ==
  ASSUME TypeOK, OrderInv, pc # "idle", Requested(pos + 1) => Current.req \in Filed
  PROVE  FiledUpTo(pos + 1) /\ pos + 1 <= Len(stream) /\ FiledUpTo(pos)
<1>1. pos \in Nat /\ Len(stream) \in Nat /\ DOMAIN stream = 1..Len(stream)
  BY DEF TypeOK, RunnerOK, HandlerOK
<1>2. pos < Len(stream) /\ FiledUpTo(pos)
  BY DEF OrderInv, Handling, Reached
<1>3. ASSUME NEW i \in DOMAIN stream, i <= pos + 1, Requested(i) PROVE stream[i].req \in Filed
  <2>1. i \in Int
    BY <1>1
  <2>2. CASE i = pos + 1
    BY <1>3, <2>2 DEF Current
  <2>3. CASE i <= pos
    BY <1>2, <1>3, <2>3 DEF FiledUpTo
  <2> QED BY <1>1, <1>3, <2>1, <2>2, <2>3
<1> QED BY <1>1, <1>2, <1>3 DEF FiledUpTo

\* The row of the event at hand is written, first or again.
LEMMA EnqueueOrder == ASSUME TypeOK, OrderInv, EnqueueApprovalRequest PROVE OrderInv'
<1> DEFINE r0 == Current.req
           n == 1 + Cardinality(Filed)
<1>1. /\ pc = "enqueue" /\ pc' = "count" /\ pos' = pos /\ UNCHANGED <<up, stream, cursor, turnStatus>>
      /\ status' = [status EXCEPT ![r0] = "queued"]
      /\ created' = [created EXCEPT ![r0] = IF @ = 0 THEN n ELSE @]
  BY DEF EnqueueApprovalRequest, Goto, runner, Filed
<1>2. /\ pos \in Nat /\ Len(stream) \in Nat /\ DOMAIN stream = 1..Len(stream) /\ pos < Len(stream)
      /\ Requested(pos + 1) /\ FiledUpTo(pos) /\ up
      /\ created \in [Requests -> Nat] /\ status \in [Requests -> RowStatus]
  BY <1>1 DEF TypeOK, RunnerOK, HandlerOK, DatabaseOK, OrderInv, Handling, Reached
<1>3. r0 \in Requests /\ stream[pos + 1].req = r0
  BY <1>2 DEF OrderInv, RaisedOnce, Current
<1>4. IsFiniteSet(Filed) /\ Cardinality(Filed) \in Nat
  BY ApprovalAssumption, FS_Subset, FS_CardinalityType DEF Filed
<1>5. n \in Nat /\ n > 0 /\ \A q \in Filed : created[q] < n
  <2>1. n \in Nat /\ n > 0
    BY <1>4
  <2>2. ASSUME NEW q \in Filed PROVE created[q] < n
    <3>1. created[q] \in Nat /\ created[q] <= Cardinality(Filed)
      BY <1>2 DEF OrderInv, Numbered, Filed
    <3> HIDE DEF Filed
    <3> QED BY <1>4, <3>1
  <2> QED BY <2>1, <2>2
<1>6. Cardinality(Filed \cup {r0}) = IF r0 \in Filed THEN Cardinality(Filed) ELSE n
  BY <1>4, FS_AddElement
<1> HIDE DEF r0, n
<1>7. /\ \A q \in Requests \ {r0} : created'[q] = created[q] /\ status'[q] = status[q]
      /\ created'[r0] = (IF r0 \in Filed THEN created[r0] ELSE n) /\ status'[r0] = "queued"
  BY <1>1, <1>2, <1>3 DEF Filed
<1>8. Filed' = Filed \cup {r0}
  BY <1>2, <1>3, <1>5, <1>7 DEF Filed
<1>9. RaisedOnce'
  BY <1>1 DEF OrderInv, RaisedOnce, Requested
<1>10. Numbered'
  <2>1. ASSUME NEW q \in Filed' PROVE created'[q] <= Cardinality(Filed') /\ Raised(q)'
    <3>1. CASE q \in Filed /\ q # r0
      <4>1. created[q] <= Cardinality(Filed) /\ Raised(q) /\ created[q] < n
        BY <1>5, <3>1 DEF OrderInv, Numbered
      <4>2. created'[q] = created[q] /\ created[q] \in Nat
        BY <1>2, <1>7, <3>1 DEF Filed
      <4>3. Raised(q)'
        BY <1>1, <4>1 DEF Raised
      <4>4. created'[q] <= Cardinality(Filed')
        BY <1>4, <1>5, <1>6, <1>8, <4>1, <4>2
      <4> QED BY <4>1, <4>2, <4>3, <4>4
    <3>2. CASE q = r0
      <4>1. Raised(q)'
        BY <1>1, <1>2, <1>3, <3>2 DEF Raised, Requested
      <4>2. created'[q] <= Cardinality(Filed')
        <5>1. CASE r0 \in Filed
          BY <1>6, <1>7, <1>8, <3>2, <5>1 DEF OrderInv, Numbered
        <5>2. CASE r0 \notin Filed
          BY <1>5, <1>6, <1>7, <1>8, <3>2, <5>2
        <5> QED BY <5>1, <5>2
      <4> QED BY <4>1, <4>2
    <3> QED BY <1>8, <2>1, <3>1, <3>2
  <2>2. ASSUME NEW q \in Requests, NEW r \in Filed', RaisedBefore(q, r)'
        PROVE  q \in Filed' /\ created'[q] < created'[r]
    <3>1. PICK i, j \in DOMAIN stream : /\ i < j /\ stream[i] = Event("requested", q, None)
                                        /\ stream[j] = Event("requested", r, None)
      BY <1>1, <2>2 DEF RaisedBefore
    <3>2. RaisedBefore(q, r)
      BY <3>1 DEF RaisedBefore
    <3>3. Requested(i) /\ Requested(j) /\ stream[i].req = q /\ stream[j].req = r /\ q # r
      <4>1. Requested(i) /\ Requested(j) /\ stream[i].req = q /\ stream[j].req = r
        BY <3>1 DEF Requested, Event
      <4> QED BY <1>2, <3>1, <4>1 DEF OrderInv, RaisedOnce
    <3>4. CASE r \in Filed
      <4>1. q \in Filed /\ created[q] < created[r]
        BY <3>2, <3>4 DEF OrderInv, Numbered
      <4>2. created'[q] = created[q] /\ created'[r] = created[r]
        BY <1>7, <3>4, <4>1 DEF Filed
      <4> QED BY <1>8, <4>1, <4>2
    <3>5. CASE r \notin Filed
      <4>1. r = r0
        BY <1>8, <2>2, <3>5
      <4>2. j = pos + 1
        BY <1>2, <1>3, <3>1, <3>3, <4>1 DEF OrderInv, RaisedOnce
      <4>3. q \in Filed
        BY <1>2, <3>1, <3>3, <4>2 DEF FiledUpTo
      <4>4. created'[q] = created[q] /\ created'[r] = n
        BY <1>7, <3>3, <3>5, <4>1
      <4> QED BY <1>5, <1>8, <4>3, <4>4
    <3> QED BY <3>4, <3>5
  <2>3. ASSUME NEW q \in Requests PROVE q \in Filed' <=> status'[q] # None
    <3>1. CASE q = r0
      BY <1>7, <1>8, <3>1 DEF None
    <3>2. CASE q # r0
      BY <1>7, <1>8, <3>2 DEF OrderInv, Numbered
    <3> QED BY <3>1, <3>2
  <2> QED BY <2>1, <2>2, <2>3 DEF Numbered
<1>11. FiledUpTo(cursor)' /\ FiledUpTo(pos)'
  BY <1>1, <1>2, <1>8 DEF OrderInv, Reached, FiledUpTo, Requested
<1>12. Handling' /\ Chosen'
  BY <1>1, <1>2, <1>3, <1>8 DEF Handling, Chosen, Current, Requested
<1>13. cursor' <= Len(stream') /\ pos' <= Len(stream')
  BY <1>1 DEF OrderInv, Reached
<1> QED BY <1>9, <1>10, <1>11, <1>12, <1>13 DEF OrderInv, Reached

\* Writing another status than "none" to a row that exists leaves the order alone.
LEMMA StatusOrder ==
  ASSUME TypeOK, OrderInv, UNCHANGED <<stream, created, cursor>>, NEW r \in Requests,
         NEW s \in RowStatus, s # None, status[r] # None, status' = [status EXCEPT ![r] = s]
  PROVE  RaisedOnce' /\ Numbered' /\ FiledUpTo(cursor)' /\ Filed' = Filed /\ cursor' <= Len(stream')
<1>1. status \in [Requests -> RowStatus] /\ Filed' = Filed
  BY DEF TypeOK, DatabaseOK, Filed
<1>2. \A q \in Requests : status[q] # None <=> status'[q] # None
  BY <1>1
<1>3. Numbered'
  BY <1>1, <1>2 DEF OrderInv, Numbered, Raised, RaisedBefore
<1> QED BY <1>1, <1>3 DEF OrderInv, RaisedOnce, Reached, FiledUpTo, Requested

\* The handler's steps keep the order.
LEMMA IngestionOrder == ASSUME TypeOK, OrderInv, Ingestion PROVE OrderInv'
<1>0. /\ pos \in Nat /\ cursor \in Nat /\ Len(stream) \in Nat /\ DOMAIN stream = 1..Len(stream)
      /\ UNCHANGED stream
  <2>1. UNCHANGED stream
    BY DEF Ingestion, IngestRunnerEvent, TurnStarted, AppendEvent, EnqueueApprovalRequest,
           TryPublishNext, PublishRead, PublishTx, PublishEvent, ApprovalResolved, TurnEnded, runner
  <2> QED BY <2>1 DEF TypeOK, RunnerOK, HandlerOK, DatabaseOK
<1>1. CASE IngestRunnerEvent
  <2>1. pc = "idle" /\ pos < Len(stream) /\ UNCHANGED <<turnStatus, status, created, cursor>>
    BY <1>1 DEF IngestRunnerEvent, db
  <2>2. CASE pos + 1 <= cursor \/ turnStatus = "ended"
    <3>1. pc' = "idle" /\ pos' = pos + 1
      BY <1>1, <2>2 DEF IngestRunnerEvent, Handled, Over
    <3>2. FiledUpTo(pos + 1) \/ turnStatus = "ended"
      BY <1>0, <2>2 DEF OrderInv, Reached, FiledUpTo
    <3>3. Reached'
      BY <1>0, <2>1, <3>1, <3>2, SameRows DEF Reached, FiledUpTo, Requested
    <3> QED BY <1>0, <2>1, <3>1, <3>3, SameRows DEF OrderInv, Handling, Chosen
  <2>3. CASE ~(pos + 1 <= cursor \/ turnStatus = "ended")
    <3>1. pc' = FirstStep(Current.type) /\ pos' = pos /\ up /\ up' = up
      BY <1>1, <2>3 DEF IngestRunnerEvent
    <3>2. FiledUpTo(pos)
      BY <2>3 DEF OrderInv, Reached
    <3>3. Reached'
      BY <1>0, <2>1, <3>1, <3>2, SameRows DEF Reached, FiledUpTo, Requested, OrderInv
    <3>4. Current.type \in EventTypes
      BY <2>1, CurrentOK DEF Events
    <3>5. Handling' /\ Chosen'
      BY <1>0, <2>1, <3>1, <3>4 DEF Handling, Chosen, Requested, Current, FirstStep, EventTypes
    <3> QED BY <1>0, <2>1, <3>3, <3>5, SameRows DEF OrderInv
  <2> QED BY <2>2, <2>3
<1>2. CASE TurnStarted
  <2>1. pc = "start" /\ pc' = "append" /\ UNCHANGED <<up, pos, status, created, cursor>>
    BY <1>2 DEF TurnStarted, Goto
  <2>2. Reached'
    BY <1>0, <2>1, SameRows DEF Reached, FiledUpTo, Requested, OrderInv
  <2>3. Handling' /\ Chosen'
    BY <1>0, <2>1 DEF OrderInv, Handling, Chosen, Requested, Current
  <2> QED BY <1>0, <2>1, <2>2, <2>3, SameRows DEF OrderInv
<1>3. CASE AppendEvent \/ TurnEnded
  <2>1. /\ pc \in {"append", "end"} /\ cursor' = pos + 1 /\ UNCHANGED <<up, status, created>>
        /\ (pc' = "idle" /\ pos' = pos + 1) \/ (pc' = "count" /\ pos' = pos)
    BY <1>3 DEF AppendEvent, TurnEnded, Goto, Handled, Over
  <2>2. ~Requested(pos + 1) /\ pos < Len(stream) /\ up
    BY <2>1 DEF OrderInv, Handling
  <2>3. FiledUpTo(pos + 1) /\ FiledUpTo(pos) /\ pos + 1 <= Len(stream)
    BY <2>1, <2>2, OneFurther
  <2>4. Filed' = Filed /\ RaisedOnce' /\ Numbered'
    <3>1. Filed' = Filed
      BY <2>1 DEF Filed
    <3>2. RaisedOnce'
      BY <1>0 DEF OrderInv, RaisedOnce, Requested
    <3>3. Numbered'
      BY <1>0, <2>1, <3>1 DEF OrderInv, Numbered, Raised, RaisedBefore
    <3> QED BY <3>1, <3>2, <3>3
  <2>5. Reached'
    BY <1>0, <2>1, <2>3, <2>4 DEF Reached, FiledUpTo, Requested, OrderInv
  <2>6. Handling' /\ Chosen'
    BY <1>0, <2>1, <2>2 DEF Handling, Chosen, Requested, Current
  <2> QED BY <2>4, <2>5, <2>6 DEF OrderInv
<1>4. CASE EnqueueApprovalRequest
  BY <1>4, EnqueueOrder
<1>5. CASE TryPublishNext
  <2>1. pc = "count" /\ UNCHANGED <<up, status, created, cursor, turnStatus>>
    BY <1>5 DEF TryPublishNext, db, Handled, Publish
  <2>2. FiledUpTo(pos + 1) /\ FiledUpTo(pos) /\ pos + 1 <= Len(stream)
    BY <2>1, OneFurther DEF OrderInv, Handling
  <2>3. CASE pc' = "idle" /\ pos' = pos + 1
    <3>1. Reached'
      BY <1>0, <2>1, <2>2, <2>3, SameRows DEF Reached, FiledUpTo, Requested
    <3> QED BY <1>0, <2>1, <2>3, <3>1, SameRows DEF OrderInv, Handling, Chosen
  <2>4. CASE next' \in Oldest(WithStatus("queued")) /\ pc' = "publishRead" /\ pos' = pos
    <3>1. Reached'
      BY <1>0, <2>1, <2>2, <2>4, SameRows DEF Reached, FiledUpTo, Requested, OrderInv
    <3>2. Handling'
      BY <1>0, <2>1, <2>4, SameRows DEF OrderInv, Handling, Requested, Current
    <3>3. Chosen'
      BY <2>1, <2>4 DEF Chosen, Oldest, WithStatus
    <3> QED BY <1>0, <2>1, <3>1, <3>2, <3>3, SameRows DEF OrderInv
  <2> QED BY <1>5, <2>3, <2>4 DEF TryPublishNext, Publish, Handled, Over
<1>6. CASE PublishRead
  <2>1. /\ pc = "publishRead" /\ next \in Requests /\ UNCHANGED <<up, created, cursor, turnStatus>>
        /\ status[next] = "queued"
    BY <1>6 DEF PublishRead, Handled, TypeOK, HandlerOK, OrderInv, Chosen
  <2>2. FiledUpTo(pos + 1) /\ FiledUpTo(pos) /\ pos + 1 <= Len(stream)
    BY <2>1, OneFurther DEF OrderInv, Handling
  <2>3. CASE turnStatus = "ended"
    <3>1. pc' = "idle" /\ pos' = pos + 1 /\ status' = [status EXCEPT ![next] = "rejected"]
      BY <1>6, <2>3 DEF PublishRead, Handled, Over
    <3>2. RaisedOnce' /\ Numbered' /\ FiledUpTo(cursor)' /\ Filed' = Filed /\ cursor' <= Len(stream')
      BY <1>0, <2>1, <3>1, StatusOrder DEF RowStatus, None
    <3>3. Reached'
      BY <1>0, <2>2, <3>1, <3>2 DEF Reached, FiledUpTo, Requested
    <3> QED BY <3>1, <3>2, <3>3 DEF OrderInv, Handling, Chosen
  <2>4. CASE turnStatus # "ended"
    <3>1. pc' = "publishTx" /\ UNCHANGED <<pos, next, status>>
      BY <1>6, <2>4 DEF PublishRead
    <3>2. Reached'
      BY <1>0, <2>1, <2>2, <3>1, SameRows DEF Reached, FiledUpTo, Requested, OrderInv
    <3>3. Handling'
      BY <1>0, <2>1, <3>1, SameRows DEF OrderInv, Handling, Requested, Current
    <3>4. Chosen'
      BY <2>1, <3>1 DEF OrderInv, Chosen, WithStatus
    <3> QED BY <1>0, <2>1, <3>1, <3>2, <3>3, <3>4, SameRows DEF OrderInv
  <2> QED BY <2>3, <2>4
<1>7. CASE PublishTx
  <2>1. /\ pc = "publishTx" /\ pc' = "publishEvent" /\ next \in Requests /\ pos' = pos
        /\ UNCHANGED <<up, created, cursor>> /\ status' = [status EXCEPT ![next] = "pending"]
        /\ status[next] = "queued"
    BY <1>7 DEF PublishTx, TypeOK, HandlerOK, Goto, OrderInv, Chosen
  <2>2. RaisedOnce' /\ Numbered' /\ FiledUpTo(cursor)' /\ Filed' = Filed /\ cursor' <= Len(stream')
    BY <1>0, <2>1, StatusOrder DEF RowStatus, None
  <2>3. Reached'
    BY <1>0, <2>1, <2>2 DEF Reached, FiledUpTo, Requested, OrderInv
  <2>4. Handling' /\ Chosen'
    BY <1>0, <2>1, <2>2 DEF OrderInv, Handling, Requested, Current, Chosen
  <2> QED BY <2>2, <2>3, <2>4 DEF OrderInv
<1>8. CASE PublishEvent
  <2>1. pc = "publishEvent" /\ pc' = "idle" /\ pos' = pos + 1 /\ UNCHANGED <<status, created, cursor>>
    BY <1>8 DEF PublishEvent, db, Handled, Over
  <2>2. FiledUpTo(pos + 1) /\ pos + 1 <= Len(stream)
    BY <2>1, OneFurther DEF OrderInv, Handling
  <2>3. Reached'
    BY <1>0, <2>1, <2>2, SameRows DEF Reached, FiledUpTo, Requested
  <2> QED BY <1>0, <2>1, <2>3, SameRows DEF OrderInv, Handling, Chosen
<1>9. CASE ApprovalResolved
  <2>1. /\ pc = "settle" /\ pc' = "append" /\ pos' = pos /\ UNCHANGED <<up, created, cursor>>
    BY <1>9 DEF ApprovalResolved, Goto
  <2>2. \/ status' = status
        \/ \E r \in Requests, s \in {"approved", "rejected"} :
             status[r] = "pending" /\ status' = [status EXCEPT ![r] = s]
    <3> DEFINE r0 == Current.req
               s0 == IF Current.decision = "accept" THEN "approved" ELSE "rejected"
    <3>1. status' = [status EXCEPT ![r0] = IF @ # "pending" THEN @ ELSE s0]
      BY <1>9 DEF ApprovalResolved
    <3>2. status \in [Requests -> RowStatus] /\ s0 \in {"approved", "rejected"}
      BY DEF TypeOK, DatabaseOK
    <3> HIDE DEF r0, s0
    <3>3. CASE r0 \in Requests /\ status[r0] = "pending"
      <4>1. status' = [status EXCEPT ![r0] = s0]
        BY <3>1, <3>2, <3>3
      <4> QED BY <3>2, <3>3, <4>1
    <3>4. CASE ~(r0 \in Requests /\ status[r0] = "pending")
      BY <3>1, <3>2, <3>4
    <3> QED BY <3>3, <3>4
  <2>3. RaisedOnce' /\ Numbered' /\ FiledUpTo(cursor)' /\ Filed' = Filed /\ cursor' <= Len(stream')
    <3>1. CASE status' = status
      BY <1>0, <2>1, <3>1, SameRows
    <3>2. ASSUME NEW r \in Requests, NEW s \in {"approved", "rejected"}, status[r] = "pending",
                 status' = [status EXCEPT ![r] = s]
          PROVE  RaisedOnce' /\ Numbered' /\ FiledUpTo(cursor)' /\ Filed' = Filed /\ cursor' <= Len(stream')
      BY <1>0, <2>1, <3>2, StatusOrder DEF RowStatus, None
    <3> QED BY <2>2, <3>1, <3>2
  <2>4. Reached'
    BY <1>0, <2>1, <2>3 DEF Reached, FiledUpTo, Requested, OrderInv
  <2>5. Handling' /\ Chosen'
    BY <1>0, <2>1, <2>3 DEF OrderInv, Handling, Requested, Current, Chosen
  <2> QED BY <2>3, <2>4, <2>5 DEF OrderInv
<1> QED BY <1>1, <1>2, <1>3, <1>4, <1>5, <1>6, <1>7, <1>8, <1>9 DEF Ingestion

\* So do all the others, which write neither rows nor events: a failure sends the handler back to
\* what the cursor covers.
LEMMA OthersOrder ==
  ASSUME TypeOK, OrderInv, [Next]_vars, ~Ingestion, ~Runner
  PROVE  OrderInv' /\ status' = status
<1>1. UNCHANGED <<stream, status, created, cursor>>
  <2>1. ASSUME NEW r \in Requests, TimersAndUsers(r) PROVE UNCHANGED <<stream, status, created, cursor>>
    BY <2>1 DEF TimersAndUsers, TimerFires, FireAutoApprove, AutoApproveFails, ResolveTurnApproval,
                PauseRead, PauseWrite, PauseFails, ResumeRead, ResumeWrite, db, runner
  <2>2. CASE TransientFailure \/ EnsureRunnerEventConsumer \/ DispatchFails \/ RestartApi
    BY <2>2 DEF TransientFailure, EnsureRunnerEventConsumer, DispatchFails, RestartApi, db, runner
  <2>3. CASE UNCHANGED vars
    BY <2>3 DEF vars
  <2> QED BY <2>1, <2>2, <2>3 DEF Next
<1>2. \/ UNCHANGED <<up, pc, pos, next>> /\ (turnStatus' = turnStatus \/ turnStatus' = "ended")
      \/ pc' = "idle" /\ pos' \in {0, cursor}
  <2>1. ASSUME NEW r \in Requests, TimersAndUsers(r) PROVE UNCHANGED <<up, pc, pos, next, turnStatus>>
    BY <2>1 DEF TimersAndUsers, TimerFires, FireAutoApprove, AutoApproveFails, ResolveTurnApproval,
                PauseRead, PauseWrite, PauseFails, ResumeRead, ResumeWrite, db, handler
  <2>2. CASE TransientFailure \/ RestartApi \/ DispatchFails
    BY <2>2 DEF TransientFailure, RestartApi, DispatchFails, Over, handler
  <2>3. CASE EnsureRunnerEventConsumer
    BY <2>3 DEF EnsureRunnerEventConsumer, OrderInv, Handling
  <2>4. CASE UNCHANGED vars
    BY <2>4 DEF vars
  <2> QED BY <2>1, <2>2, <2>3, <2>4 DEF Next
<1>3. RaisedOnce' /\ Numbered' /\ FiledUpTo(cursor)' /\ Filed' = Filed /\ cursor' <= Len(stream')
  BY <1>1, SameRows
<1>4. Len(stream) \in Nat /\ DOMAIN stream = 1..Len(stream) /\ cursor \in Nat
  BY DEF TypeOK, RunnerOK, DatabaseOK
<1>5. CASE UNCHANGED <<up, pc, pos, next>> /\ (turnStatus' = turnStatus \/ turnStatus' = "ended")
  <2>1. Reached'
    BY <1>1, <1>3, <1>5 DEF OrderInv, Reached, FiledUpTo, Requested
  <2>2. Handling' /\ Chosen'
    BY <1>1, <1>3, <1>5 DEF OrderInv, Handling, Chosen, Requested, Current, WithStatus
  <2> QED BY <1>1, <1>3, <2>1, <2>2 DEF OrderInv
<1>6. CASE pc' = "idle" /\ pos' \in {0, cursor}
  <2>1. Reached'
    BY <1>1, <1>3, <1>4, <1>6 DEF OrderInv, Reached, FiledUpTo, Requested
  <2> QED BY <1>1, <1>3, <1>6, <2>1 DEF OrderInv, Handling, Chosen
<1> QED BY <1>2, <1>5, <1>6

\* Requests become visible in the order the agent raised them, whatever fails, restarts or is
\* replayed in between: the rows are numbered as the stream has them, and the publishing handler
\* takes the oldest that waits.
THEOREM VisibleInOrder == Spec => PublishedInOrder
<1> DEFINE Ordered == \A r \in Requests : status[r] # "pending" /\ status'[r] = "pending" =>
                        \A q \in Requests : RaisedBefore(q, r) => status[q] \notin {None, "queued"}
<1>1. ASSUME TypeOK, OrderInv, [Next]_vars PROVE OrderInv'
  BY <1>1, RunnerOrder, IngestionOrder, OthersOrder
<1>2. ASSUME TypeOK, OrderInv, [Next]_vars PROVE Ordered
  <2> SUFFICES ASSUME NEW r \in Requests, status[r] # "pending", status'[r] = "pending",
                      NEW q \in Requests, RaisedBefore(q, r)
               PROVE  status[q] \notin {None, "queued"}
    OBVIOUS
  <2>1. status \in [Requests -> RowStatus] /\ created \in [Requests -> Nat]
    BY <1>2 DEF TypeOK, DatabaseOK
  <2>2. Ingestion
    BY <1>2, OthersOrder, RunnerAppends DEF api
  <2>3. PublishTx
    BY <2>1, <2>2 DEF Ingestion, IngestRunnerEvent, TurnStarted, AppendEvent, EnqueueApprovalRequest,
           TryPublishNext, PublishRead, PublishEvent, ApprovalResolved, TurnEnded, db
  <2>4. r = next /\ pc = "publishTx"
    BY <2>1, <2>3 DEF PublishTx
  <2>5. status[r] = "queued" /\ \A p \in WithStatus("queued") : created[r] <= created[p]
    BY <1>2, <2>4 DEF OrderInv, Chosen
  <2>6. r \in Filed
    BY <2>5, <1>2 DEF OrderInv, Numbered, None
  <2>7. q \in Filed /\ created[q] < created[r]
    BY <1>2, <2>6 DEF OrderInv, Numbered
  <2>8. status[q] # "queued"
    BY <2>1, <2>5, <2>7 DEF WithStatus
  <2> QED BY <1>2, <2>7, <2>8 DEF OrderInv, Numbered
<1>3. Ordered <=> \A r \in Requests : status[r] # "pending" /\ status'[r] = "pending" =>
                    \A q \in Requests : RaisedBefore(q, r) => status[q] \notin {None, "queued"}
  OBVIOUS
<1> QED BY <1>1, <1>2, InitOrder, TypeCorrect, PTL DEF Spec, PublishedInOrder

-----------------------------------------------------------------------------
(* What the API and the runner agree on.                                   *)

\* A Codex turn whose dispatch is reported as it went, and a handler that is never stopped between
\* its first write and its last: beyond that runs show what goes wrong.
Finishes ==
  /\ Backends = {"codex"} /\ ~DispatchMayFail
  /\ Interruptible \cap {"append", "count", "publishRead", "publishTx", "publishEvent"} = {}

Resolved(i) == stream[i].type = "resolved"
Answered(q, n) == \E k \in DOMAIN stream : k <= n /\ Resolved(k) /\ stream[k].req = q
Settled(q) == Answered(q, cursor) \/ (pc = "append" /\ Resolved(pos + 1) /\ Current.req = q)

\* The stream of a Codex turn: every request is answered once, the oldest first, and nothing follows
\* the end.
CodexStream ==
  /\ backend = "codex" /\ ~dispatching /\ asking = {}
  /\ \A i \in DOMAIN stream : Requested(i) => stream[i].decision = None
  /\ \A k \in DOMAIN stream : Resolved(k) =>
                         \E i \in DOMAIN stream : i < k /\ Requested(i) /\ stream[i].req = stream[k].req
  /\ \A k, l \in DOMAIN stream : Resolved(k) /\ Resolved(l) /\ stream[k].req = stream[l].req => k = l
  /\ held = {r \in Requests : Raised(r) /\ ~Answered(r, Len(stream))}
  /\ RunnerEnded => finalizing /\ held = {}
  /\ \A i \in DOMAIN stream : stream[i].type = "ended" => i = Len(stream)

\* Answers go to the oldest request the agent waits for.
OldestFirst ==
  /\ \A k \in DOMAIN stream : Resolved(k) =>
                         \A q \in Requests : RaisedBefore(q, stream[k].req) => Answered(q, k - 1)
  /\ \A x \in answers : Raised(x[1]) /\ \A q \in Requests : RaisedBefore(q, x[1]) => q \notin held

\* What a handler is at, and what the events behind it were.
AtEvent ==
  /\ \A i \in DOMAIN stream : cursor < i /\ i <= pos => Requested(i)
  /\ pc \in {"start", "enqueue", "settle", "append", "end"} => cursor <= pos
  /\ pc \in {"count", "publishRead", "publishTx", "publishEvent"} =>
         Requested(pos + 1) \/ (Resolved(pos + 1) /\ cursor = pos + 1)
  /\ pc = "start" => Current.type = "started"
  /\ pc = "settle" => Current.type = "resolved"
  /\ pc = "end" => Current.type = "ended"
  /\ pc = "append" => Current.type \in {"started", "resolved"}
  /\ turnStatus = "ended" => pc = "idle" /\ cursor = Len(stream) /\ RunnerEnded
  /\ pc \in {"start", "settle", "publishTx"} => seen = turnStatus

\* The rows that are open are those of requests not answered yet, and the one that is visible is the
\* oldest of them.
Waiting == WithStatus("queued")
Publishing == pc \in {"count", "publishRead", "publishTx"} \/ (pc = "append" /\ Resolved(pos + 1))
OpenRows == \A q \in Filed : status[q] \in {"queued", "pending"} <=> ~Settled(q)
FrontIsPending ==
  /\ \A p \in Pending, q \in Waiting : created[p] <= created[q]
  /\ Publishing \/ Waiting = {} \/ Pending # {}

\* The status of the turn says so, except while the handler publishes.
StatusTells ==
  /\ pc \notin {"count", "publishRead", "publishTx"} /\ turnStatus # "ended" =>
       (turnStatus = "waiting_approval" <=> Pending # {})
  /\ pc = "count" => /\ Pending # {} => turnStatus = "waiting_approval"
                     /\ Requested(pos + 1) \/ (turnStatus = "waiting_approval" <=> Pending # {})
                     /\ Requested(pos + 1) => Waiting # {}

AgreeInv == CodexStream /\ OldestFirst /\ AtEvent /\ OpenRows /\ FrontIsPending /\ StatusTells

\* Initially nothing is asked, and nothing visible.
LEMMA InitAgree == Init /\ Finishes => AgreeInv
BY DEF Init, Finishes, AgreeInv, CodexStream, OldestFirst, AtEvent, OpenRows, FrontIsPending, StatusTells,
       Raised, Answered, Pending, WithStatus, Waiting, Filed, RunnerEnded, Emits, None

\* Of two requests that were raised one was raised before the other.
LEMMA Total ==
  ASSUME TypeOK, OrderInv, CodexStream, NEW q \in Requests, NEW r \in Requests, Raised(q), Raised(r), q # r
  PROVE  RaisedBefore(q, r) \/ RaisedBefore(r, q)
<1>1. PICK i \in DOMAIN stream : Requested(i) /\ stream[i].req = q
  BY DEF Raised, Requested
<1>2. PICK j \in DOMAIN stream : Requested(j) /\ stream[j].req = r
  BY DEF Raised, Requested
<1>3. stream \in Seq(Events) /\ DOMAIN stream = 1..Len(stream) /\ Len(stream) \in Nat
  BY DEF TypeOK, RunnerOK
<1>4. stream[i] \in Events /\ stream[j] \in Events
  BY <1>3
<1>5. stream[i] = Event("requested", q, None) /\ stream[j] = Event("requested", r, None)
  BY <1>1, <1>2, <1>4 DEF CodexStream, Events, Event, Requested
<1>6. i # j /\ (i < j \/ j < i)
  BY <1>1, <1>2, <1>3
<1> QED BY <1>5, <1>6 DEF RaisedBefore

\* What an event at the end of the stream changes.
LEMMA Appending ==
  ASSUME TypeOK, OrderInv, NEW e \in Events, stream' = Append(stream, e)
  PROVE  /\ DOMAIN stream' = 1..(Len(stream) + 1) /\ DOMAIN stream = 1..Len(stream)
         /\ Len(stream') = Len(stream) + 1 /\ Len(stream) \in Nat
         /\ stream'[Len(stream) + 1] = e
         /\ \A i \in DOMAIN stream : stream'[i] = stream[i]
         /\ \A q \in Requests : Raised(q)' <=> Raised(q) \/ (e.type = "requested" /\ e.req = q)
         /\ \A q, r \in Requests : RaisedBefore(q, r) => RaisedBefore(q, r)'
         /\ \A q, r \in Requests : RaisedBefore(q, r)' => RaisedBefore(q, r) \/ e = Event("requested", r, None)
<1>1. /\ DOMAIN stream' = 1..(Len(stream) + 1) /\ DOMAIN stream = 1..Len(stream)
      /\ Len(stream') = Len(stream) + 1 /\ Len(stream) \in Nat
      /\ stream'[Len(stream) + 1] = e
      /\ \A i \in DOMAIN stream : stream'[i] = stream[i]
  BY DEF TypeOK, RunnerOK
<1>2. ASSUME NEW q \in Requests PROVE Raised(q)' <=> Raised(q) \/ (e.type = "requested" /\ e.req = q)
  BY <1>1 DEF Raised
<1>3. ASSUME NEW q \in Requests, NEW r \in Requests
      PROVE  /\ RaisedBefore(q, r) => RaisedBefore(q, r)'
             /\ RaisedBefore(q, r)' => RaisedBefore(q, r) \/ e = Event("requested", r, None)
  <2>1. ASSUME RaisedBefore(q, r)' PROVE RaisedBefore(q, r) \/ e = Event("requested", r, None)
    <3>1. PICK i, j \in DOMAIN stream' : /\ i < j /\ stream'[i] = Event("requested", q, None)
                                         /\ stream'[j] = Event("requested", r, None)
      BY <2>1 DEF RaisedBefore
    <3>2. CASE j = Len(stream) + 1
      BY <1>1, <3>1, <3>2
    <3>3. CASE j # Len(stream) + 1
      <4>1. i \in DOMAIN stream /\ j \in DOMAIN stream
        BY <1>1, <3>1, <3>3
      <4> QED BY <1>1, <3>1, <4>1 DEF RaisedBefore
    <3> QED BY <3>2, <3>3
  <2>2. ASSUME RaisedBefore(q, r) PROVE RaisedBefore(q, r)'
    BY <1>1, <2>2 DEF RaisedBefore, Event
  <2> QED BY <2>1, <2>2
<1> QED BY <1>1, <1>2, <1>3

\* What was answered up to an event stays so, and a new answer is the last one.
LEMMA Answering ==
  ASSUME TypeOK, OrderInv, NEW e \in Events, stream' = Append(stream, e)
  PROVE  \A q \in Requests :
           /\ \A n \in Nat : n <= Len(stream) =>
                (Answered(q, n) <=>
                                \E k \in DOMAIN stream' : k <= n /\ stream'[k].type = "resolved" /\ stream'[k].req = q)
           /\ Answered(q, Len(stream))' <=> Answered(q, Len(stream)) \/ (e.type = "resolved" /\ e.req = q)
<1> SUFFICES ASSUME NEW q \in Requests
             PROVE  /\ \A n \in Nat : n <= Len(stream) =>
                        (Answered(q, n) <=>
                                        \E k \in DOMAIN stream' : k <= n /\ stream'[k].type = "resolved" /\ stream'[k].req = q)
                    /\ Answered(q, Len(stream))' <=> Answered(q, Len(stream)) \/ (e.type = "resolved" /\ e.req = q)
  OBVIOUS
<1>1. /\ DOMAIN stream' = 1..(Len(stream) + 1) /\ DOMAIN stream = 1..Len(stream)
      /\ Len(stream') = Len(stream) + 1 /\ Len(stream) \in Nat
      /\ stream'[Len(stream) + 1] = e
      /\ \A i \in DOMAIN stream : stream'[i] = stream[i]
  BY Appending
<1>2. ASSUME NEW n \in Nat, n <= Len(stream)
      PROVE  Answered(q, n) <=>
                             \E k \in DOMAIN stream' : k <= n /\ stream'[k].type = "resolved" /\ stream'[k].req = q
  BY <1>1, <1>2 DEF Answered, Resolved
<1>3. Answered(q, Len(stream))' => Answered(q, Len(stream)) \/ (e.type = "resolved" /\ e.req = q)
  <2> SUFFICES ASSUME Answered(q, Len(stream))'
              PROVE Answered(q, Len(stream)) \/ (e.type = "resolved" /\ e.req = q)
    OBVIOUS
  <2>1. PICK k \in DOMAIN stream' : stream'[k].type = "resolved" /\ stream'[k].req = q
    BY DEF Answered, Resolved
  <2>2. k = Len(stream) + 1 \/ k \in DOMAIN stream
    BY <1>1
  <2> QED BY <1>1, <2>1, <2>2 DEF Answered, Resolved
<1>4. Answered(q, Len(stream)) \/ (e.type = "resolved" /\ e.req = q) => Answered(q, Len(stream))'
  <2>1. ASSUME e.type = "resolved" /\ e.req = q PROVE Answered(q, Len(stream))'
    BY <1>1, <2>1 DEF Answered, Resolved
  <2>2. ASSUME Answered(q, Len(stream)) PROVE Answered(q, Len(stream))'
    <3>1. PICK k \in DOMAIN stream : Resolved(k) /\ stream[k].req = q
      BY <2>2 DEF Answered
    <3>2. k \in DOMAIN stream' /\ k <= Len(stream') /\ stream'[k] = stream[k]
      BY <1>1
    <3> QED BY <3>1, <3>2 DEF Answered, Resolved
  <2> QED BY <2>1, <2>2
<1> QED BY <1>2, <1>3, <1>4

\* What the rows and the handler say does not depend on events further on.
LEMMA EventsFurtherOn ==
  ASSUME TypeOK, OrderInv, AgreeInv, NEW e \in Events, stream' = Append(stream, e), UNCHANGED api, ~RunnerEnded
  PROVE  AtEvent' /\ OpenRows' /\ FrontIsPending' /\ StatusTells'
<1>1. /\ DOMAIN stream' = 1..(Len(stream) + 1) /\ DOMAIN stream = 1..Len(stream)
      /\ Len(stream') = Len(stream) + 1 /\ Len(stream) \in Nat
      /\ \A i \in DOMAIN stream : stream'[i] = stream[i]
      /\ pos \in Nat /\ cursor \in Nat /\ pos <= Len(stream) /\ cursor <= Len(stream)
      /\ pc # "idle" => pos + 1 \in DOMAIN stream
  BY Appending DEF TypeOK, HandlerOK, DatabaseOK, OrderInv, Reached, Handling
<1>2. UNCHANGED <<turnStatus, status, created, cursor, up, pos, pc, seen, next>>
      /\ Filed' = Filed /\ Pending' = Pending /\ Waiting' = Waiting
  BY DEF api, Filed, Pending, Waiting, WithStatus
<1>3. pc # "idle" => /\ Requested(pos + 1) <=> Requested(pos + 1)'
                     /\ Resolved(pos + 1) <=> Resolved(pos + 1)'
                     /\ Current' = Current
  BY <1>1, <1>2 DEF Requested, Resolved, Current
<1>4. AtEvent'
  <2>1. \A i \in DOMAIN stream' : cursor < i /\ i <= pos => Requested(i)'
    BY <1>1 DEF AgreeInv, AtEvent, Requested
  <2>2. turnStatus # "ended"
    BY DEF AgreeInv, AtEvent
  <2>3. pc' \in {"count", "publishRead", "publishTx", "publishEvent"} =>
          Requested(pos + 1)' \/ (Resolved(pos + 1)' /\ cursor' = pos' + 1)
    BY <1>2, <1>3 DEF AgreeInv, AtEvent
  <2>4. /\ pc' \in {"start", "enqueue", "settle", "append", "end"} => cursor' <= pos'
        /\ pc' = "start" => Current'.type = "started"
        /\ pc' = "settle" => Current'.type = "resolved"
        /\ pc' = "end" => Current'.type = "ended"
        /\ pc' = "append" => Current'.type \in {"started", "resolved"}
    BY <1>2, <1>3 DEF AgreeInv, AtEvent
  <2>5. pc' \in {"start", "settle", "publishTx"} => seen' = turnStatus'
    BY <1>2 DEF AgreeInv, AtEvent
  <2> QED BY <1>2, <2>1, <2>2, <2>3, <2>4, <2>5 DEF AtEvent
<1>5. OpenRows'
  <2>1. ASSUME NEW q \in Requests PROVE Settled(q)' <=> Settled(q)
    <3>1. Answered(q, cursor)' <=> Answered(q, cursor)
      BY <1>1, <1>2, Answering DEF Answered, Resolved
    <3>2. pc # "append" => (Settled(q) <=> Answered(q, cursor)) /\ (Settled(q)' <=> Answered(q, cursor)')
      BY <1>2 DEF Settled
    <3>3. pc = "append" =>
            /\ Settled(q) <=> Answered(q, cursor) \/ (Resolved(pos + 1) /\ Current.req = q)
            /\ Settled(q)' <=> Answered(q, cursor)' \/ (Resolved(pos + 1)' /\ Current'.req = q)
      BY <1>2 DEF Settled
    <3> QED BY <1>3, <3>1, <3>2, <3>3
  <2> QED BY <1>2, <2>1 DEF AgreeInv, OpenRows, Filed
<1>6. FrontIsPending' /\ StatusTells'
  BY <1>2, <1>3 DEF AgreeInv, FrontIsPending, StatusTells, Publishing
<1> QED BY <1>4, <1>5, <1>6

\* The runner's actions keep the agreement.
LEMMA RunnerAgree == ASSUME TypeOK, OrderInv, AgreeInv, Runner PROVE AgreeInv'
<1>0. /\ stream \in Seq(Events) /\ DOMAIN stream = 1..Len(stream) /\ Len(stream) \in Nat
      /\ UNCHANGED api /\ backend = "codex" /\ backend' = backend /\ asking = {} /\ ~dispatching
      /\ held \subseteq Requests /\ answers \subseteq Requests \X Answers
  <2>1. UNCHANGED backend
    BY DEF Runner, RunnerStarts, RaiseApproval, RegisterApproval, AbortApproval, BeginFinalize,
           DisposePending, RunnerEnds, ResolvePendingApproval, fixed
  <2> QED BY <2>1, RunnerAppends DEF TypeOK, RunnerOK, CallsOK, AgreeInv, CodexStream
<1> DEFINE Quiet == UNCHANGED <<stream, held, asking>> /\ answers' \subseteq answers /\ (finalizing => finalizing')
           Emitted(e) == /\ stream' = Append(stream, e) /\ UNCHANGED <<asking, finalizing>> /\ ~RunnerEnded
                         /\ answers' \subseteq answers
           Asked(r) == Emitted(Event("requested", r, None)) /\ held' = held \cup {r} /\ ~Raised(r)
           Released(r, d) == /\ Emitted(Event("resolved", r, d)) /\ held' = held \ {r} /\ r \in held
                             /\ \A q \in Requests : RaisedBefore(q, r) => q \notin held
           Plain(t) == /\ Emitted(Event(t, None, None)) /\ held' = held
                       /\ t = "ended" => finalizing /\ held = {}
<1>1. \/ Quiet
      \/ \E r \in Requests : Asked(r)
      \/ \E r \in Requests, d \in {"accept", "decline"} : Released(r, d)
      \/ \E t \in {"started", "ended"} : Plain(t)
  <2>0. RunnerEnded => finalizing /\ held = {}
    BY DEF AgreeInv, CodexStream
  <2>1. CASE RunnerStarts
    BY <2>0, <2>1 DEF RunnerStarts
  <2>2. ASSUME NEW r \in Requests, RaiseApproval(r) PROVE Asked(r)
    BY <1>0, <2>0, <2>2 DEF RaiseApproval
  <2>3. ASSUME NEW r \in Requests, RegisterApproval(r) PROVE FALSE
    BY <1>0, <2>3 DEF RegisterApproval
  <2>4. ASSUME NEW r \in Requests, AbortApproval(r) PROVE FALSE
    BY <1>0, <2>4 DEF AbortApproval
  <2>5. CASE BeginFinalize
    BY <1>0, <2>5 DEF BeginFinalize
  <2>6. CASE DisposePending
    <3>1. PICK i \in DOMAIN stream :
            LET r == stream[i].req IN
            /\ stream[i].type = "requested" /\ r \in held
            /\ \A j \in 1..(i - 1) : ~(stream[j].type = "requested" /\ stream[j].req \in held)
            /\ held' = held \ {r}
            /\ stream' = Append(stream, Event("resolved", r, "decline"))
      BY <2>6 DEF DisposePending
    <3>2. stream[i].req \in Requests
      BY <1>0, <3>1
    <3>3. ASSUME NEW q \in Requests, RaisedBefore(q, stream[i].req) PROVE q \notin held
      <4>1. PICK k, l \in DOMAIN stream : /\ k < l /\ stream[k] = Event("requested", q, None)
                                          /\ stream[l] = Event("requested", stream[i].req, None)
        BY <3>3 DEF RaisedBefore
      <4>2. Requested(k) /\ Requested(l) /\ Requested(i) /\ stream[l].req = stream[i].req /\ stream[k].req = q
        BY <3>1, <4>1 DEF Requested, Event
      <4>3. l = i
        BY <4>2 DEF OrderInv, RaisedOnce
      <4>4. k \in 1..(i - 1)
        BY <1>0, <4>1, <4>3
      <4> QED BY <3>1, <4>2, <4>4 DEF Requested
    <3>4. Released(stream[i].req, "decline")
      BY <2>0, <2>6, <3>1, <3>3 DEF DisposePending
    <3> QED BY <3>2, <3>4
  <2>7. CASE RunnerEnds
    BY <2>7 DEF RunnerEnds
  <2>8. ASSUME NEW r \in Requests, NEW a \in Answers, ResolvePendingApproval(r, a)
        PROVE  Quiet \/ \E d \in {"accept", "decline"} : Released(r, d)
    <3>1. CASE r \in held
      <4>1. \A q \in Requests : RaisedBefore(q, r) => q \notin held
        <5>1. <<r, a>> \in answers /\ <<r, a>>[1] = r
          BY <2>8 DEF ResolvePendingApproval
        <5> QED BY <5>1 DEF AgreeInv, OldestFirst
      <4>2. Released(r, IF a = "decline" THEN a ELSE "accept")
        BY <2>0, <2>8, <3>1, <4>1 DEF ResolvePendingApproval
      <4> QED BY <4>2
    <3>2. CASE r \notin held
      BY <2>8, <3>2 DEF ResolvePendingApproval
    <3> QED BY <3>1, <3>2
  <2> QED BY <2>1, <2>2, <2>3, <2>4, <2>5, <2>6, <2>7, <2>8 DEF Runner
<1> HIDE DEF Quiet, Emitted, Asked, Released, Plain
<1>2. CASE Quiet
  <2>1. /\ UNCHANGED <<stream, held, asking, turnStatus, status, created, cursor, up, pos, pc, seen, next>>
        /\ answers' \subseteq answers /\ (finalizing => finalizing') /\ UNCHANGED <<backend, dispatching>>
    BY <1>0, <1>2 DEF Quiet, api
  <2>2. CodexStream' /\ OldestFirst'
    BY <2>1 DEF AgreeInv, CodexStream, OldestFirst, Requested, Resolved, Raised, Answered, RunnerEnded, Emits, RaisedBefore
  <2>3. AtEvent' /\ OpenRows' /\ FrontIsPending' /\ StatusTells'
    BY <2>1 DEF AgreeInv, AtEvent, OpenRows, FrontIsPending, StatusTells, Requested, Resolved, Current, Settled, Answered,
                RunnerEnded, Emits, Filed, Pending, Waiting, WithStatus, Publishing
  <2> QED BY <2>2, <2>3 DEF AgreeInv
<1>3. ASSUME NEW e \in Events, Emitted(e),
             e.type = "requested" => e.req \in Requests /\ e.decision = None /\ ~Raised(e.req) /\
                  held' = held \cup {e.req},
             e.type = "resolved" => /\ e.req \in held /\ held' = held \ {e.req}
                                    /\ \A q \in Requests : RaisedBefore(q, e.req) => q \notin held,
             e.type \notin {"requested", "resolved"} => held' = held,
             e.type = "ended" => finalizing /\ held = {}
      PROVE  AgreeInv'
  <2>0. stream' = Append(stream, e) /\ UNCHANGED <<asking, finalizing>> /\ ~RunnerEnded /\ answers' \subseteq answers
    BY <1>3 DEF Emitted
  <2>1. AtEvent' /\ OpenRows' /\ FrontIsPending' /\ StatusTells'
    BY <1>0, <2>0, EventsFurtherOn
  <2>4. /\ DOMAIN stream' = 1..(Len(stream) + 1) /\ DOMAIN stream = 1..Len(stream)
        /\ Len(stream') = Len(stream) + 1 /\ Len(stream) \in Nat
        /\ stream'[Len(stream) + 1] = e
        /\ \A i \in DOMAIN stream : stream'[i] = stream[i]
    BY <2>0, Appending
  <2>2. CodexStream'
    <3>1. \A i \in DOMAIN stream' : Requested(i)' => stream'[i].decision = None
      BY <1>3, <2>0, Appending DEF AgreeInv, CodexStream, Requested
    <3>2. \A k \in DOMAIN stream' : Resolved(k)' =>
            \E i \in DOMAIN stream' : i < k /\ Requested(i)' /\ stream'[i].req = stream'[k].req
      <4>1. ASSUME NEW k \in DOMAIN stream, Resolved(k)
            PROVE  \E i \in DOMAIN stream' : i < k /\ Requested(i)' /\ stream'[i].req = stream'[k].req
        <5>1. PICK i \in DOMAIN stream : i < k /\ Requested(i) /\ stream[i].req = stream[k].req
          BY <4>1 DEF AgreeInv, CodexStream
        <5> QED BY <2>4, <5>1 DEF Requested
      <4>2. ASSUME e.type = "resolved"
            PROVE  \E i \in DOMAIN stream' : i < Len(stream) + 1 /\ Requested(i)' /\ stream'[i].req = e.req
        <5>1. PICK i \in DOMAIN stream : Requested(i) /\ stream[i].req = e.req
          BY <1>3, <4>2 DEF AgreeInv, CodexStream, Raised, Requested
        <5> QED BY <2>4, <5>1 DEF Requested
      <4> QED BY <2>4, <4>1, <4>2 DEF Resolved
    <3>3. \A k, l \in DOMAIN stream' : Resolved(k)' /\ Resolved(l)' /\ stream'[k].req = stream'[l].req => k = l
      <4>1. \A k \in DOMAIN stream : Resolved(k) /\ e.type = "resolved" => stream[k].req # e.req
        BY <1>0, <1>3 DEF AgreeInv, CodexStream, Answered
      <4>2. \A k, l \in DOMAIN stream : Resolved(k) /\ Resolved(l) /\ stream[k].req = stream[l].req => k = l
        BY DEF AgreeInv, CodexStream
      <4> QED BY <2>4, <4>1, <4>2 DEF Resolved
    <3>4. held' = {r \in Requests : Raised(r)' /\ ~Answered(r, Len(stream))'}
      <4>1. held = {r \in Requests : Raised(r) /\ ~Answered(r, Len(stream))}
        BY DEF AgreeInv, CodexStream
      <4>2. ASSUME NEW r \in Requests
            PROVE  r \in held' <=> Raised(r)' /\ ~Answered(r, Len(stream))'
        <5>1. Raised(r)' <=> Raised(r) \/ (e.type = "requested" /\ e.req = r)
          BY <2>0, Appending
        <5>2. Answered(r, Len(stream))' <=> Answered(r, Len(stream)) \/ (e.type = "resolved" /\ e.req = r)
          BY <2>0, Answering
        <5>3. CASE e.type = "requested"
          <6>1. ~Answered(e.req, Len(stream))
            <7> SUFFICES ASSUME Answered(e.req, Len(stream)) PROVE FALSE
              OBVIOUS
            <7>1. PICK k \in DOMAIN stream : Resolved(k) /\ stream[k].req = e.req
              BY DEF Answered
            <7>2. PICK i \in DOMAIN stream : Requested(i) /\ stream[i].req = e.req
              BY <7>1 DEF AgreeInv, CodexStream
            <7> QED BY <1>3, <5>3, <7>2 DEF Raised, Requested
          <6> QED BY <1>3, <4>1, <5>1, <5>2, <5>3, <6>1
        <5>4. CASE e.type # "requested"
          BY <1>3, <4>1, <5>1, <5>2, <5>4
        <5> QED BY <5>3, <5>4
      <4>3. held' \subseteq Requests
        BY <1>0, <1>3
      <4> QED BY <4>2, <4>3
    <3>5. RunnerEnded' => finalizing' /\ held' = {}
      <4>1. RunnerEnded' => e.type = "ended"
        BY <2>4, <2>0 DEF RunnerEnded, Emits
      <4> QED BY <1>3, <2>0, <4>1
    <3>6. \A i \in DOMAIN stream' : stream'[i].type = "ended" => i = Len(stream')
      BY <2>4, <2>0 DEF RunnerEnded, Emits
    <3> QED BY <1>0, <2>0, <3>1, <3>2, <3>3, <3>4, <3>5, <3>6 DEF CodexStream, api
  <2>3. OldestFirst'
    <3>1. ASSUME NEW q \in Requests, NEW r \in Requests, Raised(r), RaisedBefore(q, r)' PROVE RaisedBefore(q, r)
      <4>1. RaisedBefore(q, r) \/ e = Event("requested", r, None)
        BY <2>0, <3>1, Appending
      <4> QED BY <1>3, <3>1, <4>1 DEF Event
    <3>8. ASSUME NEW k \in DOMAIN stream', Resolved(k)' PROVE stream'[k].req \in Requests
      <4>1. PICK i \in DOMAIN stream' : i < k /\ Requested(i)' /\ stream'[i].req = stream'[k].req
        BY <2>2, <3>8 DEF CodexStream
      <4>2. i \in DOMAIN stream /\ Requested(i) /\ stream[i].req = stream'[k].req
        BY <2>4, <3>8, <4>1 DEF Requested
      <4> QED BY <4>2 DEF OrderInv, RaisedOnce
    <3>2. ASSUME NEW k \in DOMAIN stream', Resolved(k)', NEW q \in Requests,
                 NEW r \in Requests, r = stream'[k].req, RaisedBefore(q, r)'
          PROVE  Answered(q, k - 1)'
      <4>1. PICK i \in DOMAIN stream' : i < k /\ Requested(i)' /\ stream'[i].req = stream'[k].req
        BY <2>2, <3>2 DEF CodexStream
      <4>2. i \in DOMAIN stream /\ Requested(i) /\ stream[i].req = stream'[k].req
        BY <2>4, <4>1 DEF Requested
      <4>3. stream'[k].req \in Requests /\ Raised(stream'[k].req)
        BY <4>2 DEF OrderInv, RaisedOnce, Raised, Requested
      <4>4. RaisedBefore(q, r)
        BY <3>1, <3>2, <4>3
      <4>5. Answered(q, k - 1)
        <5>1. CASE k \in DOMAIN stream
          <6>1. Resolved(k) /\ r = stream[k].req
            BY <2>4, <3>2, <5>1 DEF Resolved
          <6> QED BY <4>4, <5>1, <6>1 DEF AgreeInv, OldestFirst
        <5>2. CASE k = Len(stream) + 1
          <6>1. e.type = "resolved" /\ stream'[k].req = e.req
            BY <2>4, <3>2, <5>2 DEF Resolved
          <6>2. q \notin held
            BY <1>3, <3>2, <4>4, <6>1
          <6>3. Raised(q)
            BY <4>4 DEF RaisedBefore, Raised, Event
          <6>4. Answered(q, Len(stream))
            BY <6>2, <6>3 DEF AgreeInv, CodexStream
          <6> QED BY <1>0, <5>2, <6>4
        <5> QED BY <2>4, <5>1, <5>2
      <4>6. PICK l \in DOMAIN stream : l <= k - 1 /\ Resolved(l) /\ stream[l].req = q
        BY <4>5 DEF Answered
      <4> QED BY <2>4, <4>6 DEF Answered, Resolved
    <3>3. ASSUME NEW x \in answers'
              PROVE Raised(x[1])' /\ \A q \in Requests : RaisedBefore(q, x[1])' => q \notin held'
      <4>1. x \in answers /\ x[1] \in Requests
        BY <1>0, <2>0, <3>3
      <4>2. Raised(x[1]) /\ \A q \in Requests : RaisedBefore(q, x[1]) => q \notin held
        BY <4>1 DEF AgreeInv, OldestFirst
      <4>3. Raised(x[1])'
        BY <2>0, <4>1, <4>2, Appending
      <4>4. ASSUME NEW q \in Requests, RaisedBefore(q, x[1])' PROVE q \notin held'
        <5>1. RaisedBefore(q, x[1])
          BY <3>1, <4>1, <4>2, <4>4
        <5>2. q \notin held /\ Raised(q)
          BY <4>2, <5>1 DEF RaisedBefore, Raised, Event
        <5> QED BY <1>3, <5>2
      <4> QED BY <4>3, <4>4
    <3>4. \A k \in DOMAIN stream' : Resolved(k)' =>
                    \A q, r \in Requests : r = stream'[k].req /\ RaisedBefore(q, r)' => Answered(q, k - 1)'
      BY <3>2
    <3>5. \A k \in DOMAIN stream' : Resolved(k)' => stream'[k].req \in Requests
      BY <3>8
    <3>6. (\A k \in DOMAIN stream : Resolved(k) =>
                    \A q \in Requests : RaisedBefore(q, stream[k].req) => Answered(q, k - 1))'
      BY <3>4, <3>5
    <3>7. (\A x \in answers : Raised(x[1]) /\ \A q \in Requests : RaisedBefore(q, x[1]) => q \notin held)'
      BY <3>3
    <3> QED BY <3>6, <3>7 DEF OldestFirst
  <2> QED BY <2>1, <2>2, <2>3 DEF AgreeInv
<1>4. ASSUME NEW r \in Requests, Asked(r) PROVE AgreeInv'
  BY <1>3, <1>4, EventsOK DEF Asked, Event
<1>5. ASSUME NEW r \in Requests, NEW d \in {"accept", "decline"}, Released(r, d) PROVE AgreeInv'
  BY <1>3, <1>5, EventsOK DEF Released, Event
<1>6. ASSUME NEW t \in {"started", "ended"}, Plain(t) PROVE AgreeInv'
  BY <1>3, <1>6, EventsOK DEF Plain, Event
<1> QED BY <1>1, <1>2, <1>4, <1>5, <1>6

\* The runner's part stays as it is.
LEMMA RunnerStays ==
  ASSUME AgreeInv, UNCHANGED <<fixed, runner, dispatching>>, answers' \subseteq answers
  PROVE  CodexStream' /\ OldestFirst'
BY DEF AgreeInv, CodexStream, OldestFirst, Requested, Resolved, Raised, Answered, RunnerEnded, Emits, RaisedBefore, runner, fixed

\* When the cursor passes the event at hand, the only answer it passes may be that event.
LEMMA CursorMoves ==
  ASSUME TypeOK, OrderInv, AgreeInv, pc # "idle", cursor <= pos, NEW q \in Requests
  PROVE  Answered(q, pos + 1) <=> Answered(q, cursor) \/ (Resolved(pos + 1) /\ Current.req = q)
<1>1. /\ pos \in Nat /\ cursor \in Nat /\ Len(stream) \in Nat /\ DOMAIN stream = 1..Len(stream)
      /\ pos < Len(stream)
  BY DEF TypeOK, HandlerOK, DatabaseOK, RunnerOK, OrderInv, Handling
<1>2. \A k \in DOMAIN stream : cursor < k /\ k <= pos => ~Resolved(k)
  BY DEF AgreeInv, AtEvent, Requested, Resolved
<1>3. ASSUME Answered(q, pos + 1) PROVE Answered(q, cursor) \/ (Resolved(pos + 1) /\ Current.req = q)
  <2>1. PICK k \in DOMAIN stream : k <= pos + 1 /\ Resolved(k) /\ stream[k].req = q
    BY <1>3 DEF Answered
  <2>2. k = pos + 1 \/ k <= cursor
    BY <1>1, <1>2, <2>1
  <2> QED BY <2>1, <2>2 DEF Answered, Current
<1>4. ASSUME Answered(q, cursor) PROVE Answered(q, pos + 1)
  <2>1. PICK k \in DOMAIN stream : k <= cursor /\ Resolved(k) /\ stream[k].req = q
    BY <1>4 DEF Answered
  <2>2. k <= pos + 1
    BY <1>1, <2>1
  <2> QED BY <2>1, <2>2 DEF Answered
<1>5. Resolved(pos + 1) /\ Current.req = q => Answered(q, pos + 1)
  BY <1>1 DEF Answered, Current
<1> QED BY <1>3, <1>4, <1>5

\* A request that is read was not answered before it.
LEMMA AskedBeforeAnswered ==
  ASSUME TypeOK, OrderInv, AgreeInv, pc = "enqueue"
  PROVE  Requested(pos + 1) /\ Current.req \in Requests /\ ~Answered(Current.req, cursor)
<1>1. /\ pos \in Nat /\ cursor \in Nat /\ Len(stream) \in Nat /\ DOMAIN stream = 1..Len(stream)
      /\ pos + 1 \in DOMAIN stream /\ cursor <= pos /\ Requested(pos + 1) /\ stream[pos + 1].req = Current.req
  BY DEF TypeOK, HandlerOK, DatabaseOK, RunnerOK, OrderInv, Handling, AgreeInv, AtEvent, Current
<1>2. Current.req \in Requests
  BY <1>1 DEF OrderInv, RaisedOnce
<1>3. ASSUME Answered(Current.req, cursor) PROVE FALSE
  <2>1. PICK k \in DOMAIN stream : k <= cursor /\ Resolved(k) /\ stream[k].req = Current.req
    BY <1>3 DEF Answered
  <2>2. PICK i \in DOMAIN stream : i < k /\ Requested(i) /\ stream[i].req = stream[k].req
    BY <2>1 DEF AgreeInv, CodexStream
  <2>3. i = pos + 1
    BY <1>1, <2>1, <2>2 DEF OrderInv, RaisedOnce
  <2> QED BY <1>1, <2>1, <2>2, <2>3
<1> QED BY <1>1, <1>2, <1>3

\* The answer that is read is one to the visible request.
LEMMA AnswersTheVisible ==
  ASSUME TypeOK, OneInv, OrderInv, AgreeInv, pc = "settle"
  PROVE  Current.req \in Requests /\ Pending = {Current.req}
<1> DEFINE r == Current.req
<1>1. /\ pos \in Nat /\ cursor \in Nat /\ Len(stream) \in Nat /\ DOMAIN stream = 1..Len(stream)
      /\ pos + 1 \in DOMAIN stream /\ cursor <= pos /\ Resolved(pos + 1) /\ stream[pos + 1].req = r
      /\ created \in [Requests -> Nat] /\ FiledUpTo(pos)
  BY DEF TypeOK, HandlerOK, DatabaseOK, RunnerOK, OrderInv, Reached, Handling, AgreeInv, AtEvent, Current, Resolved
<1>2. PICK i \in DOMAIN stream : i < pos + 1 /\ Requested(i) /\ stream[i].req = r
  BY <1>1 DEF AgreeInv, CodexStream
<1>3. r \in Filed /\ r \in Requests
  <2>1. i <= pos
    BY <1>1, <1>2
  <2> QED BY <1>1, <1>2, <2>1 DEF FiledUpTo, OrderInv, RaisedOnce
<1>4. \A q \in Requests : Settled(q) <=> Answered(q, cursor)
  BY DEF Settled
<1>5. ~Answered(r, cursor)
  <2> SUFFICES ASSUME NEW k \in DOMAIN stream, k <= cursor, Resolved(k), stream[k].req = r PROVE FALSE
    BY DEF Answered
  <2>1. k = pos + 1
    BY <1>1 DEF AgreeInv, CodexStream
  <2> QED BY <1>1, <2>1
<1> HIDE DEF r
<1>6. ASSUME NEW q \in Requests, status[q] \in {"queued", "pending"}, q # r PROVE created[r] < created[q]
  <2>1. q \in Filed /\ ~Answered(q, cursor)
    <3>1. q \in Filed
      BY <1>6 DEF OrderInv, Numbered, None
    <3> QED BY <1>4, <1>6, <3>1 DEF AgreeInv, OpenRows
  <2>2. ~RaisedBefore(q, r)
    <3> SUFFICES ASSUME RaisedBefore(q, r) PROVE FALSE
      OBVIOUS
    <3>1. Answered(q, pos + 1 - 1)
      BY <1>1 DEF AgreeInv, OldestFirst
    <3>2. PICK k \in DOMAIN stream : k <= pos /\ Resolved(k) /\ stream[k].req = q
      BY <1>1, <3>1 DEF Answered
    <3>3. k <= cursor
      BY <1>1, <3>2 DEF AgreeInv, AtEvent, Requested, Resolved
    <3> QED BY <2>1, <3>2, <3>3 DEF Answered
  <2>3. Raised(q) /\ Raised(r)
    BY <1>3, <2>1 DEF OrderInv, Numbered
  <2>4. RaisedBefore(r, q)
    BY <1>3, <1>6, <2>2, <2>3, Total DEF AgreeInv
  <2> QED BY <1>3, <2>1, <2>4 DEF OrderInv, Numbered
<1>7. status[r] \in {"queued", "pending"}
  BY <1>3, <1>4, <1>5 DEF AgreeInv, OpenRows
<1>8. status[r] # "queued"
  <2> SUFFICES ASSUME status[r] = "queued" PROVE FALSE
    OBVIOUS
  <2>1. Pending # {}
    BY <1>3 DEF AgreeInv, FrontIsPending, Publishing, Waiting, WithStatus
  <2>2. PICK p \in Pending : created[p] <= created[r]
    BY <1>3, <2>1 DEF AgreeInv, FrontIsPending, Waiting, WithStatus
  <2>3. p \in Requests /\ p # r /\ created[r] < created[p]
    BY <1>6, <2>2 DEF Pending, WithStatus
  <2> QED BY <1>1, <1>3, <2>2, <2>3
<1>9. r \in Pending
  BY <1>3, <1>7, <1>8 DEF Pending, WithStatus
<1> QED BY <1>3, <1>9 DEF OneInv, OnePending, r

\* A handler that is over leaves behind what the cursor covers, or a request.
LEMMA PassedBy ==
  ASSUME TypeOK, AgreeInv, pc \in {"count", "publishEvent"}, pc' = "idle", pos' = pos + 1,
         UNCHANGED <<stream, cursor, turnStatus>>
  PROVE  AtEvent'
<1>1. pos \in Nat /\ cursor \in Nat /\ Len(stream) \in Nat /\ DOMAIN stream = 1..Len(stream)
  BY DEF TypeOK, HandlerOK, DatabaseOK, RunnerOK
<1>2. \A i \in DOMAIN stream : cursor < i /\ i <= pos => Requested(i)
  BY DEF AgreeInv, AtEvent
<1>3. (Requested(pos + 1) \/ cursor = pos + 1) /\ turnStatus # "ended"
  BY DEF AgreeInv, AtEvent
<1>4. ASSUME NEW i \in DOMAIN stream, cursor < i, i <= pos + 1 PROVE Requested(i)
  <2>1. i <= pos \/ (i = pos + 1 /\ cursor # pos + 1)
    BY <1>1, <1>4
  <2> QED BY <1>2, <1>3, <1>4, <2>1
<1>5. (\A i \in DOMAIN stream : cursor < i /\ i <= pos => Requested(i))'
  BY <1>4 DEF Requested
<1> QED BY <1>3, <1>5 DEF AtEvent

\* The handler's steps keep the agreement.
LEMMA IngestionAgree == ASSUME TypeOK, OneInv, OrderInv, AgreeInv, Ingestion PROVE AgreeInv'
<1>0. /\ pos \in Nat /\ cursor \in Nat /\ Len(stream) \in Nat /\ DOMAIN stream = 1..Len(stream)
      /\ created \in [Requests -> Nat] /\ status \in [Requests -> RowStatus]
      /\ UNCHANGED stream /\ CodexStream' /\ OldestFirst'
      /\ pc # "idle" => pos + 1 \in DOMAIN stream /\ turnStatus # "ended"
      /\ pc # "idle" /\ pos' = pos => Current' = Current
      /\ cursor <= Len(stream) /\ pos <= Len(stream)
  <2>1. UNCHANGED <<fixed, runner, answers, dispatching>>
    BY DEF Ingestion, IngestRunnerEvent, TurnStarted, AppendEvent, EnqueueApprovalRequest,
           TryPublishNext, PublishRead, PublishTx, PublishEvent, ApprovalResolved, TurnEnded, calm, fixed, runner
  <2>2. CodexStream' /\ OldestFirst'
    BY <2>1, RunnerStays
  <2> QED BY <2>1, <2>2 DEF TypeOK, RunnerOK, HandlerOK, DatabaseOK, AgreeInv, AtEvent, OrderInv, Handling, Reached, runner, Current
<1>1. CASE IngestRunnerEvent
  <2>1. pc = "idle" /\ pos < Len(stream) /\ UNCHANGED <<turnStatus, status, created, cursor>>
    BY <1>1 DEF IngestRunnerEvent, db
  <2>2. Filed' = Filed /\ Pending' = Pending /\ Waiting' = Waiting
    BY <2>1 DEF Filed, Pending, Waiting, WithStatus
  <2>3. pc' \in {"idle", "start", "enqueue", "settle", "end"}
    BY <1>1, FirstStepOK
  <2>4. OpenRows'
    BY <1>0, <2>1, <2>2, <2>3 DEF AgreeInv, OpenRows, Settled, Answered, Resolved
  <2>5. FrontIsPending' /\ StatusTells'
    BY <2>1, <2>2, <2>3 DEF AgreeInv, FrontIsPending, StatusTells, Publishing
  <2>6. AtEvent'
    <3>1. CASE pos + 1 <= cursor \/ turnStatus = "ended"
      <4>1. pc' = "idle" /\ pos' = pos + 1
        BY <1>1, <3>1 DEF IngestRunnerEvent, Handled, Over
      <4>2. \A i \in DOMAIN stream : ~(cursor < i /\ i <= pos + 1)
        <5>1. CASE pos + 1 <= cursor
          BY <1>0, <5>1
        <5>2. CASE turnStatus = "ended"
          <6>1. cursor = Len(stream)
            BY <5>2 DEF AgreeInv, AtEvent
          <6> QED BY <1>0, <6>1
        <5> QED BY <3>1, <5>1, <5>2
      <4> QED BY <1>0, <2>1, <4>1, <4>2 DEF AgreeInv, AtEvent, RunnerEnded, Emits
    <3>2. CASE ~(pos + 1 <= cursor \/ turnStatus = "ended")
      <4>1. pc' = FirstStep(Current.type) /\ pos' = pos /\ seen' = turnStatus
        BY <1>1, <3>2 DEF IngestRunnerEvent
      <4>2. Current.type \in EventTypes /\ Current' = Current
        BY <1>0, <2>1, <4>1, CurrentOK DEF Events, Current
      <4>3. pc' = "start" => Current.type = "started"
        BY <4>1, <4>2 DEF FirstStep, EventTypes
      <4>4. pc' = "settle" => Current.type = "resolved"
        BY <4>1, <4>2 DEF FirstStep, EventTypes
      <4>5. pc' = "end" => Current.type = "ended"
        BY <4>1, <4>2 DEF FirstStep, EventTypes
      <4>6. \A i \in DOMAIN stream : cursor < i /\ i <= pos => Requested(i)
        BY DEF AgreeInv, AtEvent
      <4>7. \A i \in DOMAIN stream' : cursor' < i /\ i <= pos' => Requested(i)'
        BY <1>0, <2>1, <4>1, <4>6 DEF Requested
      <4>8. cursor' <= pos' /\ turnStatus' # "ended" /\ seen' = turnStatus'
        BY <1>0, <2>1, <3>2, <4>1
      <4> QED BY <2>3, <4>2, <4>3, <4>4, <4>5, <4>7, <4>8 DEF AtEvent
    <3> QED BY <3>1, <3>2
  <2> QED BY <1>0, <2>4, <2>5, <2>6 DEF AgreeInv
<1>2. CASE TurnStarted
  <2>1. /\ pc = "start" /\ pc' = "append" /\ UNCHANGED <<status, created, cursor, pos>>
        /\ turnStatus' \in {turnStatus, "running"} /\ (turnStatus' # turnStatus => seen = "queued")
        /\ seen = turnStatus /\ Current.type = "started" /\ cursor <= pos
    BY <1>2 DEF TurnStarted, Goto, AgreeInv, AtEvent
  <2>2. Filed' = Filed /\ Pending' = Pending /\ Waiting' = Waiting /\ ~Resolved(pos + 1)'
        /\ Current' = Current
    BY <1>0, <2>1 DEF Filed, Pending, Waiting, WithStatus, Resolved, Current
  <2>4. OpenRows'
    BY <1>0, <2>1, <2>2 DEF AgreeInv, OpenRows, Settled, Answered, Resolved
  <2>5. FrontIsPending' /\ StatusTells'
    BY <1>0, <2>1, <2>2 DEF AgreeInv, FrontIsPending, StatusTells, Publishing
  <2>6. AtEvent'
    BY <1>0, <2>1, <2>2 DEF AgreeInv, AtEvent, Requested
  <2> QED BY <1>0, <2>4, <2>5, <2>6 DEF AgreeInv
<1>3. CASE AppendEvent
  <2>1. /\ pc = "append" /\ cursor' = pos + 1 /\ UNCHANGED <<status, created, turnStatus>>
        /\ cursor <= pos /\ Current.type \in {"started", "resolved"}
    BY <1>3 DEF AppendEvent, AgreeInv, AtEvent
  <2>2. Filed' = Filed /\ Pending' = Pending /\ Waiting' = Waiting
    BY <2>1 DEF Filed, Pending, Waiting, WithStatus
  <2>3. \/ pc' = "count" /\ pos' = pos /\ Resolved(pos + 1)
        \/ pc' = "idle" /\ pos' = pos + 1 /\ ~Resolved(pos + 1)
    BY <1>3 DEF AppendEvent, Goto, Handled, Over, Resolved, Current
  <2>4. OpenRows'
    <3>1. ASSUME NEW q \in Requests PROVE Settled(q)' <=> Settled(q)
      <4>1. Settled(q)' <=> Answered(q, pos + 1)
        BY <1>0, <2>1, <2>3 DEF Settled, Answered, Resolved
      <4>2. Settled(q) <=> Answered(q, cursor) \/ (Resolved(pos + 1) /\ Current.req = q)
        BY <2>1 DEF Settled
      <4> QED BY <2>1, <4>1, <4>2, CursorMoves
    <3> QED BY <2>1, <2>2, <3>1 DEF AgreeInv, OpenRows, Filed
  <2>5. FrontIsPending'
    BY <2>1, <2>2, <2>3 DEF AgreeInv, FrontIsPending, Publishing
  <2>6. StatusTells'
    BY <1>0, <2>1, <2>2, <2>3 DEF AgreeInv, StatusTells, Requested, Resolved
  <2>7. AtEvent'
    BY <1>0, <2>1, <2>3 DEF AtEvent, Requested, Resolved
  <2> QED BY <1>0, <2>4, <2>5, <2>6, <2>7 DEF AgreeInv
<1>4. CASE EnqueueApprovalRequest
  <2> DEFINE r0 == Current.req
             n == 1 + Cardinality(Filed)
  <2>1. /\ pc = "enqueue" /\ pc' = "count" /\ UNCHANGED <<cursor, turnStatus, pos>> /\ cursor <= pos
        /\ status' = [status EXCEPT ![r0] = "queued"]
        /\ created' = [created EXCEPT ![r0] = IF @ = 0 THEN n ELSE @]
    BY <1>4 DEF EnqueueApprovalRequest, Goto, Filed, AgreeInv, AtEvent
  <2>2. Requested(pos + 1) /\ r0 \in Requests /\ ~Answered(r0, cursor)
    BY <2>1, AskedBeforeAnswered
  <2>3. Cardinality(Filed) \in Nat /\ \A q \in Filed : created[q] <= Cardinality(Filed)
    BY ApprovalAssumption, FS_Subset, FS_CardinalityType DEF Filed, OrderInv, Numbered
  <2>4. \A q \in Requests : Settled(q) <=> Answered(q, cursor)
    BY <2>1 DEF Settled
  <2>5. \A q \in Requests : Settled(q)' <=> Answered(q, cursor)
    BY <1>0, <2>1 DEF Settled, Answered, Resolved
  <2> HIDE DEF r0, n
  <2>6. /\ n \in Nat
        /\ \A q \in Requests \ {r0} : created'[q] = created[q] /\ status'[q] = status[q]
        /\ created'[r0] = (IF r0 \in Filed THEN created[r0] ELSE n) /\ status'[r0] = "queued"
        /\ r0 \notin Filed => \A q \in Filed : created[q] < n
    <3>1. n \in Nat /\ \A q \in Filed : created[q] \in Nat /\ created[q] < n
      <4>1. n \in Nat /\ n = 1 + Cardinality(Filed)
        BY <2>3 DEF n
      <4>2. \A q \in Filed : created[q] \in Nat
        BY <1>0 DEF Filed
      <4> QED BY <2>3, <4>1, <4>2
    <3>2. r0 \in Filed <=> created[r0] # 0
      BY <1>0, <2>2 DEF Filed
    <3> QED BY <1>0, <2>1, <2>2, <3>1, <3>2
  <2>7. Filed' = Filed \cup {r0} /\ Waiting' = Waiting \cup {r0} /\ Pending' = Pending \ {r0}
    <3>1. Waiting' = Waiting \cup {r0} /\ Pending' = Pending \ {r0}
      BY <1>0, <2>2, <2>6 DEF Waiting, Pending, WithStatus
    <3>2. r0 \notin Filed => n > 0
      BY <2>3 DEF n
    <3> QED BY <1>0, <2>2, <2>6, <3>1, <3>2 DEF Filed
  <2>8. OpenRows'
    <3>1. ASSUME NEW q \in Filed' PROVE status'[q] \in {"queued", "pending"} <=> ~Settled(q)'
      <4>1. CASE q = r0
        BY <2>2, <2>5, <2>6, <4>1
      <4>2. CASE q # r0
        BY <2>4, <2>5, <2>6, <2>7, <4>2 DEF AgreeInv, OpenRows, Filed
      <4> QED BY <4>1, <4>2
    <3> QED BY <3>1 DEF OpenRows
  <2>9. FrontIsPending'
    <3>1. ASSUME NEW p \in Pending', NEW q \in Waiting' PROVE created'[p] <= created'[q]
      <4>1. p \in Pending /\ p # r0 /\ p \in Requests /\ p \in Filed /\ created'[p] = created[p]
        BY <2>6, <2>7 DEF Pending, WithStatus, OrderInv, Numbered, None
      <4>2. CASE q # r0
        <5>1. q \in Waiting /\ created'[q] = created[q]
          BY <2>6, <2>7, <4>2 DEF Waiting, WithStatus
        <5> QED BY <4>1, <5>1 DEF AgreeInv, FrontIsPending
      <4>3. CASE q = r0 /\ r0 \notin Filed
        BY <1>0, <2>6, <4>1, <4>3 DEF Filed
      <4>4. CASE q = r0 /\ r0 \in Filed
        <5>1. status[r0] \in {"queued", "pending"}
          BY <2>2, <2>4, <4>4 DEF AgreeInv, OpenRows
        <5>2. status[r0] = "queued"
          BY <2>2, <4>1, <5>1 DEF OneInv, OnePending, Pending, WithStatus
        <5>3. r0 \in Waiting /\ created'[r0] = created[r0]
          BY <2>2, <2>6, <4>4, <5>2 DEF Waiting, WithStatus
        <5> QED BY <4>1, <4>4, <5>3 DEF AgreeInv, FrontIsPending
      <4> QED BY <4>2, <4>3, <4>4
    <3> QED BY <2>1, <3>1 DEF FrontIsPending, Publishing
  <2>10. StatusTells'
    BY <1>0, <2>1, <2>2, <2>7 DEF AgreeInv, StatusTells, Requested
  <2>11. AtEvent'
    BY <1>0, <2>1, <2>2 DEF AgreeInv, AtEvent, Requested
  <2> QED BY <1>0, <2>8, <2>9, <2>10, <2>11 DEF AgreeInv
<1>5. CASE TryPublishNext
  <2>1. pc = "count" /\ UNCHANGED <<status, created, cursor, turnStatus>>
    BY <1>5 DEF TryPublishNext, db
  <2>2. Filed' = Filed /\ Pending' = Pending /\ Waiting' = Waiting
    BY <2>1 DEF Filed, Pending, Waiting, WithStatus
  <2>3. \/ pc' = "idle" /\ pos' = pos + 1 /\ (Pending # {} \/ Waiting = {})
        \/ pc' = "publishRead" /\ pos' = pos
    BY <1>5 DEF TryPublishNext, Handled, Over, Publish, Waiting
  <2>4. OpenRows'
    BY <1>0, <2>1, <2>2, <2>3 DEF AgreeInv, OpenRows, Settled, Answered, Resolved
  <2>5. FrontIsPending'
    BY <2>1, <2>2, <2>3 DEF AgreeInv, FrontIsPending, Publishing
  <2>6. StatusTells'
    BY <2>1, <2>2, <2>3 DEF AgreeInv, StatusTells
  <2>7. AtEvent'
    <3>1. CASE pc' = "idle" /\ pos' = pos + 1
      BY <1>0, <2>1, <3>1, PassedBy
    <3>2. CASE pc' = "publishRead" /\ pos' = pos
      <4>1. \A i \in DOMAIN stream : cursor < i /\ i <= pos => Requested(i)
        BY DEF AgreeInv, AtEvent
      <4>2. Requested(pos + 1) \/ (Resolved(pos + 1) /\ cursor = pos + 1)
        BY <2>1 DEF AgreeInv, AtEvent
      <4> QED BY <1>0, <2>1, <3>2, <4>1, <4>2 DEF AtEvent, Requested, Resolved
    <3> QED BY <2>3, <3>1, <3>2
  <2> QED BY <1>0, <2>4, <2>5, <2>6, <2>7 DEF AgreeInv
<1>6. CASE PublishRead
  <2>1. /\ pc = "publishRead" /\ pc' = "publishTx" /\ UNCHANGED <<status, created, cursor, turnStatus, pos>>
        /\ seen' = turnStatus
    BY <1>0, <1>6 DEF PublishRead
  <2>2. Filed' = Filed /\ Pending' = Pending /\ Waiting' = Waiting
    BY <2>1 DEF Filed, Pending, Waiting, WithStatus
  <2>4. OpenRows'
    BY <1>0, <2>1, <2>2 DEF AgreeInv, OpenRows, Settled, Answered, Resolved
  <2>5. FrontIsPending' /\ StatusTells'
    BY <2>1, <2>2 DEF AgreeInv, FrontIsPending, StatusTells, Publishing
  <2>6. AtEvent'
    BY <1>0, <2>1 DEF AgreeInv, AtEvent, Requested, Resolved
  <2> QED BY <1>0, <2>4, <2>5, <2>6 DEF AgreeInv
<1>7. CASE PublishTx
  <2>1. /\ pc = "publishTx" /\ pc' = "publishEvent" /\ UNCHANGED <<created, cursor, pos>>
        /\ status' = [status EXCEPT ![next] = "pending"] /\ turnStatus' = "waiting_approval"
    BY <1>0, <1>7 DEF PublishTx, Goto, AgreeInv, AtEvent
  <2>2. next \in Requests /\ status[next] = "queued" /\ Pending = {} /\ \A q \in Waiting : created[next] <= created[q]
    BY <2>1 DEF TypeOK, HandlerOK, OrderInv, Chosen, OneInv, NoneWhilePublishing, Waiting
  <2>3. Filed' = Filed /\ Pending' = {next} /\ Waiting' = Waiting \ {next}
    BY <1>0, <2>1, <2>2 DEF Filed, Pending, Waiting, WithStatus
  <2>4. OpenRows'
    <3>1. \A q \in Requests : status'[q] \in {"queued", "pending"} <=> status[q] \in {"queued", "pending"}
      BY <1>0, <2>1, <2>2
    <3>2. \A q \in Requests : Settled(q)' <=> Settled(q)
      BY <1>0, <2>1 DEF Settled, Answered, Resolved
    <3> QED BY <2>3, <3>1, <3>2 DEF AgreeInv, OpenRows, Filed
  <2>5. FrontIsPending' /\ StatusTells'
    BY <2>1, <2>2, <2>3 DEF FrontIsPending, StatusTells
  <2>6. AtEvent'
    BY <1>0, <2>1 DEF AgreeInv, AtEvent, Requested, Resolved
  <2> QED BY <1>0, <2>4, <2>5, <2>6 DEF AgreeInv
<1>8. CASE PublishEvent
  <2>1. pc = "publishEvent" /\ pc' = "idle" /\ pos' = pos + 1 /\ UNCHANGED <<status, created, cursor, turnStatus>>
    BY <1>8 DEF PublishEvent, db, Handled, Over
  <2>2. Filed' = Filed /\ Pending' = Pending /\ Waiting' = Waiting
    BY <2>1 DEF Filed, Pending, Waiting, WithStatus
  <2>4. OpenRows'
    BY <1>0, <2>1, <2>2 DEF AgreeInv, OpenRows, Settled, Answered, Resolved
  <2>5. FrontIsPending' /\ StatusTells'
    BY <2>1, <2>2 DEF AgreeInv, FrontIsPending, StatusTells, Publishing
  <2>6. AtEvent'
    BY <1>0, <2>1, PassedBy
  <2> QED BY <1>0, <2>4, <2>5, <2>6 DEF AgreeInv
<1>9. CASE ApprovalResolved
  <2> DEFINE r0 == Current.req
             s0 == IF Current.decision = "accept" THEN "approved" ELSE "rejected"
  <2>1. /\ pc = "settle" /\ pc' = "append" /\ UNCHANGED <<created, cursor, pos>>
        /\ seen = turnStatus /\ Current.type = "resolved" /\ cursor <= pos
        /\ turnStatus' = IF turnStatus = "waiting_approval" THEN "running" ELSE turnStatus
    BY <1>9 DEF ApprovalResolved, Goto, AgreeInv, AtEvent
  <2>2. r0 \in Requests /\ Pending = {r0} /\ status[r0] = "pending"
    <3>1. r0 \in Requests /\ Pending = {r0}
      BY <2>1, AnswersTheVisible
    <3> QED BY <3>1 DEF Pending, WithStatus
  <2>3. status' = [status EXCEPT ![r0] = s0] /\ s0 \in {"approved", "rejected"} /\ Current' = Current
    BY <1>0, <1>9, <2>1, <2>2 DEF ApprovalResolved
  <2>4. Resolved(pos + 1) /\ Resolved(pos + 1)'
    BY <1>0, <2>1 DEF Resolved, Current
  <2>5. \A q \in Requests : Settled(q)' <=> Settled(q) \/ q = r0
    <3>1. \A q \in Requests : Settled(q) <=> Answered(q, cursor)
      BY <2>1 DEF Settled
    <3>2. \A q \in Requests : Answered(q, cursor)' <=> Answered(q, cursor)
      BY <1>0, <2>1 DEF Answered, Resolved
    <3>3. \A q \in Requests : Settled(q)' <=> Answered(q, cursor)' \/ r0 = q
      BY <2>1, <2>3, <2>4 DEF Settled
    <3> QED BY <3>1, <3>2, <3>3
  <2> HIDE DEF r0, s0
  <2>6. /\ \A q \in Requests \ {r0} : status'[q] = status[q]
        /\ status'[r0] \in {"approved", "rejected"}
    BY <1>0, <2>2, <2>3
  <2>7. Filed' = Filed /\ Pending' = {}
    BY <1>0, <2>1, <2>2, <2>6 DEF Filed, Pending, WithStatus
  <2>8. OpenRows'
    BY <2>2, <2>5, <2>6, <2>7 DEF AgreeInv, OpenRows, Filed
  <2>9. FrontIsPending'
    BY <2>1, <2>4, <2>7 DEF FrontIsPending, Publishing
  <2>10. StatusTells'
    BY <2>1, <2>7 DEF StatusTells
  <2>11. AtEvent'
    BY <1>0, <2>1, <2>3 DEF AgreeInv, AtEvent, Requested
  <2> QED BY <1>0, <2>8, <2>9, <2>10, <2>11 DEF AgreeInv
<1>10. CASE TurnEnded
  <2>1. /\ pc = "end" /\ pc' = "idle" /\ cursor' = pos + 1 /\ pos' = pos + 1 /\ UNCHANGED <<status, created>>
        /\ turnStatus' = "ended" /\ cursor <= pos /\ Current.type = "ended"
    BY <1>10 DEF TurnEnded, Handled, Over, AgreeInv, AtEvent
  <2>2. Filed' = Filed /\ Pending' = Pending /\ Waiting' = Waiting
    BY <2>1 DEF Filed, Pending, Waiting, WithStatus
  <2>3. pos + 1 = Len(stream) /\ RunnerEnded' /\ ~Resolved(pos + 1)
    BY <1>0, <2>1 DEF AgreeInv, CodexStream, RunnerEnded, Emits, Current, Resolved
  <2>4. OpenRows'
    <3>1. \A q \in Requests : Settled(q)' <=> Answered(q, pos + 1)
      BY <1>0, <2>1 DEF Settled, Answered, Resolved
    <3>2. \A q \in Requests : Settled(q) <=> Answered(q, cursor)
      BY <2>1 DEF Settled
    <3>3. \A q \in Requests : Answered(q, pos + 1) <=> Answered(q, cursor)
      BY <2>1, <2>3, CursorMoves
    <3> QED BY <2>1, <2>2, <3>1, <3>2, <3>3 DEF AgreeInv, OpenRows, Filed
  <2>5. FrontIsPending' /\ StatusTells'
    BY <2>1, <2>2 DEF AgreeInv, FrontIsPending, StatusTells, Publishing
  <2>6. AtEvent'
    <3>1. cursor' = Len(stream') /\ \A i \in DOMAIN stream' : ~(cursor' < i /\ i <= pos')
      <4>1. cursor' = Len(stream) /\ pos' = Len(stream) /\ stream' = stream
        BY <1>0, <2>1, <2>3
      <4>2. \A i \in DOMAIN stream : ~(Len(stream) < i /\ i <= Len(stream))
        BY <1>0
      <4> QED BY <4>1, <4>2
    <3> QED BY <2>1, <2>3, <3>1 DEF AtEvent
  <2> QED BY <1>0, <2>4, <2>5, <2>6 DEF AgreeInv
<1> QED BY <1>1, <1>2, <1>3, <1>4, <1>5, <1>6, <1>7, <1>8, <1>9, <1>10 DEF Ingestion

\* Who answers a visible request answers the oldest the agent waits for.
LEMMA VisibleIsOldest ==
  ASSUME TypeOK, OneInv, OrderInv, AgreeInv, NEW r \in Requests, status[r] = "pending"
  PROVE  Raised(r) /\ \A q \in Requests : RaisedBefore(q, r) => q \notin held
<1>1. r \in Filed /\ Raised(r) /\ r \in Pending
  BY DEF OrderInv, Numbered, None, Pending, WithStatus
<1>2. ASSUME NEW q \in Requests, RaisedBefore(q, r) PROVE q \notin held
  <2>1. q \in Filed /\ created[q] < created[r] /\ created[q] \in Nat /\ created[r] \in Nat
    BY <1>1, <1>2 DEF OrderInv, Numbered, TypeOK, DatabaseOK
  <2>2. status[q] # "pending"
    BY <1>1, <2>1 DEF OneInv, OnePending, Pending, WithStatus
  <2>3. status[q] # "queued"
    BY <1>1, <2>1 DEF AgreeInv, FrontIsPending, Waiting, WithStatus
  <2>4. Settled(q)
    BY <2>1, <2>2, <2>3 DEF AgreeInv, OpenRows
  <2>5. Answered(q, Len(stream))
    <3>1. /\ pos \in Nat /\ cursor \in Nat /\ Len(stream) \in Nat /\ DOMAIN stream = 1..Len(stream)
          /\ pc = "append" => pos + 1 \in DOMAIN stream
      BY DEF TypeOK, RunnerOK, HandlerOK, DatabaseOK, OrderInv, Handling
    <3>2. CASE Answered(q, cursor)
      BY <3>1, <3>2 DEF Answered
    <3>3. CASE pc = "append" /\ Resolved(pos + 1) /\ Current.req = q
      BY <3>1, <3>3 DEF Answered, Current
    <3> QED BY <2>4, <3>2, <3>3 DEF Settled
  <2> QED BY <2>5 DEF AgreeInv, CodexStream
<1> QED BY <1>1, <1>2

\* Timers, users, failures and restarts keep the agreement.
LEMMA OthersAgree ==
  ASSUME TypeOK, OneInv, OrderInv, AgreeInv, Finishes, [Next]_vars, ~Ingestion, ~Runner
  PROVE  AgreeInv'
<1>1. UNCHANGED <<fixed, runner, turnStatus, status, created, cursor>> /\ (dispatching' => dispatching)
  <2>1. ASSUME NEW r \in Requests, TimersAndUsers(r)
        PROVE  UNCHANGED <<fixed, runner, turnStatus, status, created, cursor, dispatching>>
    BY <2>1 DEF TimersAndUsers, TimerFires, FireAutoApprove, AutoApproveFails, ResolveTurnApproval,
                PauseRead, PauseWrite, PauseFails, ResumeRead, ResumeWrite, db, runner, fixed
  <2>2. CASE TransientFailure \/ EnsureRunnerEventConsumer \/ RestartApi
    BY <2>2 DEF TransientFailure, EnsureRunnerEventConsumer, RestartApi, db, runner, fixed, calm
  <2>3. CASE DispatchFails
    BY <2>3 DEF DispatchFails, AgreeInv, CodexStream
  <2>4. CASE UNCHANGED vars
    BY <2>4 DEF vars, runner, fixed
  <2> QED BY <2>1, <2>2, <2>3, <2>4 DEF Next
<1>2. ASSUME NEW x \in answers', x \notin answers
      PROVE  \E r \in Requests : x[1] = r /\ status[r] = "pending"
  <2>1. ASSUME NEW r \in Requests, TimersAndUsers(r) PROVE x[1] = r /\ status[r] = "pending"
    BY <1>2, <2>1 DEF TimersAndUsers, TimerFires, FireAutoApprove, AutoApproveFails, ResolveTurnApproval,
                PauseRead, PauseWrite, PauseFails, ResumeRead, ResumeWrite
  <2>2. CASE TransientFailure \/ EnsureRunnerEventConsumer \/ RestartApi \/ DispatchFails \/ UNCHANGED vars
    BY <1>2, <2>2 DEF TransientFailure, EnsureRunnerEventConsumer, RestartApi, DispatchFails, calm, vars
  <2> QED BY <2>1, <2>2 DEF Next
<1>3. CodexStream' /\ OldestFirst'
  <2>1. \A x \in answers' : Raised(x[1]) /\ \A q \in Requests : RaisedBefore(q, x[1]) => q \notin held
    BY <1>2, VisibleIsOldest DEF AgreeInv, OldestFirst
  <2> QED BY <1>1, <2>1 DEF AgreeInv, CodexStream, OldestFirst, Requested, Resolved, Raised, Answered, RunnerEnded, Emits,
                            RaisedBefore, runner, fixed
<1>4. \/ UNCHANGED <<pc, pos, seen>>
      \/ pc' = "idle" /\ pos' \in {0, cursor} /\ pc \in {"idle", "start", "enqueue", "settle", "end"}
  <2>1. ASSUME NEW r \in Requests, TimersAndUsers(r) PROVE UNCHANGED <<pc, pos, seen>>
    BY <2>1 DEF TimersAndUsers, TimerFires, FireAutoApprove, AutoApproveFails, ResolveTurnApproval,
                PauseRead, PauseWrite, PauseFails, ResumeRead, ResumeWrite, handler
  <2>2. CASE TransientFailure \/ RestartApi
    <3>1. pc' = "idle" /\ pos' = 0 /\ pc \in Interruptible
      BY <2>2 DEF TransientFailure, RestartApi, Over
    <3>2. pc \in Steps \cup {"idle"}
      BY DEF TypeOK, HandlerOK
    <3> QED BY <3>1, <3>2 DEF Finishes, Steps
  <2>3. CASE DispatchFails
    BY <2>3 DEF DispatchFails, handler
  <2>4. CASE EnsureRunnerEventConsumer
    BY <2>4 DEF EnsureRunnerEventConsumer, OrderInv, Handling
  <2>5. CASE UNCHANGED vars
    BY <2>5 DEF vars
  <2> QED BY <2>1, <2>2, <2>3, <2>4, <2>5 DEF Next
<1>5. Filed' = Filed /\ Pending' = Pending /\ Waiting' = Waiting /\ stream' = stream
  BY <1>1 DEF Filed, Pending, Waiting, WithStatus, runner
<1>6. CASE UNCHANGED <<pc, pos, seen>>
  BY <1>1, <1>3, <1>5, <1>6 DEF AgreeInv, AtEvent, OpenRows, FrontIsPending, StatusTells, Publishing, Requested, Resolved,
                                Current, Settled, Answered, RunnerEnded, Emits
<1>7. CASE pc' = "idle" /\ pos' \in {0, cursor} /\ pc \in {"idle", "start", "enqueue", "settle", "end"}
  <2>1. cursor \in Nat /\ DOMAIN stream = 1..Len(stream) /\ Len(stream) \in Nat
    BY DEF TypeOK, DatabaseOK, RunnerOK
  <2>2. \A i \in DOMAIN stream : ~(cursor < i /\ i <= pos')
    BY <1>7, <2>1
  <2>3. AtEvent'
    BY <1>1, <1>5, <1>7, <2>2 DEF AgreeInv, AtEvent, RunnerEnded, Emits
  <2>4. OpenRows'
    BY <1>1, <1>5, <1>7 DEF AgreeInv, OpenRows, Settled, Answered, Resolved
  <2>5. FrontIsPending' /\ StatusTells'
    BY <1>1, <1>5, <1>7 DEF AgreeInv, FrontIsPending, StatusTells, Publishing
  <2> QED BY <1>3, <2>3, <2>4, <2>5 DEF AgreeInv
<1> QED BY <1>4, <1>6, <1>7

\* The whole of what the handler, its rows and the runner agree on.
ApprovalInv == TypeOK /\ OneInv /\ OrderInv /\ AgreeInv

LEMMA ApprovalInvariant == Finishes /\ Spec => []ApprovalInv
<1>1. Finishes /\ Init => ApprovalInv
  BY InitTypeOK, InitOne, InitOrder, InitAgree DEF ApprovalInv
<1>2. Finishes /\ TypeOK' /\ ApprovalInv /\ [Next]_vars => ApprovalInv'
  <2> SUFFICES ASSUME Finishes, TypeOK', ApprovalInv, [Next]_vars PROVE ApprovalInv'
    OBVIOUS
  <2>1. OneInv' /\ OrderInv'
    BY IngestionOne, OthersOne, RunnerOrder, IngestionOrder, OthersOrder DEF ApprovalInv
  <2>2. AgreeInv'
    BY RunnerAgree, IngestionAgree, OthersAgree DEF ApprovalInv
  <2> QED BY <2>1, <2>2 DEF ApprovalInv
<1>3. Finishes => []Finishes
  <2>1. Finishes => Finishes'
    BY DEF Finishes
  <2> QED BY <2>1, PTL
<1> QED BY <1>1, <1>2, <1>3, TypeCorrect, PTL DEF Spec

\* Once the API has caught up, its open rows are the requests the agent waits for.
THEOREM OpenWhenHeld == Finishes /\ Spec => []OpenIsHeld
<1>1. ApprovalInv => OpenIsHeld
  <2> SUFFICES ASSUME ApprovalInv, CaughtUp, NEW r \in Requests
               PROVE  status[r] \in {"queued", "pending"} <=> r \in held
    BY DEF OpenIsHeld, ApprovalInv, TypeOK, RunnerOK
  <2> USE DEF ApprovalInv
  <2>1. /\ pos = Len(stream) /\ Len(stream) \in Nat /\ DOMAIN stream = 1..Len(stream) /\ pc = "idle"
        /\ FiledUpTo(Len(stream))
    BY DEF CaughtUp, TypeOK, RunnerOK, OrderInv, Reached, AgreeInv, AtEvent
  <2>2. r \in Filed <=> Raised(r)
    BY <2>1 DEF FiledUpTo, Raised, Requested, OrderInv, Numbered
  <2>3. Settled(r) <=> Answered(r, Len(stream))
    <3>1. cursor \in Nat /\ cursor <= Len(stream)
      BY DEF TypeOK, DatabaseOK, OrderInv, Reached
    <3>2. \A i \in DOMAIN stream : Resolved(i) => i <= cursor
      BY <2>1, <3>1 DEF AgreeInv, AtEvent, Requested, Resolved
    <3> QED BY <2>1, <3>1, <3>2 DEF Settled, Answered
  <2>4. status[r] \in {"queued", "pending"} => r \in Filed
    BY DEF OrderInv, Numbered, None
  <2> QED BY <2>2, <2>3, <2>4 DEF AgreeInv, OpenRows, CodexStream
<1> QED BY <1>1, ApprovalInvariant, PTL

\* An active turn that has caught up waits exactly when an approval is visible.
THEOREM WaitsWhenVisible == Finishes /\ Spec => []WaitingIsPending
<1>1. ApprovalInv => WaitingIsPending
  BY DEF ApprovalInv, AgreeInv, StatusTells, WaitingIsPending, CaughtUp
<1> QED BY <1>1, ApprovalInvariant, PTL

\* The rows and the status of the turn are true to the agent once the API has caught up.
THEOREM RowsAgree == Finishes /\ Spec => []ApprovalsAgree
<1>1. OpenIsHeld /\ WaitingIsPending => ApprovalsAgree
  BY DEF ApprovalsAgree
<1> QED BY <1>1, OpenWhenHeld, WaitsWhenVisible, PTL

\* A request that waits in the queue has a visible one in front of it: what the run with faults at
\* every step refutes holds as long as a handler finishes what it has begun to write.
THEOREM NoneLeftBehind == Finishes /\ Spec => []QueuedIsBehindPending
<1>1. ApprovalInv => QueuedIsBehindPending
  BY DEF ApprovalInv, AgreeInv, FrontIsPending, Publishing, Waiting, QueuedIsBehindPending, CaughtUp
<1> QED BY <1>1, ApprovalInvariant, PTL
=============================================================================

--------------------------- MODULE TurnLifecycle ---------------------------
(***************************************************************************)
(* The turns of one session, run by the Codex backend of the embedded      *)
(* runner: creation, dispatch, the launch of the native turn, its events   *)
(* on the way to the turn's row, cancellation, the consumer's handling of  *)
(* missing turns and failed streams, and restarts.                         *)
(*                                                                         *)
(* Three parties hold a view of a turn: its row (status), the runner       *)
(* (registered, stream) and the Codex app server (agent).  Each awaited    *)
(* call separates two steps.  What a running turn does between its first   *)
(* and its last event is the subject of EventIngestion and ApprovalQueue.  *)
(***************************************************************************)
EXTENDS Naturals, Sequences, SequencesExt

CONSTANTS
  MaxTurns,     \* bound on the turns users ask for in the session
  Overtaking,   \* whether ingestion may fail with another event queued behind
  MaxFaults,    \* bound on failed writes and interrupts, worker exits and restarts
  MaxCancels    \* bound on cancel requests

ASSUME TurnAssumption ==
  MaxTurns \in Nat /\ Overtaking \in BOOLEAN /\ MaxFaults \in Nat /\ MaxCancels \in Nat

VARIABLES
  status,       \* durable: the status of the turn's row, "none" without a row
  cursor,       \* durable: runnerCursor
  launch,       \* how far startTurn is
  registered,   \* the turns in activeTurns, not finalized
  agent,        \* the turns whose native turn runs in the app server
  stream,       \* the runner's buffer of events
  consumer,     \* the turn's consumer in the API
  pos,          \* the last event it replayed, while it replays
  queue,        \* ingestion queue: [seq, live], seq 0 for an orphan's cancellation
  pc, seen,     \* the handler of the queue's head and the status it read
  cancel,       \* the user's cancel request
  cancels, faults

row == <<status, cursor>>
runner == <<launch, registered, agent, stream>>
handler == <<queue, pc, seen>>
following == <<consumer, pos>>
bounds == <<cancels, faults>>
vars == <<row, runner, handler, following, cancel, bounds>>

Turns == 1..MaxTurns  \* in the order of their creation
Terminal == {"completed", "failed", "cancelled"}
EventTypes == {"started"} \cup Terminal
Active(t) == status[t] \in {"queued", "running"}
Ended(t) == status[t] \in Terminal

\* The runner has a stream of the turn; its status is that of its last event.
HasStream(t) == launch[t] \in {"starting", "accepted", "identified", "done"}
StreamEnded(t) == stream[t] # <<>> /\ Last(stream[t]) \in Terminal

\* The runner knows the native turn, and can interrupt it.
Identified(t) == t \in registered /\ launch[t] \in {"identified", "done"}

Init ==
  /\ status = [t \in Turns |-> "none"] /\ cursor = [t \in Turns |-> 0]
  /\ launch = [t \in Turns |-> "none"] /\ registered = {} /\ agent = {}
  /\ stream = [t \in Turns |-> <<>>]
  /\ consumer = [t \in Turns |-> "idle"] /\ pos = [t \in Turns |-> 0]
  /\ queue = [t \in Turns |-> <<>>] /\ pc = [t \in Turns |-> "idle"]
  /\ seen = [t \in Turns |-> "none"]
  /\ cancel = [t \in Turns |-> "idle"]
  /\ cancels = 0 /\ faults = 0

-----------------------------------------------------------------------------
(* The runner's events.                                                    *)

\* appendTurnEvent for each turn u \in S: buffer the event and call the
\* listener, if there is one.
Emit(S, e) ==
  /\ stream' = [u \in Turns |-> IF u \in S THEN Append(stream[u], e) ELSE stream[u]]
  /\ queue' = [u \in Turns |->
                 IF u \in S /\ consumer[u] = "listening"
                 THEN Append(queue[u], [seq |-> Len(stream[u]) + 1, live |-> TRUE])
                 ELSE queue[u]]

\* finalizeTurn: only a turn that is still active gets a terminal event.
Finalize(S, e) ==
  /\ registered' = registered \ S
  /\ Emit(S \cap registered, e)

-----------------------------------------------------------------------------
(* Creation and dispatch.                                                  *)

\* The next turn to create.
IsNew(t) == status[t] = "none" /\ \A u \in 1..(t - 1) : status[u] # "none"

\* Mutant: queued turns are forgotten in the check.
CreateTurn_RunningOnly(t) ==
  /\ IsNew(t) /\ \A u \in Turns : status[u] # "running"
  /\ status' = [status EXCEPT ![t] = "queued"]
  /\ launch' = [launch EXCEPT ![t] = "resolving"]
  /\ UNCHANGED <<cursor, registered, agent, stream, handler, following, cancel, bounds>>

\* The transaction that creates the turn, and the call of startTurn.
CreateTurn(t) ==
  /\ IsNew(t) /\ \A u \in Turns : ~Active(u)
  /\ status' = [status EXCEPT ![t] = "queued"]
  /\ launch' = [launch EXCEPT ![t] = "resolving"]
  /\ UNCHANGED <<cursor, registered, agent, stream, handler, following, cancel, bounds>>

\* The workspace does not resolve: startTurn rejects, failTurn is called.
DispatchFails(t) ==
  /\ launch[t] = "resolving"
  /\ launch' = [launch EXCEPT ![t] = "rejected"]
  /\ UNCHANGED <<row, registered, agent, stream, handler, following, cancel, bounds>>

\* The write of failTurn, called for a rejected dispatch: it does not look at
\* the status of the turn.
FailDispatch(t) ==
  /\ launch[t] = "rejected"
  /\ launch' = [launch EXCEPT ![t] = "lost"]
  /\ status' = [status EXCEPT ![t] = "failed"]
  /\ UNCHANGED <<cursor, registered, agent, stream, handler, following, cancel, bounds>>

\* The runner registers the turn, opens its stream and asks the app server for
\* a native turn.
RegisterTurn(t) ==
  /\ launch[t] = "resolving"
  /\ launch' = [launch EXCEPT ![t] = "starting"]
  /\ registered' = registered \cup {t}
  /\ UNCHANGED <<row, agent, stream, handler, following, cancel, bounds>>

\* The app server accepts turn/start.
AgentStarts(t) ==
  /\ launch[t] = "starting"
  /\ launch' = [launch EXCEPT ![t] = "accepted"]
  /\ agent' = agent \cup {t}
  /\ UNCHANGED <<row, registered, stream, handler, following, cancel, bounds>>

\* The turn/started notification tells the runner the native turn's id.
IdentifyTurn(t) ==
  /\ launch[t] = "accepted" /\ t \in registered
  /\ launch' = [launch EXCEPT ![t] = "identified"]
  /\ UNCHANGED <<row, registered, agent, stream, handler, following, cancel, bounds>>

\* turn/start returns: turn.started is emitted, whatever happened meanwhile.
StartReturns(t) ==
  /\ launch[t] \in {"accepted", "identified"}
  /\ launch' = [launch EXCEPT ![t] = "done"]
  /\ Emit({t}, "started")
  /\ UNCHANGED <<row, registered, agent, pc, seen, following, cancel, bounds>>

\* turn/start is refused, or not answered within 15 s.
StartFails(t) ==
  /\ launch[t] \in {"starting", "accepted", "identified"}
  /\ launch' = [launch EXCEPT ![t] = "done"]
  /\ Finalize({t}, "failed")
  /\ UNCHANGED <<row, agent, pc, seen, following, cancel, bounds>>

\* The native turn ends by itself.  Its notification is looked up by thread and
\* native id; if the runner has given the turn up, it finds any other turn that
\* is active on the session's thread.
AgentFinishes(t) ==
  /\ t \in agent /\ launch[t] = "done"
  /\ agent' = agent \ {t}
  /\ \E e \in {"completed", "failed"} :
       \/ /\ t \in registered
          /\ Finalize({t}, e)
       \/ /\ t \notin registered
          /\ \E u \in registered : Finalize({u}, e)
       \/ /\ registered = {}
          /\ UNCHANGED <<registered, stream, queue>>
  /\ UNCHANGED <<row, launch, pc, seen, following, cancel, bounds>>

\* The app server exits: its native turns are gone, requests on their way fail
\* and every active turn of the backend is failed.
WorkerExits ==
  /\ agent # {} /\ faults < MaxFaults /\ faults' = faults + 1
  /\ agent' = {}
  /\ launch' = [t \in Turns |-> IF launch[t] \in {"starting", "accepted", "identified"}
                                THEN "done" ELSE launch[t]]
  /\ Finalize(Turns, "failed")
  /\ UNCHANGED <<row, pc, seen, following, cancel, cancels>>

-----------------------------------------------------------------------------
(* The consumer and the ingestion of events.                               *)

\* A consumer is started by the dispatch, a retry or the reconciliation; it ends
\* at once for a turn that has ended.
EnsureRunnerEventConsumer(t) ==
  /\ Active(t) /\ consumer[t] = "idle"
  /\ consumer' = [consumer EXCEPT ![t] = IF HasStream(t) THEN "replaying" ELSE "missing"]
  /\ pos' = IF HasStream(t) THEN [pos EXCEPT ![t] = cursor[t]] ELSE pos
  /\ UNCHANGED <<row, runner, handler, cancel, bounds>>

\* Replay the next buffered event, or end the replay.
Replay(t) ==
  /\ consumer[t] = "replaying"
  /\ \A i \in DOMAIN queue[t] : queue[t][i].seq = 0 \/ ~queue[t][i].live
  /\ IF pos[t] < Len(stream[t])
     THEN /\ queue' = [queue EXCEPT ![t] = Append(@, [seq |-> pos[t] + 1, live |-> TRUE])]
          /\ UNCHANGED following
     ELSE /\ consumer' = [consumer EXCEPT ![t] = IF StreamEnded(t) THEN "idle" ELSE "listening"]
          /\ pos' = [pos EXCEPT ![t] = 0]
          /\ UNCHANGED queue
  /\ UNCHANGED <<row, runner, pc, seen, cancel, bounds>>

Item(t) == Head(queue[t])
Event(t) == IF Item(t).seq = 0 THEN "cancelled" ELSE stream[t][Item(t).seq]

\* The head is handled: its sender goes on.
Handled(t) ==
  /\ pc' = [pc EXCEPT ![t] = "idle"] /\ seen' = [seen EXCEPT ![t] = "none"]
  /\ queue' = [queue EXCEPT ![t] = Tail(@)]
  /\ cancel' = IF Item(t).seq = 0 THEN [cancel EXCEPT ![t] = "idle"] ELSE cancel
  /\ IF Item(t).seq > 0 /\ Item(t).live
     THEN /\ pos' = IF consumer[t] = "replaying" THEN [pos EXCEPT ![t] = Item(t).seq] ELSE pos
          /\ consumer' = IF consumer[t] = "listening" /\ StreamEnded(t)
                         THEN [consumer EXCEPT ![t] = "idle"] ELSE consumer
     ELSE UNCHANGED following

\* The handler reads the turn: events up to the cursor, and terminal events of
\* a turn that has ended, are dropped.
ReadTurn(t) ==
  /\ queue[t] # <<>> /\ pc[t] = "idle"
  /\ IF \/ Item(t).seq > 0 /\ Item(t).seq <= cursor[t]
        \/ Event(t) \in Terminal /\ Ended(t)
     THEN Handled(t)
     ELSE /\ pc' = [pc EXCEPT ![t] = IF Event(t) = "started" THEN "mark" ELSE "append"]
          /\ seen' = [seen EXCEPT ![t] = status[t]]
          /\ UNCHANGED <<queue, following, cancel>>
  /\ UNCHANGED <<row, runner, bounds>>

\* Mutant: the status is written whatever it was.
MarkRunning_Unchecked(t) ==
  /\ pc[t] = "mark"
  /\ status' = [status EXCEPT ![t] = "running"]
  /\ pc' = [pc EXCEPT ![t] = "append"]
  /\ UNCHANGED <<cursor, runner, queue, seen, following, cancel, bounds>>

\* turn.started makes a turn running that was queued when the handler read it.
MarkRunning(t) ==
  /\ pc[t] = "mark"
  /\ status' = IF seen[t] = "queued" THEN [status EXCEPT ![t] = "running"] ELSE status
  /\ pc' = [pc EXCEPT ![t] = "append"]
  /\ UNCHANGED <<cursor, runner, queue, seen, following, cancel, bounds>>

\* Mutant: the status is taken from every event.
AppendEvent_EveryStatus(t) ==
  /\ pc[t] = "append"
  /\ status' = [status EXCEPT ![t] = Event(t)]
  /\ cursor' = IF Item(t).seq > cursor[t] THEN [cursor EXCEPT ![t] = Item(t).seq] ELSE cursor
  /\ Handled(t)
  /\ UNCHANGED <<runner, bounds>>

\* One transaction appends the event, moves the cursor and, for a terminal
\* event, sets the status.
AppendEvent(t) ==
  /\ pc[t] = "append"
  /\ status' = IF Event(t) \in Terminal THEN [status EXCEPT ![t] = Event(t)] ELSE status
  /\ cursor' = IF Item(t).seq > cursor[t] THEN [cursor EXCEPT ![t] = Item(t).seq] ELSE cursor
  /\ Handled(t)
  /\ UNCHANGED <<runner, bounds>>

\* A database call of the handler fails.  A cancellation is refused to the user;
\* a consumer ends and is retried if the failure is a transient one, and has a
\* failed stream otherwise.
IngestFails(t) ==
  /\ queue[t] # <<>> /\ (Overtaking \/ Len(queue[t]) = 1)
  /\ faults < MaxFaults /\ faults' = faults + 1
  /\ pc' = [pc EXCEPT ![t] = "idle"] /\ seen' = [seen EXCEPT ![t] = "none"]
  /\ IF Item(t).seq = 0
     THEN /\ cancel' = [cancel EXCEPT ![t] = "refused"]
          /\ queue' = [queue EXCEPT ![t] = Tail(@)]
          /\ UNCHANGED following
     ELSE /\ UNCHANGED cancel
          /\ queue' = [queue EXCEPT ![t] =
                         [i \in DOMAIN Tail(@) |-> [Tail(@)[i] EXCEPT !.live = FALSE]]]
          /\ IF Item(t).live
             THEN /\ \E c \in {"idle", "broken"} : consumer' = [consumer EXCEPT ![t] = c]
                  /\ pos' = [pos EXCEPT ![t] = 0]
             ELSE UNCHANGED following
  /\ UNCHANGED <<row, runner, cancels>>

-----------------------------------------------------------------------------
(* Turns without a runner, and cancellation.                               *)

\* Mutant: a missing turn is left to the next reconciliation.
StreamError_Retried(t) ==
  /\ consumer[t] \in {"missing", "broken"}
  /\ consumer' = [consumer EXCEPT ![t] = IF Ended(t) \/ @ = "missing" THEN "idle" ELSE "asking"]
  /\ UNCHANGED <<row, runner, handler, pos, cancel, bounds>>

\* The consumer's stream failed: unless the turn has ended it is closed, after
\* an attempt to cancel it in the runner if the runner has it.
StreamError(t) ==
  /\ consumer[t] \in {"missing", "broken"}
  /\ consumer' = [consumer EXCEPT ![t] = IF Ended(t) THEN "idle"
                                         ELSE IF @ = "missing" THEN "closing" ELSE "asking"]
  /\ UNCHANGED <<row, runner, handler, pos, cancel, bounds>>

\* The write of failTurn, called by the consumer: it does not look at the status
\* of the turn.
FailTurn(t) ==
  /\ consumer[t] = "closing"
  /\ consumer' = [consumer EXCEPT ![t] = "idle"]
  /\ status' = [status EXCEPT ![t] = "failed"]
  /\ UNCHANGED <<cursor, runner, handler, pos, cancel, bounds>>

\* turn/interrupt: the native turn ends, or nothing happens to it and that is ignored.
Interrupt(t) ==
  \/ agent' = agent \ {t} /\ UNCHANGED faults
  \/ faults < MaxFaults /\ faults' = faults + 1 /\ UNCHANGED agent

\* cancelTurn, called by the consumer.
ConsumerCancels(t) ==
  /\ consumer[t] = "asking"
  /\ IF Identified(t)
     THEN /\ consumer' = [consumer EXCEPT ![t] = "interrupting"]
          /\ UNCHANGED <<registered, stream, queue>>
     ELSE /\ consumer' = [consumer EXCEPT ![t] = "closing"]
          /\ Finalize({t}, "cancelled")
  /\ UNCHANGED <<row, launch, agent, pc, seen, pos, cancel, bounds>>

\* The interrupt is answered, refused or timed out: the turn is cancelled in the runner.
ConsumerInterrupted(t) ==
  /\ consumer[t] = "interrupting"
  /\ consumer' = [consumer EXCEPT ![t] = "closing"]
  /\ Interrupt(t)
  /\ Finalize({t}, "cancelled")
  /\ UNCHANGED <<row, launch, pc, seen, pos, cancel, cancels>>

\* A user cancels an active turn.
CancelTurnForUser(t) ==
  /\ Active(t) /\ cancel[t] \in {"idle", "refused"}
  /\ cancels < MaxCancels /\ cancels' = cancels + 1
  /\ cancel' = [cancel EXCEPT ![t] = "asking"]
  /\ UNCHANGED <<row, runner, handler, following, faults>>

\* Mutant: a turn the runner does not have is taken to be cancelled.
UserCancels_TrustsRunner(t) ==
  /\ cancel[t] = "asking"
  /\ cancel' = [cancel EXCEPT ![t] = IF Identified(t) THEN "interrupting" ELSE "idle"]
  /\ IF Identified(t)
     THEN UNCHANGED <<registered, stream, queue>>
     ELSE Finalize({t}, "cancelled")
  /\ UNCHANGED <<row, launch, agent, pc, seen, following, bounds>>

\* cancelTurn, called for the user: a turn the runner does not have is closed
\* through the ingestion queue.
UserCancels(t) ==
  /\ cancel[t] = "asking"
  /\ IF t \notin registered
     THEN /\ cancel' = [cancel EXCEPT ![t] = "ingesting"]
          /\ queue' = [queue EXCEPT ![t] = Append(@, [seq |-> 0, live |-> TRUE])]
          /\ UNCHANGED <<registered, stream>>
     ELSE IF Identified(t)
     THEN /\ cancel' = [cancel EXCEPT ![t] = "interrupting"]
          /\ UNCHANGED <<registered, stream, queue>>
     ELSE /\ cancel' = [cancel EXCEPT ![t] = "idle"]
          /\ Finalize({t}, "cancelled")
  /\ UNCHANGED <<row, launch, agent, pc, seen, following, bounds>>

UserInterrupted(t) ==
  /\ cancel[t] = "interrupting"
  /\ cancel' = [cancel EXCEPT ![t] = "idle"]
  /\ Interrupt(t)
  /\ Finalize({t}, "cancelled")
  /\ UNCHANGED <<row, launch, pc, seen, following, cancels>>

-----------------------------------------------------------------------------

\* The API restarts, and with it the runner and its app server.
RestartApi ==
  /\ faults < MaxFaults /\ faults' = faults + 1
  /\ launch' = [t \in Turns |-> IF launch[t] = "none" THEN "none" ELSE "lost"]
  /\ registered' = {} /\ agent' = {}
  /\ stream' = [t \in Turns |-> <<>>]
  /\ consumer' = [t \in Turns |-> "idle"] /\ pos' = [t \in Turns |-> 0]
  /\ queue' = [t \in Turns |-> <<>>] /\ pc' = [t \in Turns |-> "idle"]
  /\ seen' = [t \in Turns |-> "none"]
  /\ cancel' = [t \in Turns |-> IF cancel[t] = "idle" THEN "idle" ELSE "refused"]
  /\ UNCHANGED <<row, cancels>>

Launch(t) == RegisterTurn(t) \/ AgentStarts(t) \/ StartReturns(t) \/ FailDispatch(t)
Consumer(t) ==
  \/ EnsureRunnerEventConsumer(t) \/ Replay(t) \/ StreamError(t)
  \/ ConsumerCancels(t) \/ ConsumerInterrupted(t) \/ FailTurn(t)
Handler(t) == ReadTurn(t) \/ MarkRunning(t) \/ AppendEvent(t)
Cancellation(t) == UserCancels(t) \/ UserInterrupted(t)

Next ==
  \/ \E t \in Turns :
       \/ CreateTurn(t) \/ DispatchFails(t) \/ Launch(t) \/ IdentifyTurn(t) \/ StartFails(t)
       \/ AgentFinishes(t) \/ Consumer(t) \/ Handler(t) \/ IngestFails(t)
       \/ CancelTurnForUser(t) \/ Cancellation(t)
  \/ WorkerExits \/ RestartApi

Spec == Init /\ [][Next]_vars

\* Promise chains run, the reconciliation starts missing consumers, the app
\* server answers or the request times out.  Nobody has to end a native turn.
FairSpec ==
  /\ Spec
  /\ \A t \in Turns : /\ WF_vars(Launch(t)) /\ WF_vars(Consumer(t))
                      /\ WF_vars(Handler(t)) /\ WF_vars(Cancellation(t))

-----------------------------------------------------------------------------
(* Properties.                                                             *)

TypeOK ==
  /\ status \in [Turns -> {"none", "queued", "running"} \cup Terminal]
  /\ cursor \in [Turns -> Nat] /\ pos \in [Turns -> Nat]
  /\ launch \in [Turns -> {"none", "resolving", "rejected", "starting", "accepted",
                           "identified", "done", "lost"}]
  /\ registered \subseteq Turns /\ agent \subseteq Turns
  /\ stream \in [Turns -> Seq(EventTypes)]
  /\ consumer \in [Turns -> {"idle", "replaying", "listening", "missing", "broken", "asking",
                             "interrupting", "closing"}]
  /\ queue \in [Turns -> Seq([seq : Nat, live : BOOLEAN])]
  /\ pc \in [Turns -> {"idle", "mark", "append"}]
  /\ seen \in [Turns -> {"none", "queued", "running"} \cup Terminal]
  /\ cancel \in [Turns -> {"idle", "asking", "interrupting", "ingesting", "refused"}]
  /\ cancels \in Nat /\ faults \in Nat

\* A session has one active turn at most, whatever late events, retries and
\* restarts write (createTurnWithResolvedSession).
OneActive == \A t, u \in Turns : Active(t) /\ Active(u) => t = u

\* No late event makes a turn active again that has ended.
EndedStaysEnded == [][\A t \in Turns : Ended(t) => Ended(t)']_vars

\* A turn does not stay active with nobody working on it: it ends, or its native
\* turn runs (reconcileInFlightTurns, consumeRunnerEvents).
NotStuck == \A t \in Turns : Active(t) ~> (Ended(t) \/ t \in agent)

\* A cancelled turn ends, unless the user is told that the request failed
\* (cancelTurnForUser).
CancelEnds == \A t \in Turns : cancel[t] = "asking" ~> (Ended(t) \/ cancel[t] = "refused")

\* The claim that no native turn is left running when its turn has ended
\* (consumeRunnerEvents).
AgentStops == \A t \in Turns : Ended(t) ~> t \notin agent
=============================================================================

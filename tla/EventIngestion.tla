--------------------------- MODULE EventIngestion ---------------------------
(***************************************************************************)
(* How the events of one turn get from the runner to the durable log:      *)
(* the runner's stream and listener, the consumer that replays and then    *)
(* follows it, the turn's ingestion queue, the coalescing of adjacent text *)
(* events with its flush timers, and the turn's event write queue, whose   *)
(* writes also advance the durable runner cursor.                          *)
(*                                                                         *)
(* Every database call is a step of its own: flush timers, further events, *)
(* failed writes and restarts come in between.                             *)
(***************************************************************************)
EXTENDS Naturals, Sequences, SequencesExt

CONSTANTS
  Keys,               \* coalescing keys of text events
  Facts,              \* the other kinds, a subset of {"fact", "plain", "end"}
  Emitters,           \* concurrent callers of appendTurnEvent
  Remotes,            \* runner placements considered, a subset of BOOLEAN
  TimerWritesMayFail, \* whether a write started by a flush timer may fail
  MaxEvents,          \* bound on the length of the stream
  MaxFaults           \* bound on failed database calls plus restarts

ASSUME IngestionAssumption ==
  /\ Facts \subseteq {"fact", "plain", "end"} /\ Keys \cap Facts = {}
  /\ "consumer" \notin Emitters
  /\ Remotes \subseteq BOOLEAN /\ TimerWritesMayFail \in BOOLEAN
  /\ MaxEvents \in Nat /\ MaxFaults \in Nat

VARIABLES
  remote,    \* the runner is another process, followed over HTTP
  stream,    \* the kinds of the emitted events; the index is runnerSeq
  consumer,  \* "idle", "starting", "replaying" or "listening"
  pos,       \* last event the consumer replayed
  queue,     \* ingestion queue: [seq, by, live]
  pc,        \* where the handler of the queue's head is
  seen,      \* the handler's read of the turn: [cursor, ended]
  pending,   \* batches to write, in insertion order: [key, seqs, armed]
  writes,    \* event write queue: [key, seqs, flush, by, waiters]
  log,       \* durable: the events of the turn, [key, seqs]
  faults

vars == <<remote, stream, consumer, pos, queue, pc, seen, pending, writes, log, faults>>

Kinds == Keys \cup Facts
Seqs(batches) == UNION {batches[i].seqs : i \in DOMAIN batches}
MaxOf(S) == CHOOSE n \in S \cup {0} : \A m \in S : m <= n

Cursor == MaxOf(Seqs(log))                       \* durable: runnerCursor
Ended == \E i \in DOMAIN log : log[i].key = "end" \* durable: the turn's status
Emitted(k) == \E i \in DOMAIN stream : stream[i] = k

\* The parties that wait for a database write.
Waiting(f) == \E i \in DOMAIN writes : f \in writes[i].waiters
Flushing == {i \in DOMAIN writes : writes[i].flush}

Init ==
  /\ remote \in Remotes
  /\ stream = <<>> /\ log = <<>>
  /\ consumer = "idle" /\ pos = 0
  /\ queue = <<>> /\ pc = "idle" /\ seen = [cursor |-> 0, ended |-> FALSE]
  /\ pending = <<>> /\ writes = <<>>
  /\ faults = 0

-----------------------------------------------------------------------------
(* The runner.                                                             *)

\* appendTurnEvent: buffer the event and await the listener, if there is one;
\* the caller emits nothing else meanwhile.
Emit(e, k) ==
  /\ ~Emitted("end") /\ Len(stream) < MaxEvents
  /\ \A i \in DOMAIN queue : queue[i].by # e
  /\ stream' = Append(stream, k)
  /\ queue' = IF consumer = "listening"
              THEN Append(queue, [seq |-> Len(stream) + 1, by |-> e, live |-> TRUE])
              ELSE queue
  /\ UNCHANGED <<remote, consumer, pos, pc, seen, pending, writes, log, faults>>

-----------------------------------------------------------------------------
(* The coalescing map.                                                     *)

Write(batch, flush, by, waiters) ==
  [key |-> batch.key, seqs |-> batch.seqs, flush |-> flush, by |-> by, waiters |-> waiters]

HasPending(key) == \E i \in DOMAIN pending : pending[i].key = key

\* Mutant: a later event of the key replaces the batch, as for plan updates.
Coalesce_LastWins(key, seq) ==
  IF HasPending(key)
  THEN pending' = [i \in DOMAIN pending |->
                     IF pending[i].key = key THEN [pending[i] EXCEPT !.seqs = {seq}]
                     ELSE pending[i]]
  ELSE pending' = Append(pending, [key |-> key, seqs |-> {seq}, armed |-> TRUE])

\* Adds an event to the batch of its key, or opens one and arms its timer.
Coalesce(key, seq) ==
  IF HasPending(key)
  THEN pending' = [i \in DOMAIN pending |->
                     IF pending[i].key = key THEN [pending[i] EXCEPT !.seqs = @ \cup {seq}]
                     ELSE pending[i]]
  ELSE pending' = Append(pending, [key |-> key, seqs |-> {seq}, armed |-> TRUE])

\* The flush timer of a batch: nobody awaits the write.
FlushTimerFires ==
  /\ \E i \in DOMAIN pending :
       /\ pending[i].armed
       /\ pending' = RemoveAt(pending, i)
       /\ writes' = Append(writes, Write(pending[i], TRUE, "timer", {}))
  /\ UNCHANGED <<remote, stream, consumer, pos, queue, pc, seen, log, faults>>

\* flushPendingCoalescedEventsForTurn, called by the handler or the consumer:
\* write the batches one after the other, then wait for flushes in flight.
FlushOne(f) ==
  /\ pending # <<>>
  /\ pending' = Tail(pending)
  /\ writes' = Append(writes, Write(Head(pending), TRUE, f, {f}))

JoinFlushes(f) ==
  /\ pending = <<>> /\ Flushing # {}
  /\ writes' = [i \in DOMAIN writes |->
                  IF i \in Flushing THEN [writes[i] EXCEPT !.waiters = @ \cup {f}] ELSE writes[i]]
  /\ pending' = pending

Flushed == pending = <<>> /\ Flushing = {}

-----------------------------------------------------------------------------
(* The handler of the event at the head of the ingestion queue.            *)

Item == Head(queue)
Kind == stream[Item.seq]

\* The event is handled.  Its replay goes on; a listener that finds the stream
\* terminal by now is done.
Succeed ==
  /\ pc' = "idle"
  /\ LET done == Item.live /\ Item.by # "consumer" /\ Emitted("end")
     IN /\ consumer' = IF done THEN "idle" ELSE consumer
        /\ queue' = IF done
                    THEN [i \in DOMAIN Tail(queue) |-> [Tail(queue)[i] EXCEPT !.live = FALSE]]
                    ELSE Tail(queue)
  /\ pos' = IF Item.live /\ Item.by = "consumer" THEN Item.seq ELSE pos

\* The event fails: its consumer stops, what it had queued is still ingested.
Fail ==
  /\ pc' = "idle" /\ pos' = pos
  /\ queue' = IF Item.live
              THEN [i \in DOMAIN Tail(queue) |-> [Tail(queue)[i] EXCEPT !.live = FALSE]]
              ELSE Tail(queue)

ReadTurn ==
  /\ queue # <<>> /\ pc = "idle"
  /\ seen' = [cursor |-> Cursor, ended |-> Ended]
  /\ pc' = "decide"
  /\ UNCHANGED <<remote, stream, consumer, pos, queue, pending, writes, log, faults>>

ReadFails ==
  /\ queue # <<>> /\ pc = "idle" /\ faults < MaxFaults
  /\ faults' = faults + 1
  /\ Fail
  /\ consumer' = IF Item.live THEN "idle" ELSE consumer
  /\ UNCHANGED <<remote, stream, seen, pending, writes, log>>

\* What is left to do once nothing of another key is pending.
Route ==
  CASE seen.ended /\ Kind # "plain" -> Succeed /\ UNCHANGED pending
    [] Kind \in Keys /\ ~seen.ended -> Succeed /\ Coalesce(Kind, Item.seq)
    [] OTHER -> /\ pc' = IF Kind = "plain" THEN "append" ELSE "flush"
                /\ UNCHANGED <<consumer, queue, pos, pending>>

\* Drop what the log or a pending batch has; flush batches of other keys.
Decide ==
  /\ pc = "decide"
  /\ IF Item.seq <= MaxOf({seen.cursor} \cup Seqs(pending))
     THEN Succeed /\ UNCHANGED pending
     ELSE IF \E i \in DOMAIN pending : pending[i].key # Kind
     THEN pc' = "boundary" /\ UNCHANGED <<consumer, queue, pos, pending>>
     ELSE Route
  /\ UNCHANGED <<remote, stream, seen, writes, log, faults>>

HandlerFlushes ==
  /\ pc \in {"boundary", "flush"} /\ ~Waiting("handler")
  /\ FlushOne("handler") \/ JoinFlushes("handler")
  /\ UNCHANGED <<remote, stream, consumer, pos, queue, pc, seen, log, faults>>

BoundaryFlushed ==
  /\ pc = "boundary" /\ ~Waiting("handler") /\ Flushed
  /\ Route
  /\ UNCHANGED <<remote, stream, seen, writes, log, faults>>

\* appendEvent: the event's own write goes behind those already queued.
AppendEvent ==
  /\ \/ pc = "append"
     \/ pc = "flush" /\ ~Waiting("handler") /\ Flushed
  /\ writes' = Append(writes, Write([key |-> Kind, seqs |-> {Item.seq}], FALSE, "handler",
                                    {"handler"}))
  /\ pc' = "appended"
  /\ UNCHANGED <<remote, stream, consumer, pos, queue, seen, pending, log, faults>>

Appended ==
  /\ pc = "appended" /\ ~Waiting("handler")
  /\ Succeed
  /\ UNCHANGED <<remote, stream, seen, pending, writes, log, faults>>

Handler == ReadTurn \/ Decide \/ HandlerFlushes \/ BoundaryFlushed \/ AppendEvent \/ Appended

-----------------------------------------------------------------------------
(* The event write queue: one transaction after the other.                 *)

\* The event row, the cursor and the turn's terminal status are one transaction.
AppendEventNow ==
  /\ writes # <<>>
  /\ writes' = Tail(writes)
  /\ log' = Append(log, [key |-> Head(writes).key, seqs |-> Head(writes).seqs])
  /\ UNCHANGED <<remote, stream, consumer, pos, queue, pc, seen, pending, faults>>

\* A batch that could not be written goes back, without a timer, unless a new
\* one of its key was opened; whoever waits for the write fails with it.
WriteFails ==
  /\ writes # <<>> /\ faults < MaxFaults
  /\ Head(writes).by = "timer" => TimerWritesMayFail
  /\ faults' = faults + 1
  /\ LET w == Head(writes)
     IN /\ pending' = IF w.flush /\ ~HasPending(w.key)
                      THEN Append(pending, [key |-> w.key, seqs |-> w.seqs, armed |-> FALSE])
                      ELSE pending
        /\ writes' = [i \in DOMAIN Tail(writes) |->
                        [Tail(writes)[i] EXCEPT !.waiters = @ \ w.waiters]]
        /\ IF "handler" \in w.waiters THEN Fail ELSE UNCHANGED <<pc, pos, queue>>
        /\ consumer' = IF "consumer" \in w.waiters \/ ("handler" \in w.waiters /\ Item.live)
                       THEN "idle" ELSE consumer
  /\ UNCHANGED <<remote, stream, seen, log>>

-----------------------------------------------------------------------------
(* The consumer.                                                           *)

\* Mutant: a turn whose runner has finished is not consumed again.
EnsureRunnerEventConsumer_Running ==
  /\ consumer = "idle" /\ ~Ended /\ ~Emitted("end")
  /\ consumer' = "starting"
  /\ UNCHANGED <<remote, stream, pos, queue, pc, seen, pending, writes, log, faults>>

\* Started when the turn is dispatched, retried after a failure, and started
\* again by the periodic reconciliation of turns that are still active.
EnsureRunnerEventConsumer ==
  /\ consumer = "idle" /\ ~Ended
  /\ consumer' = "starting"
  /\ UNCHANGED <<remote, stream, pos, queue, pc, seen, pending, writes, log, faults>>

ConsumerFlushes ==
  /\ consumer = "starting" /\ ~Waiting("consumer")
  /\ FlushOne("consumer") \/ JoinFlushes("consumer")
  /\ UNCHANGED <<remote, stream, consumer, pos, queue, pc, seen, log, faults>>

\* Mutant: the cursor is read while flushes are in flight.
ReadCursor_InFlight ==
  /\ consumer = "starting"
  /\ consumer' = IF Ended THEN "idle" ELSE "replaying"
  /\ pos' = Cursor
  /\ UNCHANGED <<remote, stream, queue, pc, seen, pending, writes, log, faults>>

\* Replay starts behind the durable cursor.
ReadCursor ==
  /\ consumer = "starting" /\ ~Waiting("consumer") /\ Flushed
  /\ consumer' = IF Ended THEN "idle" ELSE "replaying"
  /\ pos' = Cursor
  /\ UNCHANGED <<remote, stream, queue, pc, seen, pending, writes, log, faults>>

\* Mutant: replay includes the event at the cursor.
HandOver_Inclusive ==
  /\ consumer = "replaying" /\ pos < Len(stream)
  /\ \A i \in DOMAIN queue : ~(queue[i].by = "consumer" /\ queue[i].live)
  /\ queue' = Append(queue, [seq |-> pos, by |-> "consumer", live |-> TRUE])
  /\ UNCHANGED <<remote, stream, consumer, pos, pc, seen, pending, writes, log, faults>>

\* One event at a time is handed over and awaited.
HandOver ==
  /\ consumer = "replaying" /\ pos < Len(stream)
  /\ \A i \in DOMAIN queue : ~(queue[i].by = "consumer" /\ queue[i].live)
  /\ queue' = Append(queue, [seq |-> pos + 1, by |-> "consumer", live |-> TRUE])
  /\ UNCHANGED <<remote, stream, consumer, pos, pc, seen, pending, writes, log, faults>>

\* The embedded runner replays what its buffer holds ...
ReplayEvent == ~remote /\ HandOver

\* ... and the stream of a remote one is read to its end.
RemoteEvent == remote /\ HandOver

\* The buffer is read: a terminal stream is done, else listen to what comes.
ReplayEnds ==
  /\ consumer = "replaying" /\ pos = Len(stream)
  /\ Emitted("end") \/ ~remote
  /\ consumer' = IF Emitted("end") THEN "idle" ELSE "listening"
  /\ UNCHANGED <<remote, stream, pos, queue, pc, seen, pending, writes, log, faults>>

\* The API restarts beside a remote runner: only the database is left.
RestartApi ==
  /\ remote /\ faults < MaxFaults
  /\ faults' = faults + 1
  /\ consumer' = "idle" /\ pos' = 0 /\ queue' = <<>> /\ pc' = "idle"
  /\ pending' = <<>> /\ writes' = <<>>
  /\ UNCHANGED <<remote, stream, seen, log>>

Consumer == EnsureRunnerEventConsumer \/ ConsumerFlushes \/ ReadCursor \/ ReplayEvent \/ RemoteEvent \/ ReplayEnds

-----------------------------------------------------------------------------
Next ==
  \/ \E e \in Emitters, k \in Kinds : Emit(e, k)
  \/ Handler \/ ReadFails
  \/ FlushTimerFires \/ AppendEventNow \/ WriteFails
  \/ Consumer \/ RestartApi

Spec == Init /\ [][Next]_vars

\* Handlers, database writes and the consumer make progress.  Flush timers need
\* no fairness: what they would write is written before the terminal event.
FairSpec == Spec /\ WF_vars(Handler) /\ WF_vars(AppendEventNow) /\ WF_vars(Consumer)

-----------------------------------------------------------------------------
(* Properties.                                                             *)

Batch == [key : Kinds, seqs : SUBSET (1..MaxEvents)]

\* The values each variable takes.
TypeOK ==
  /\ remote \in BOOLEAN
  /\ stream \in Seq(Kinds) /\ log \in Seq(Batch)
  /\ consumer \in {"idle", "starting", "replaying", "listening"}
  /\ pos \in 0..MaxEvents
  /\ queue \in Seq([seq : 1..MaxEvents, by : Emitters \cup {"consumer"}, live : BOOLEAN])
  /\ pc \in {"idle", "decide", "boundary", "flush", "append", "appended"}
  /\ seen \in [cursor : 0..MaxEvents, ended : BOOLEAN]
  /\ pending \in Seq([key : Keys, seqs : SUBSET (1..MaxEvents), armed : BOOLEAN])
  /\ writes \in Seq([key : Kinds, seqs : SUBSET (1..MaxEvents), flush : BOOLEAN,
                     by : {"timer", "handler", "consumer"},
                     waiters : SUBSET {"handler", "consumer"}])
  /\ faults \in 0..MaxFaults

\* The log is what EventLog promises: every event once, in order, merged only
\* with neighbours of its key.
Log == INSTANCE EventLog WITH Keys <- Keys, Facts <- Facts, stream <- stream, log <- log
LogSpec == Log!Spec

\* The durable cursor vouches for everything before it: a replay from the
\* cursor, the only recovery there is, misses nothing.
Gapless == Seqs(log) = 1..Cursor

\* An event the cursor has passed is in the log or still held for a retry: the
\* runner will not be asked for it again.
Kept == 1..Cursor \subseteq Seqs(log) \cup Seqs(writes) \cup Seqs(pending)

\* Log, queued writes and pending batches are, in this order, an initial part of
\* the stream: a failed or restarted step leaves no hole for a later one to jump.
AcceptedInOrder ==
  LET accepted == Seqs(log) \cup Seqs(writes) \cup Seqs(pending) IN
  /\ accepted = 1..MaxOf(accepted)
  /\ \A s \in Seqs(log), t \in Seqs(writes) \cup Seqs(pending) : s < t
  /\ \A s \in Seqs(writes), t \in Seqs(pending) : s < t

\* Once the runner has emitted the terminal event, the whole stream gets into
\* the log, and the turn ends.
Delivered == Emitted("end") ~> (Ended /\ Seqs(log) = DOMAIN stream)
=============================================================================

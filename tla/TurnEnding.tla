----------------------------- MODULE TurnEnding -----------------------------
(***************************************************************************)
(* How a turn is closed in the database: the handler of its terminal event *)
(* and failTurn, which a consumer calls from outside of the ingestion      *)
(* queue, each flush the batched text and the batched context usage before *)
(* they write the end. A turn of history version 1 (Claude) commits its    *)
(* answer and its status first and appends the event after that; one of    *)
(* version 2 (Codex) ends with the transaction of the event.               *)
(* (turns.service.ts; EventIngestion has the queues in detail)             *)
(***************************************************************************)
EXTENDS Naturals, Sequences, SequencesExt, FiniteSetsExt

CONSTANTS
  MaxFeed,      \* bound on the events of the turn
  MaxEndFaults  \* bound on failed database calls

ASSUME EndingAssumption == MaxFeed \in Nat /\ MaxEndFaults \in Nat

VARIABLES
  version,  \* history version of the turn
  feed,     \* kinds of the events the runner has emitted; the index is runnerSeq
  intake,   \* [on, queued, pos]: the consumer runs; events in the queue; events handled
  batch,    \* [seqs, armed]: text that waits, and whether its flush timer is set
  textOut,  \* event write queue: [kind, seqs, waiters]
  usage,    \* context usage: [pending, flights, stored], the flights with their waiters
  closer,   \* where the handler ("ingest") and failTurn ("fail") stand, and what they read
  row,      \* durable: [cursor, text, status, answers, ends]
  endFaults,
  taken,    \* history: the events handled, without text that a failed timer dropped
  mixed,    \* history: failTurn ran while the queue still handled events
  usageBlurred \* history: a usage write failed, which nothing repeats, or two were under way at once

endingVars == <<version, feed, intake, batch, textOut, usage, closer, row, endFaults, taken, mixed, usageBlurred>>

Closers == {"ingest", "fail"}
Highest(S) == IF S = {} THEN 0 ELSE Max(S)
OfKind(k) == {i \in DOMAIN feed : feed[i] = k}
Idle(c) == closer[c].pc = "idle"

EndingTypeOK ==
  /\ version \in {1, 2}
  /\ feed \in Seq({"text", "usage", "fact", "end"}) /\ Len(feed) <= MaxFeed
  /\ intake \in [on : BOOLEAN, queued : 0..MaxFeed, pos : 0..MaxFeed]
  /\ batch.seqs \subseteq DOMAIN feed
  /\ \A i \in DOMAIN textOut : textOut[i].seqs \subseteq DOMAIN feed /\ textOut[i].waiters \subseteq Closers
  /\ usage.pending \in 0..MaxFeed /\ usage.stored \in 0..MaxFeed
  /\ \A f \in usage.flights : f.seq \in 1..MaxFeed /\ f.waiters \subseteq Closers
  /\ \A c \in Closers : closer[c].pc \in {"idle", "boundary", "fact", "usage", "text", "collect", "commit",
                                          "append", "appended"}
  /\ row.cursor \in 0..MaxFeed /\ row.status \in {"running", "ended"}
  /\ taken \subseteq DOMAIN feed /\ endFaults \in 0..MaxEndFaults

NoBatch == [seqs |-> {}, armed |-> FALSE]
AtRest == [pc |-> "idle", text |-> {}, given |-> {}]
EndingInit ==
  /\ version \in {1, 2} /\ feed = <<>>
  /\ intake = [on |-> TRUE, queued |-> 0, pos |-> 0]
  /\ batch = NoBatch /\ textOut = <<>>
  /\ usage = [pending |-> 0, flights |-> {}, stored |-> 0]
  /\ closer = [c \in Closers |-> AtRest]
  /\ row = [cursor |-> 0, text |-> {}, status |-> "running", answers |-> <<>>, ends |-> 0]
  /\ endFaults = 0 /\ taken = {} /\ mixed = FALSE /\ usageBlurred = FALSE

EndFault == endFaults < MaxEndFaults /\ endFaults' = endFaults + 1
To(c, pc) == closer' = [closer EXCEPT ![c].pc = pc]

\* flushPendingCoalescedEvent: the batch goes into the event write queue.
SendText(waiters) ==
  /\ batch' = NoBatch
  /\ textOut' = Append(textOut, [kind |-> "text", seqs |-> batch.seqs, waiters |-> waiters])

-----------------------------------------------------------------------------
\* The runner and its consumer.

EmitEvent(k) ==
  /\ Len(feed) < MaxFeed /\ ~Contains(feed, "end")
  /\ feed' = Append(feed, k)
  /\ UNCHANGED <<version, intake, batch, textOut, usage, closer, row, endFaults, taken, mixed, usageBlurred>>

Enqueue ==
  /\ intake.on /\ intake.queued < Len(feed)
  /\ intake' = [intake EXCEPT !.queued = @ + 1]
  /\ UNCHANGED <<version, feed, batch, textOut, usage, closer, row, endFaults, taken, mixed, usageBlurred>>

\* A handler failed and the error was transient: the consumer begins again behind the cursor, once
\* the batched text is written.
FlushBeforeRetry ==
  /\ ~intake.on /\ row.status = "running" /\ batch.seqs # {}
  /\ SendText({})
  /\ UNCHANGED <<version, feed, intake, usage, closer, row, endFaults, taken, mixed, usageBlurred>>

ConsumeAgain ==
  /\ ~intake.on /\ row.status = "running" /\ Idle("fail") /\ Idle("ingest")
  /\ intake.pos = intake.queued /\ batch.seqs = {} /\ textOut = <<>>
  /\ intake' = [on |-> TRUE, queued |-> row.cursor, pos |-> row.cursor]
  /\ UNCHANGED <<version, feed, batch, textOut, usage, closer, row, endFaults, taken, mixed, usageBlurred>>

\* It was not transient, or the stream broke: failTurn, beside what the queue still holds.
FailTurnBegins ==
  /\ ~intake.on /\ row.status = "running" /\ Idle("fail")
  /\ To("fail", "usage")
  /\ mixed' = (mixed \/ intake.pos < intake.queued \/ ~Idle("ingest"))
  /\ UNCHANGED <<version, feed, intake, batch, textOut, usage, row, endFaults, taken, usageBlurred>>

StreamBreaks ==
  /\ intake.on /\ row.status = "running" /\ EndFault
  /\ intake' = [intake EXCEPT !.on = FALSE]
  /\ UNCHANGED <<version, feed, batch, textOut, usage, closer, row, taken, mixed, usageBlurred>>

-----------------------------------------------------------------------------
\* ingestRunnerEventNow.

\* Text joins the batch, whose first event sets the timer.
HandleText(seq) ==
  /\ batch' = [seqs |-> batch.seqs \cup {seq}, armed |-> batch.armed \/ batch.seqs = {}]
  /\ intake' = [intake EXCEPT !.pos = seq]
  /\ UNCHANGED <<usage, closer>>

\* queueContextUsageSnapshot: the last report wins.
HandleUsage(seq) ==
  /\ usage' = [usage EXCEPT !.pending = seq]
  /\ intake' = [intake EXCEPT !.pos = seq]
  /\ UNCHANGED <<batch, closer>>

\* A fact is appended behind the text; the end of the turn has more to flush.
HandleFact == To("ingest", "fact") /\ UNCHANGED <<batch, usage, intake>>
HandleEnd == /\ To("ingest", IF version = 2 THEN "text" ELSE "usage")
             /\ UNCHANGED <<batch, usage, intake>>

Handle(seq) ==
  /\ taken' = taken \cup {seq}
  /\ \/ feed[seq] = "text" /\ HandleText(seq)
     \/ feed[seq] = "usage" /\ HandleUsage(seq)
     \/ feed[seq] = "fact" /\ HandleFact
     \/ feed[seq] = "end" /\ HandleEnd

\* The turn is read; what is known, or comes after the end, is dropped.
TakeEvent ==
  LET seq == intake.pos + 1 IN
  /\ Idle("ingest") /\ intake.pos < intake.queued
  /\ IF row.status = "ended" \/ seq <= Highest({row.cursor} \cup batch.seqs)
     THEN intake' = [intake EXCEPT !.pos = seq] /\ UNCHANGED <<batch, usage, closer, taken>>
     ELSE IF feed[seq] \in {"fact", "end"} /\ batch.seqs # {}
     THEN To("ingest", "boundary") /\ UNCHANGED <<intake, batch, usage, taken>>
     ELSE Handle(seq)
  /\ mixed' = (mixed \/ ~Idle("fail"))
  /\ UNCHANGED <<version, feed, textOut, row, endFaults, usageBlurred>>

Waits(c) == \/ \E i \in DOMAIN textOut : c \in textOut[i].waiters
            \/ \E f \in usage.flights : c \in f.waiters

\* flushPendingCoalescedEventsForTurn: write the batch, then join the writes in flight.
TextOnItsWay == \E i \in DOMAIN textOut : textOut[i].kind = "text"
FlushText(c) ==
  /\ closer[c].pc \in {"boundary", "fact", "text"} /\ ~Waits(c)
  /\ \/ batch.seqs # {} /\ SendText({c})
     \/ /\ batch.seqs = {} /\ TextOnItsWay /\ UNCHANGED batch
        /\ textOut' = [i \in DOMAIN textOut |-> IF textOut[i].kind = "text"
                         THEN [textOut[i] EXCEPT !.waiters = @ \cup {c}] ELSE textOut[i]]
  /\ UNCHANGED <<version, feed, intake, usage, closer, row, endFaults, taken, mixed, usageBlurred>>

TextFlushed(c) ==
  /\ closer[c].pc \in {"boundary", "fact", "text"} /\ ~Waits(c) /\ batch.seqs = {} /\ ~TextOnItsWay
  /\ IF closer[c].pc = "boundary" THEN Handle(intake.pos + 1)
     ELSE /\ To(c, IF closer[c].pc = "fact" THEN "append"
                   ELSE IF c = "ingest" /\ version = 2 THEN "usage"
                   ELSE IF version = 2 THEN "append" ELSE "collect")
          /\ UNCHANGED <<intake, batch, usage, taken>>
  /\ UNCHANGED <<version, feed, textOut, row, endFaults, mixed, usageBlurred>>

\* flushPendingContextUsageSnapshot: an update of its own, in no queue. The timer's are tracked.
SendUsage(waiters) ==
  /\ usage' = [usage EXCEPT !.pending = 0,
                 !.flights = @ \cup {[seq |-> usage.pending, waiters |-> waiters, tracked |-> waiters = {}]}]
  /\ usageBlurred' = (usageBlurred \/ usage.flights # {})

\* flushContextUsageSnapshotsForTurn, the same for the usage, of the writes that are tracked.
Tracked == {f \in usage.flights : f.tracked}
FlushUsage(c) ==
  /\ closer[c].pc = "usage" /\ ~Waits(c)
  /\ \/ /\ usage.pending # 0
        /\ SendUsage({c})
     \/ /\ usage.pending = 0 /\ Tracked # {}
        /\ usage' = [usage EXCEPT !.flights = {IF f \in Tracked THEN [f EXCEPT !.waiters = @ \cup {c}] ELSE f :
                                               f \in usage.flights}]
        /\ UNCHANGED usageBlurred
  /\ UNCHANGED <<version, feed, intake, batch, textOut, closer, row, endFaults, taken, mixed>>

UsageFlushed_PendingOnly(c) ==
  /\ closer[c].pc = "usage" /\ ~Waits(c) /\ usage.pending = 0
  /\ To(c, IF version = 1 \/ c = "fail" THEN "text" ELSE "append")
  /\ UNCHANGED <<version, feed, intake, batch, textOut, usage, row, endFaults, taken, mixed, usageBlurred>>

UsageFlushed(c) ==
  /\ closer[c].pc = "usage" /\ ~Waits(c) /\ usage.pending = 0 /\ Tracked = {}
  /\ To(c, IF version = 1 \/ c = "fail" THEN "text" ELSE "append")
  /\ UNCHANGED <<version, feed, intake, batch, textOut, usage, row, endFaults, taken, mixed, usageBlurred>>

\* collectAssistantDeltaContent: the text in the log.
Collect(c) ==
  /\ closer[c].pc = "collect"
  /\ closer' = [closer EXCEPT ![c] = [pc |-> "commit", text |-> row.text, given |-> taken \cap OfKind("text")]]
  /\ UNCHANGED <<version, feed, intake, batch, textOut, usage, row, endFaults, taken, mixed, usageBlurred>>

\* Version 1: the answer, its message for the channels and the status, in one transaction. A turn
\* that was cancelled or failed without text has no answer.
Close(c, answered) ==
  /\ row' = [row EXCEPT !.status = "ended",
                        !.answers = IF answered THEN Append(@, [text |-> closer[c].text, given |-> closer[c].given])
                                    ELSE @]
  /\ To(c, "append")
  /\ UNCHANGED <<version, feed, intake, batch, textOut, usage, endFaults, taken, mixed, usageBlurred>>

CommitCompleted == closer["ingest"].pc = "commit" /\ Close("ingest", TRUE)
CommitCancelled == closer["ingest"].pc = "commit" /\ Close("ingest", closer["ingest"].text # {})
CommitFailed == closer["fail"].pc = "commit" /\ Close("fail", closer["fail"].text # {})

\* appendEvent; failTurn's event has no runnerSeq.
AppendEnd(c) ==
  LET k == IF c = "fail" THEN "end" ELSE feed[intake.pos + 1] IN
  /\ closer[c].pc = "append"
  /\ textOut' = Append(textOut, [kind |-> k, seqs |-> IF c = "fail" THEN {} ELSE {intake.pos + 1}, waiters |-> {c}])
  /\ To(c, "appended")
  /\ UNCHANGED <<version, feed, intake, batch, usage, row, endFaults, taken, mixed, usageBlurred>>

Finished(c) ==
  /\ closer[c].pc = "appended" /\ ~Waits(c)
  /\ closer' = [closer EXCEPT ![c] = AtRest]
  /\ intake' = IF c = "ingest" THEN [intake EXCEPT !.pos = @ + 1] ELSE intake
  /\ UNCHANGED <<version, feed, batch, textOut, usage, row, endFaults, taken, mixed, usageBlurred>>

-----------------------------------------------------------------------------
\* Timers and the database.

TextTimer ==
  /\ batch.armed /\ SendText({})
  /\ UNCHANGED <<version, feed, intake, usage, closer, row, endFaults, taken, mixed, usageBlurred>>

UsageTimer ==
  /\ usage.pending # 0
  /\ SendUsage({})
  /\ UNCHANGED <<version, feed, intake, batch, textOut, closer, row, endFaults, taken, mixed>>

\* appendEventNow: the event, the cursor and, in version 2, the end of the turn.
WriteEvent ==
  LET w == Head(textOut) IN
  /\ textOut # <<>> /\ textOut' = Tail(textOut)
  /\ row' = [row EXCEPT !.cursor = Highest({@} \cup w.seqs),
                        !.text = IF w.kind = "text" THEN @ \cup w.seqs ELSE @,
                        !.ends = IF w.kind = "end" THEN @ + 1 ELSE @,
                        !.status = IF w.kind = "end" THEN "ended" ELSE @]
  /\ UNCHANGED <<version, feed, intake, batch, usage, closer, endFaults, taken, mixed, usageBlurred>>

\* Whoever waits fails: the handler stops the consumer, failTurn leaves the turn to a retry.
GivesUp(waiters) ==
  /\ closer' = [c \in Closers |-> IF c \in waiters THEN AtRest ELSE closer[c]]
  /\ intake' = IF "ingest" \in waiters THEN [intake EXCEPT !.on = FALSE, !.pos = @ + 1] ELSE intake

\* Text goes back into the map, without a timer, unless a new batch has taken its place.
WriteEventFails ==
  LET w == Head(textOut) IN
  /\ textOut # <<>> /\ EndFault
  /\ textOut' = [i \in DOMAIN Tail(textOut) |-> [Tail(textOut)[i] EXCEPT !.waiters = @ \ w.waiters]]
  /\ batch' = IF w.kind = "text" /\ batch.seqs = {} THEN [seqs |-> w.seqs, armed |-> FALSE] ELSE batch
  /\ taken' = IF w.kind = "text" /\ batch.seqs # {} THEN taken \ w.seqs ELSE taken
  /\ GivesUp(w.waiters)
  /\ UNCHANGED <<version, feed, usage, row, mixed, usageBlurred>>

WriteUsage ==
  \E f \in usage.flights :
    /\ usage' = [usage EXCEPT !.flights = @ \ {f}, !.stored = f.seq]
    /\ UNCHANGED <<version, feed, intake, batch, textOut, closer, row, endFaults, taken, mixed, usageBlurred>>

WriteUsageFails ==
  \E f \in usage.flights :
    /\ EndFault /\ usageBlurred' = TRUE
    /\ usage' = [usage EXCEPT !.flights = {[g EXCEPT !.waiters = @ \ f.waiters] : g \in usage.flights \ {f}}]
    /\ GivesUp(f.waiters)
    /\ UNCHANGED <<version, feed, batch, textOut, row, taken, mixed>>

EndingNext ==
  \/ \E k \in {"text", "usage", "fact", "end"} : EmitEvent(k)
  \/ Enqueue \/ FlushBeforeRetry \/ ConsumeAgain \/ FailTurnBegins \/ StreamBreaks \/ TakeEvent
  \/ \E c \in Closers : \/ FlushText(c) \/ TextFlushed(c) \/ FlushUsage(c) \/ UsageFlushed(c)
                        \/ Collect(c) \/ AppendEnd(c) \/ Finished(c)
  \/ CommitCompleted \/ CommitCancelled \/ CommitFailed
  \/ TextTimer \/ UsageTimer \/ WriteEvent \/ WriteEventFails \/ WriteUsage \/ WriteUsageFails

EndingSpec == EndingInit /\ [][EndingNext]_endingVars

-----------------------------------------------------------------------------
\* A turn has one answer, and it has all the text that was handled before, unless failTurn ran
\* beside the queue (the flush before collectAssistantDeltaContent).
AnswerComplete ==
  ~mixed => /\ Len(row.answers) <= 1
            /\ \A i \in DOMAIN row.answers : row.answers[i].text = row.answers[i].given

\* Once a turn has ended no usage of it is still to be written, so that nothing overwrites what a
\* compaction or the next reader finds; what is stored is no older than any report up to where the
\* consumer stands, unless a write failed or overtook another. (A stream that breaks again while
\* it is replayed leaves an older report than one handled before.)
UsageSettled ==
  row.status = "ended" /\ ~mixed =>
    /\ usage.pending = 0 /\ usage.flights = {}
    /\ usageBlurred \/ \A u \in taken \cap OfKind("usage") : u <= intake.pos => u <= usage.stored

\* A turn of version 2 never ends without its terminal event; one of version 1 has it when nothing
\* failed (appendEventNow, and the transactions before appendEvent).
EndIsLogged ==
  row.status = "ended" /\ (version = 2 \/ (endFaults = 0 /\ \A c \in Closers : Idle(c))) => row.ends >= 1

EndingSafe == AnswerComplete /\ UsageSettled /\ EndIsLogged
=============================================================================

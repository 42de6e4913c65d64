---------------------------- MODULE ClientStream ----------------------------
(***************************************************************************)
(* One turn as a browser sees it: the durable events, the SSE response     *)
(* that polls them, and the page that folds them into the chat and into    *)
(* the timeline panel while histories and snapshots are being fetched.     *)
(* (web-app.controller.ts streamTurn; page.tsx)                            *)
(***************************************************************************)
EXTENDS Naturals, Sequences, SequencesExt, FiniteSets, FiniteSetsExt

CONSTANTS
  MaxEvents,      \* events of the turn, the terminal one included
  Completes,      \* the events that are assistant.message.completed
  PageSize,       \* events per page of a snapshot (250) and of a poll (100)
  Requests,       \* history and timeline loads in flight at once
  NoRequest,
  MaxDisturbances \* bound on what the user does, broken connections and failed requests

ASSUME ClientAssumption ==
  /\ MaxEvents \in Nat \ {0} /\ Completes \subseteq 1..MaxEvents /\ PageSize \in Nat \ {0}
  /\ NoRequest \notin Requests /\ MaxDisturbances \in Nat

VARIABLES
  log,       \* [count, terminal, status, version]: the turn in the database
  conn,      \* the open SSE response, or Closed
  wire,      \* frames written and not received: event numbers, 0 for stream.end
  source,    \* the page's EventSource: [on, since, applied]
  cursorRef, \* turnStreamCursorRef of the turn
  selected,  \* the session shown: "chat" (the turn's) or "other"
  active,    \* activeTurnId is the turn
  sending,   \* the request that creates the turn is awaited
  posted,    \* it was sent
  loads,     \* the loads in flight
  current,   \* the newest history load: sessionHistoryRequestRef
  owner,     \* the newest timeline load: timelineRequestIdRef
  buffer,    \* timelineLoadBufferRef: [on, events], the events kept aside
  chat,      \* events folded into the chat
  panel,     \* the timeline: [events, last, needsReset, follow], the events merged into it
  disturbances,
  seams,     \* history: cursors at which a reload resumed the stream
  left,      \* history: the page stopped watching by a failure or by choice
  rival      \* history: handleSendTurn opened its stream while a newer load was in flight

server == <<log, conn, wire>>
page == <<source, cursorRef, selected, active, sending, posted>>
loading == <<loads, current, owner, buffer>>
shown == <<chat, panel>>
bounds == <<disturbances, seams, left, rival>>
clientVars == <<log, conn, wire, source, cursorRef, selected, active, sending, posted,
                loads, current, owner, buffer, chat, panel, disturbances, seams, left, rival>>

Prefix(n) == [i \in 1..n |-> i]
Span(a, b) == [i \in 1..(IF b > a THEN b - a ELSE 0) |-> a + i]
Closed == [on |-> FALSE, cursor |-> 0, read |-> 0, reading |-> FALSE, idle |-> 0]
NoSource == [on |-> FALSE, since |-> 0, applied |-> 0]
NoBuffer == [on |-> FALSE, events |-> {}]
Free == [pc |-> "free", kind |-> "history", of |-> "chat", resume |-> FALSE, reset |-> FALSE, thenOpen |-> FALSE,
         cursor |-> 0, live |-> FALSE, base |-> 0, got |-> 0]
Done == log.status = "ended"

ClientTypeOK ==
  /\ log \in [count : 0..MaxEvents, terminal : 0..MaxEvents,
              status : {"none", "running", "ended"}, version : {1, 2}]
  /\ conn \in [on : BOOLEAN, cursor : 0..MaxEvents, read : 0..MaxEvents, reading : BOOLEAN, idle : 0..2]
  /\ wire \in Seq(0..MaxEvents)
  /\ source \in [on : BOOLEAN, since : 0..MaxEvents, applied : 0..MaxEvents]
  /\ cursorRef \in 0..MaxEvents /\ selected \in {"chat", "other"}
  /\ active \in BOOLEAN /\ sending \in BOOLEAN /\ posted \in BOOLEAN
  /\ loads \in [Requests ->
       [pc : {"free", "history", "answered", "pages", "paged", "state", "cancel"},
        kind : {"history", "follow", "inspect"}, of : {"chat", "other"}, resume : BOOLEAN, reset : BOOLEAN, thenOpen : BOOLEAN,
        cursor : 0..MaxEvents, live : BOOLEAN, base : 0..MaxEvents, got : 0..MaxEvents]]
  /\ current \in Requests \cup {NoRequest} /\ owner \in Requests \cup {NoRequest}
  /\ buffer \in [on : BOOLEAN, events : SUBSET (1..MaxEvents)]
  /\ chat \in Seq(1..MaxEvents)
  /\ panel \in [events : SUBSET (1..MaxEvents), last : 0..MaxEvents, needsReset : BOOLEAN, follow : BOOLEAN]
  /\ disturbances \in 0..MaxDisturbances
  /\ seams \subseteq 0..MaxEvents /\ left \in BOOLEAN /\ rival \in BOOLEAN

ClientInit ==
  /\ log = [count |-> 0, terminal |-> 0, status |-> "none", version |-> 2]
  /\ conn = Closed /\ wire = <<>> /\ source = NoSource /\ cursorRef = 0
  /\ selected = "chat" /\ active = FALSE /\ sending = FALSE /\ posted = FALSE
  /\ loads = [r \in Requests |-> Free]
  /\ current = NoRequest /\ owner = NoRequest /\ buffer = NoBuffer
  /\ chat = <<>> /\ panel = [events |-> {}, last |-> 0, needsReset |-> FALSE, follow |-> FALSE]
  /\ disturbances = 0 /\ seams = {} /\ left = FALSE /\ rival = FALSE

Disturb == disturbances < MaxDisturbances /\ disturbances' = disturbances + 1

-----------------------------------------------------------------------------
\* The turn in the database.

AppendEvent ==
  /\ log.status = "running" /\ log.count < MaxEvents - 1
  /\ log' = [log EXCEPT !.count = @ + 1]
  /\ UNCHANGED <<conn, wire, page, loading, shown, bounds>>

\* A turn of history version 2 ends with its terminal event; one of version 1 takes the
\* status first.
Settle ==
  /\ log.status = "running"
  /\ log' = IF log.version = 2
            THEN [log EXCEPT !.status = "ended", !.count = @ + 1, !.terminal = log.count + 1]
            ELSE [log EXCEPT !.status = "ended"]
  /\ UNCHANGED <<conn, wire, page, loading, shown, bounds>>

AppendTerminal ==
  /\ log.status = "ended" /\ log.terminal = 0
  /\ log' = [log EXCEPT !.count = @ + 1, !.terminal = log.count + 1]
  /\ UNCHANGED <<conn, wire, page, loading, shown, bounds>>

\* The request that creates the turn reaches the server, whoever still waits for it.
CreateTurn ==
  /\ posted /\ log.status = "none"
  /\ \E v \in {1, 2} : log' = [log EXCEPT !.status = "running", !.version = v]
  /\ UNCHANGED <<conn, wire, page, loading, shown, bounds>>

-----------------------------------------------------------------------------
\* streamTurn.

\* The first of the two reads of a poll: a page of events after the cursor.
PollEvents ==
  /\ conn.on /\ ~conn.reading
  /\ conn' = [conn EXCEPT !.reading = TRUE, !.read = Min({log.count, conn.cursor + PageSize})]
  /\ UNCHANGED <<log, wire, page, loading, shown, bounds>>

PollStatus_NoEnd ==
  /\ conn.on /\ conn.reading
  /\ wire' = wire \o Span(conn.cursor, conn.read)
  /\ conn' = [conn EXCEPT !.reading = FALSE, !.cursor = Max({conn.cursor, conn.read}), !.read = 0]
  /\ UNCHANGED <<log, page, loading, shown, bounds>>

\* The second: the status; then the events are written, and the second poll in a row that
\* finds nothing more of an ended turn ends the stream.
PollStatus ==
  /\ conn.on /\ conn.reading
  /\ LET empty == conn.read <= conn.cursor
         idle == IF empty /\ Done THEN conn.idle + 1 ELSE 0
     IN /\ wire' = wire \o Span(conn.cursor, conn.read) \o (IF idle = 2 THEN <<0>> ELSE <<>>)
        /\ conn' = IF idle = 2 THEN Closed
                   ELSE [conn EXCEPT !.reading = FALSE, !.cursor = Max({conn.cursor, conn.read}),
                                     !.read = 0, !.idle = idle]
  /\ UNCHANGED <<log, page, loading, shown, bounds>>

\* A read fails: stream.error is written and the response ends; what was written arrives.
PollFails ==
  /\ conn.on /\ conn.reading /\ Disturb
  /\ conn' = Closed
  /\ UNCHANGED <<log, wire, page, loading, shown, seams, left, rival>>

\* The connection breaks, by the network or by a restart of the API.
ConnectionLost ==
  /\ conn.on /\ Disturb
  /\ conn' = Closed /\ wire' = <<>>
  /\ UNCHANGED <<log, page, loading, shown, seams, left, rival>>

\* The browser connects again: the larger of since and Last-Event-ID.
Reconnect ==
  /\ source.on /\ ~conn.on /\ wire = <<>>
  /\ conn' = [Closed EXCEPT !.on = TRUE, !.cursor = Max({source.since, source.applied})]
  /\ UNCHANGED <<log, wire, page, loading, shown, bounds>>

-----------------------------------------------------------------------------
\* The page: what an event does to the chat and to the timeline.

LastOf(s) == IF s = <<>> THEN 0 ELSE Last(s)
Latest(events) == Max({0} \cup events)
LastCompleted(n) == Latest({e \in Completes : e <= n})
Terminal(e) == e = log.terminal

\* The events that carry whole messages: the first of the turn, completions, the terminal one.
Snapshots == {1, log.terminal} \cup Completes

\* mergeHistoryMessages and applyHistoryEvent: a message knows the last event it holds, and a
\* delta needs its message; the text of a turn without message history is only appended to.
ChatWith_NoLastEvent(e) == IF e \in Snapshots THEN Prefix(e) ELSE Append(chat, e)
ChatWith(e) ==
  IF log.version = 1 THEN Append(chat, e)
  ELSE IF e < LastOf(chat) THEN chat
  ELSE IF e \in Snapshots THEN Prefix(e)
  ELSE IF chat = <<>> \/ e = LastOf(chat) THEN chat ELSE Append(chat, e)

\* The live view starts again after a completed assistant message.
PanelBefore(e) ==
  IF ~(panel.follow /\ log.version = 2) THEN panel
  ELSE LET p == IF panel.needsReset /\ ~Terminal(e)
                THEN [panel EXCEPT !.events = {}, !.last = 0, !.needsReset = FALSE] ELSE panel
       IN IF e \in Completes THEN [p EXCEPT !.needsReset = TRUE] ELSE p

\* queueTimelineEvent: kept aside while a snapshot is being fetched.
Show(e) ==
  LET p == PanelBefore(e) IN
  IF buffer.on THEN buffer' = [buffer EXCEPT !.events = @ \cup {e}] /\ panel' = p
  ELSE /\ panel' = IF e <= p.last THEN p ELSE [p EXCEPT !.events = @ \cup {e}, !.last = e]
       /\ UNCHANGED buffer

EmptyPanel(p) == [p EXCEPT !.events = {}, !.last = 0]

\* openStream: the old source is closed, the new one asks for events after since.
OpenStream(since) ==
  /\ source' = [on |-> TRUE, since |-> since, applied |-> since]
  /\ conn' = [Closed EXCEPT !.on = TRUE, !.cursor = since]
  /\ wire' = <<>>

CloseStream == source' = NoSource /\ conn' = Closed /\ wire' = <<>>

NextFree(r) == loads[r] = Free /\ r = CHOOSE q \in Requests : loads[q] = Free

\* The synchronous part of loadSessionHistory.
StartLoad(r, of, resume, reset, thenOpen) ==
  /\ loads' = [loads EXCEPT ![r] = [Free EXCEPT !.pc = "history", !.of = of, !.resume = resume,
                                               !.reset = reset, !.thenOpen = thenOpen]]
  /\ current' = r /\ owner' = NoRequest /\ buffer' = NoBuffer
  /\ CloseStream

\* What follows loadSessionHistory in its caller: handleSendTurn opens the stream itself.
EndLoad(r) ==
  /\ loads' = [loads EXCEPT ![r] = Free]
  /\ IF loads[r].thenOpen /\ selected = "chat" THEN OpenStream(cursorRef)
     ELSE UNCHANGED <<source, conn, wire>>

-----------------------------------------------------------------------------
\* The listeners of the EventSource.

ReceiveEvent ==
  /\ source.on /\ wire # <<>> /\ Head(wire) # 0
  /\ LET e == Head(wire) IN
     /\ ~Terminal(e) \/ e <= source.applied
     /\ wire' = Tail(wire)
     /\ IF e <= source.applied THEN UNCHANGED <<source, cursorRef, chat, panel, buffer>>
        ELSE /\ source' = [source EXCEPT !.applied = e]
             /\ cursorRef' = Max({cursorRef, e})
             /\ chat' = ChatWith(e) /\ Show(e)
  /\ UNCHANGED <<log, conn, selected, active, sending, posted, loads, current, owner, bounds>>

\* finishStream, by the terminal event or by stream.end.
ReceiveLast(r) ==
  /\ source.on /\ wire # <<>> /\ NextFree(r)
  /\ LET e == Head(wire) IN
     /\ e = 0 \/ (Terminal(e) /\ e > source.applied)
     /\ chat' = IF e = 0 THEN chat ELSE ChatWith(e)
     /\ cursorRef' = Max({cursorRef, e})
     /\ panel' = IF e = 0 \/ buffer.on \/ e <= panel.last THEN panel
                 ELSE [panel EXCEPT !.events = @ \cup {e}, !.last = e]
  /\ active' = FALSE
  /\ StartLoad(r, "chat", TRUE, FALSE, FALSE)
  /\ UNCHANGED <<log, selected, sending, posted, disturbances, seams, left, rival>>

-----------------------------------------------------------------------------
\* handleSendTurn.

SendTurn ==
  /\ selected = "chat" /\ ~active /\ ~sending /\ ~posted
  /\ sending' = TRUE /\ posted' = TRUE
  /\ current' = NoRequest
  /\ chat' = <<>>
  /\ panel' = [events |-> {}, last |-> 0, needsReset |-> FALSE, follow |-> TRUE]
  /\ UNCHANGED <<server, source, cursorRef, selected, active, loads, owner, buffer, bounds>>

\* The turn exists: its history is loaded, then the stream is opened. Nothing is done for a
\* session that is no longer shown.
SendReturns(r) ==
  /\ sending /\ log.status # "none"
  /\ sending' = FALSE
  /\ IF selected = "chat"
     THEN active' = TRUE /\ NextFree(r) /\ StartLoad(r, "chat", FALSE, FALSE, TRUE)
     ELSE UNCHANGED <<active, loads, current, owner, buffer, source, conn, wire>>
  /\ UNCHANGED <<log, cursorRef, selected, posted, shown, disturbances, seams, left, rival>>

\* The user aborts the request, or it fails; the server may have taken it all the same.
SendAborted ==
  /\ sending /\ Disturb
  /\ sending' = FALSE /\ left' = TRUE
  /\ UNCHANGED <<server, source, cursorRef, selected, active, posted, loading, shown,
                 seams, rival>>

-----------------------------------------------------------------------------
\* What else the user does.

\* A session is selected: everything of the old one is dropped and its own is loaded.
Select(r, s) ==
  /\ Disturb /\ NextFree(r)
  /\ selected' = s /\ active' = FALSE /\ chat' = <<>>
  /\ loads' = [loads EXCEPT ![r] = [Free EXCEPT !.pc = "history", !.of = s, !.resume = TRUE, !.reset = TRUE]]
  /\ current' = r /\ owner' = NoRequest /\ buffer' = NoBuffer
  /\ CloseStream
  /\ left' = (s = "other")
  /\ UNCHANGED <<log, cursorRef, sending, posted, panel, seams, rival>>

\* handleCancelTurn: the request, and the reload when it returns, whatever is shown by then.
Cancel(r) ==
  /\ Disturb /\ active /\ NextFree(r)
  /\ loads' = [loads EXCEPT ![r].pc = "cancel"]
  /\ UNCHANGED <<server, page, current, owner, buffer, shown, seams, left, rival>>

CancelReturns(r) ==
  /\ loads[r].pc = "cancel"
  /\ StartLoad(r, "chat", TRUE, FALSE, FALSE)
  /\ UNCHANGED <<log, cursorRef, selected, active, sending, posted, shown, disturbances, seams, left, rival>>

\* inspectTurnEvents (the whole turn) and reconnectStreamingTimeline (the live view).
LoadTimeline(r, kind) ==
  /\ Disturb /\ active /\ NextFree(r)
  /\ panel' = [EmptyPanel(panel) EXCEPT !.follow = (kind = "follow")]
  /\ loads' = [loads EXCEPT ![r] = LET b == IF kind = "follow" THEN LastCompleted(LastOf(chat)) ELSE 0
                                  IN [Free EXCEPT !.pc = "pages", !.kind = kind, !.base = b, !.got = b]]
  /\ owner' = r /\ buffer' = [on |-> TRUE, events |-> {}]
  /\ UNCHANGED <<server, page, current, chat, seams, left, rival>>

-----------------------------------------------------------------------------
\* loadSessionHistory and loadTimelineSnapshot as their requests return.

\* The server reads the history: the messages and the cursor of the active turn.
ReadHistory(r) ==
  /\ loads[r].pc = "history"
  /\ loads' = [loads EXCEPT ![r].pc = "answered", ![r].cursor = log.count,
                            ![r].live = (loads[r].of = "chat" /\ log.status = "running")]
  /\ UNCHANGED <<server, page, current, owner, buffer, shown, bounds>>

\* A newer load has been started.
DropHistory(r) ==
  /\ loads[r].kind = "history" /\ loads[r].pc \in {"answered", "state"} /\ current # r
  /\ EndLoad(r)
  /\ rival' = (rival \/ loads[r].thenOpen)
  /\ UNCHANGED <<log, cursorRef, selected, active, sending, posted, current, owner, buffer, shown,
                 disturbances, seams, left>>

ApplyHistory(r) ==
  LET l == loads[r]
      v2 == log.version = 2
      known == IF l.of = "other" THEN <<>>
               ELSE IF v2 /\ (l.reset \/ l.cursor >= LastOf(chat)) THEN Prefix(l.cursor)
               ELSE IF l.reset THEN <<>> ELSE chat
      follow == IF l.reset THEN l.live ELSE panel.follow
      base == IF v2 /\ follow THEN LastCompleted(l.cursor) ELSE 0
  IN
  /\ l.pc = "answered" /\ current = r
  /\ active' = l.live /\ chat' = known
  /\ cursorRef' = IF v2 /\ l.live THEN l.cursor ELSE cursorRef
  /\ panel' = IF l.reset THEN [EmptyPanel(panel) EXCEPT !.follow = follow] ELSE panel
  /\ seams' = IF v2 /\ l.live /\ ~l.reset THEN seams \cup {l.cursor} ELSE seams
  /\ IF l.live /\ l.reset
     THEN /\ loads' = [loads EXCEPT ![r].pc = "pages", ![r].base = base, ![r].got = base]
          /\ owner' = r /\ buffer' = [on |-> TRUE, events |-> {}]
          /\ UNCHANGED <<source, conn, wire>>
     ELSE /\ UNCHANGED <<owner, buffer>>
          /\ IF l.live THEN loads' = [loads EXCEPT ![r].pc = "state"] /\ UNCHANGED <<source, conn, wire>>
             ELSE EndLoad(r)
  /\ UNCHANGED <<log, selected, sending, posted, current, disturbances, left, rival>>

\* One request of fetchTurnEventSnapshot; a short page is the last.
ReadPage(r) ==
  /\ loads[r].pc = "pages"
  /\ LET got == Min({log.count, loads[r].got + PageSize})
     IN loads' = [loads EXCEPT ![r].got = Max({got, @}),
                               ![r].pc = IF got < loads[r].got + PageSize THEN "paged" ELSE "pages"]
  /\ UNCHANGED <<server, page, current, owner, buffer, shown, bounds>>

\* A snapshot and the events kept aside after it.
Snapshot(l) == ((l.base + 1)..l.got) \cup {e \in buffer.events : e > (IF l.got > l.base THEN l.got ELSE 0)}

ApplySnapshot(r) ==
  LET l == loads[r]
      evs == Snapshot(l)
      replaced == [panel EXCEPT !.events = evs, !.last = Latest(evs)]
  IN
  /\ l.pc = "paged" /\ owner = r
  /\ buffer' = NoBuffer
  /\ CASE l.kind = "follow" ->
            /\ panel' = IF panel.follow
                        THEN [replaced EXCEPT !.needsReset = Latest(evs) \in Completes] ELSE panel
            /\ loads' = [loads EXCEPT ![r] = Free]
            /\ UNCHANGED <<chat, source, conn, wire>>
       [] l.kind = "inspect" ->
            /\ panel' = IF panel.follow THEN panel ELSE replaced
            /\ loads' = [loads EXCEPT ![r] = Free]
            /\ UNCHANGED <<chat, source, conn, wire>>
       [] l.kind = "history" /\ current = r ->
            /\ panel' = replaced
            /\ chat' = IF log.version = 2 THEN chat ELSE Prefix(l.got)
            /\ loads' = [loads EXCEPT ![r].pc = "state",
                                      ![r].cursor = IF log.version = 2 THEN @ ELSE Max({cursorRef, Latest(evs)})]
            /\ UNCHANGED <<source, conn, wire>>
       [] OTHER ->
            /\ EndLoad(r)
            /\ UNCHANGED <<panel, chat>>
  /\ UNCHANGED <<log, cursorRef, selected, active, sending, posted, current, owner, bounds>>

\* Another load has taken the timeline: the snapshot is dropped, and with it the rest of a
\* history load, which then opens no stream.
DropSnapshot(r) ==
  /\ loads[r].pc = "paged" /\ owner # r
  /\ EndLoad(r)
  /\ left' = (left \/ (loads[r].kind = "history" /\ current = r))
  /\ UNCHANGED <<log, cursorRef, selected, active, sending, posted, current, owner, buffer, shown,
                 disturbances, seams, rival>>

\* The turn state has been fetched: the stream resumes after what was loaded.
Resume(r) ==
  /\ loads[r].pc = "state" /\ current = r
  /\ IF loads[r].resume
     THEN /\ OpenStream(IF log.version = 2 \/ loads[r].reset THEN loads[r].cursor ELSE cursorRef)
          /\ loads' = [loads EXCEPT ![r] = Free]
     ELSE EndLoad(r)
  /\ UNCHANGED <<log, cursorRef, selected, active, sending, posted, current, owner, buffer, shown, bounds>>

\* A request of a load fails.
LoadFails(r) ==
  /\ loads[r].pc \in {"history", "pages", "state"} /\ Disturb
  /\ EndLoad(r)
  /\ buffer' = IF owner = r THEN NoBuffer ELSE buffer
  /\ panel' = IF loads[r].kind = "inspect" /\ ~panel.follow THEN EmptyPanel(panel) ELSE panel
  /\ left' = (left \/ (loads[r].kind = "history" /\ current = r))
  /\ rival' = (rival \/ (loads[r].thenOpen /\ current # r))
  /\ UNCHANGED <<log, cursorRef, selected, active, sending, posted, current, owner, chat,
                 seams>>

-----------------------------------------------------------------------------
\* The awaited requests of a load or of a cancellation return.
LoadMoves(r) ==
  \/ ReadHistory(r) \/ DropHistory(r) \/ ApplyHistory(r) \/ ReadPage(r)
  \/ ApplySnapshot(r) \/ DropSnapshot(r) \/ Resume(r) \/ CancelReturns(r)

ClientNext ==
  \/ AppendEvent \/ Settle \/ AppendTerminal \/ CreateTurn
  \/ PollEvents \/ PollStatus \/ PollFails \/ ConnectionLost \/ Reconnect
  \/ ReceiveEvent \/ SendTurn \/ SendAborted
  \/ \E r \in Requests :
       \/ ReceiveLast(r) \/ SendReturns(r) \/ Cancel(r) \/ LoadMoves(r) \/ LoadFails(r)
       \/ \E s \in {"chat", "other"} : Select(r, s)
       \/ \E k \in {"follow", "inspect"} : LoadTimeline(r, k)

ClientSpec == ClientInit /\ [][ClientNext]_clientVars

-----------------------------------------------------------------------------

\* The chat of a turn with message history holds an unbroken prefix of its events, whatever
\* polls, pages, reloads and broken connections came between, unless handleSendTurn opened a
\* stream under a newer load (streamTurn, openStream, mergeHistoryMessages).
ChatIsPrefix == log.version = 2 /\ ~rival => chat = Prefix(Len(chat))

\* Between two events the timeline shows it leaves none out, except those before a cursor at
\* which a reload that keeps the panel resumed the stream, and unless handleSendTurn opened a
\* stream under a newer load (queueTimelineEvent, loadTimelineSnapshot).
TimelineUnbroken ==
  ~rival => \A e \in 1..MaxEvents :
    (\E a, b \in panel.events : a < e /\ e < b) => e \in panel.events \/ \E c \in seams : e <= c

ClientSafe == ChatIsPrefix /\ TimelineUnbroken

\* A page that watches an ended turn notices, with the whole chat, unless a failed request,
\* the user or a lost reload took it away from the stream (streamTurn, finishStream).
EndIsSeen ==
  <>[](Done => left \/ (~active /\ (log.version = 2 => Len(chat) = log.count)))
=============================================================================

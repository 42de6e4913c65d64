---------------------------- MODULE TerminalViews ----------------------------
(***************************************************************************)
(* The browsers that show one terminal, and the sockets between them and   *)
(* its service. A view asks for a ticket and attaches with it on a new     *)
(* socket; it is sent a snapshot and all that follows it, may type while   *)
(* it has control, and comes back when its socket closes (TerminalView.tsx,*)
(* TerminalPanel.tsx, terminals.gateway.ts, terminals.service.ts). Of the  *)
(* terminal it keeps what the sockets see; Terminals has the rest of it.   *)
(***************************************************************************)
EXTENDS Naturals, Sequences, SequencesExt

CONSTANTS
  Browsers,
  Sockets, NoSocket,
  MaxSeq,         \* bound on pieces of output and resizes together
  MaxKeys,        \* bound on what is typed
  MaxUpsets       \* bound on what users do and on what fails: taking control, closing,
                  \* broken sockets, late tickets, timeouts and restarts

ASSUME ViewAssumption ==
  NoSocket \notin Sockets /\ {MaxSeq, MaxKeys, MaxUpsets} \subseteq Nat

VARIABLES
  host,    \* the terminal: [state, seq, writer, tail], tail its outputTail
  socket,  \* each socket: [ws, peer, down, up]
  view,    \* each browser: [stage, on, ready, writer, readOnly, ended, sequence, drawing]
  keys,
  upsets

viewVars == <<host, socket, view, keys, upsets>>

OutputTask == [op |-> "output", of |-> NoSocket]
TaskOf(op, s) == [op |-> op, of |-> s]

\* ws is "open", "closing" from the server's close to the answer, or "left" by its browser. peer is its entry in the
\* terminal's peers, "queued" until its snapshot is sent; down and up is what is on its way.
FreeSocket == [ws |-> "free", peer |-> "none", down |-> <<>>, up |-> <<>>]

\* A view is "asking" for a ticket, "on" a socket, "off" when it has
\* ended and lost its socket, "gone" when it is not mounted; drawing while xterm writes a snapshot.
NewView(ended) ==
  [stage |-> "asking", on |-> NoSocket, ready |-> FALSE, writer |-> FALSE, readOnly |-> TRUE,
   ended |-> ended, sequence |-> 0, drawing |-> FALSE]

ViewTypeOK ==
  /\ host.state \in {"running", "closing", "exited", "gone"} /\ host.seq \in 0..MaxSeq
  /\ host.writer \in Sockets \cup {NoSocket}
  /\ host.tail \in Seq({OutputTask} \cup {TaskOf(op, s) : op \in {"snapshot", "resize"}, s \in Sockets})
  /\ \A s \in Sockets :
       /\ socket[s].ws \in {"free", "open", "closing", "left"} /\ socket[s].peer \in {"none", "queued", "live"}
  /\ \A b \in Browsers :
       /\ view[b].stage \in {"asking", "on", "off", "gone"}
       /\ view[b].on \in Sockets \cup {NoSocket}
       /\ {view[b].ready, view[b].writer, view[b].readOnly, view[b].ended, view[b].drawing} \subseteq BOOLEAN
       /\ view[b].sequence \in 0..MaxSeq
  /\ keys \in 0..MaxKeys /\ upsets \in 0..MaxUpsets

ViewInit ==
  /\ host = [state |-> "running", seq |-> 0, writer |-> NoSocket, tail |-> <<>>]
  /\ socket = [s \in Sockets |-> FreeSocket] /\ view = [b \in Browsers |-> NewView(FALSE)]
  /\ keys = 0 /\ upsets = 0

Upset == upsets < MaxUpsets /\ upsets' = upsets + 1 /\ UNCHANGED keys
NoUpset == UNCHANGED <<keys, upsets>>

-----------------------------------------------------------------------------
(* The service and the gateway *)

NumberedMessage(type, n) == [type |-> type, seq |-> n]
ControlOf(w) == [type |-> "controlChanged", writer |-> w]

CloseSocket(k) ==
  IF k.ws = "open" THEN [k EXCEPT !.ws = "closing", !.down = Append(@, [type |-> "close"])] ELSE k

SendTo(k, message) == IF k.ws = "open" THEN [k EXCEPT !.down = Append(@, message)] ELSE k

\* A peer whose snapshot is still to come is sent nothing.
BroadcastTo(sockets, message) ==
  [s \in Sockets |-> IF sockets[s].peer = "live" THEN SendTo(sockets[s], message) ELSE sockets[s]]

\* detach, of the peer on a socket that is then as left says.
DetachPeer(s, left, tail) ==
  LET rest == [socket EXCEPT ![s] = left]
      controlled == socket[s].peer # "none" /\ host.writer = s
  IN  /\ host' = [host EXCEPT !.tail = tail, !.writer = IF controlled THEN NoSocket ELSE @]
      /\ socket' = IF controlled THEN BroadcastTo(rest, ControlOf(NoSocket)) ELSE rest

HostPrints ==
  /\ host.state = "running" /\ host.seq + Len(host.tail) < MaxSeq
  /\ host' = [host EXCEPT !.tail = Append(@, OutputTask)]
  /\ UNCHANGED <<socket, view>> /\ NoUpset

Advance(type) ==
  /\ host' = [host EXCEPT !.seq = @ + 1, !.tail = Tail(@)]
  /\ socket' = BroadcastTo(socket, NumberedMessage(type, host.seq + 1))

DropTask == host' = [host EXCEPT !.tail = Tail(@)] /\ UNCHANGED socket

\* The snapshot makes a peer live; one whose socket has closed meanwhile is detached.
SnapshotFor(s) ==
  LET told == SendTo(socket[s], [type |-> "ready", state |-> host.state, writer |-> host.writer])
      drawn == SendTo(told, NumberedMessage("snapshot", host.seq))
      ended == IF host.state = "exited" THEN SendTo(drawn, [type |-> "exit"]) ELSE drawn
  IN  IF socket[s].peer # "queued" THEN DropTask
      ELSE IF socket[s].ws = "closing" THEN DetachPeer(s, [socket[s] EXCEPT !.peer = "none"], Tail(host.tail))
      ELSE /\ host' = [host EXCEPT !.tail = Tail(@)]
           /\ socket' = [socket EXCEPT ![s] = [ended EXCEPT !.peer = "live"]]

RunHostTask ==
  /\ host.tail # <<>>
  /\ LET task == Head(host.tail)
     IN  CASE task.op = "output" -> Advance("output")
           [] task.op = "snapshot" -> SnapshotFor(task.of)
           [] task.op = "resize" ->
                IF host.state = "running" /\ host.writer = task.of THEN Advance("resized") ELSE DropTask
  /\ UNCHANGED view /\ NoUpset

\* What the terminal does not allow is answered with an error and a close.
RefuseMessage(s, got) ==
  socket' = [got EXCEPT ![s] = CloseSocket(@)] /\ UNCHANGED host

\* attach: a ticket lapses after 30 seconds.
HandleAttach(s, got, lapsed) ==
  IF host.state \in {"running", "exited"} /\ ~lapsed
  THEN /\ host' = [host EXCEPT !.tail = Append(@, TaskOf("snapshot", s)),
                               !.writer = IF host.state = "running" /\ @ = NoSocket THEN s ELSE @]
       /\ socket' = [got EXCEPT ![s].peer = "queued"]
  ELSE RefuseMessage(s, got)

HasControl(s) == host.state = "running" /\ host.writer = s /\ socket[s].peer # "none"

HandleTakeControl_Untold(s, got) ==
  /\ host' = [host EXCEPT !.writer = IF host.state = "running" /\ socket[s].peer # "none" THEN s ELSE @]
  /\ socket' = got

HandleTakeControl(s, got) ==
  IF host.state = "running" /\ socket[s].peer # "none"
  THEN host' = [host EXCEPT !.writer = s] /\ socket' = BroadcastTo(got, ControlOf(s))
  ELSE socket' = got /\ UNCHANGED host

\* The socket's message handler.
HandleUp(s) ==
  /\ socket[s].up # <<>>
  /\ LET message == Head(socket[s].up)
         got == [socket EXCEPT ![s].up = Tail(@)]
     IN  CASE message.type = "attach" ->
                 \/ HandleAttach(s, got, FALSE) /\ NoUpset
                 \/ Upset /\ HandleAttach(s, got, TRUE)
           [] message.type = "input" ->
                 /\ IF HasControl(s) THEN socket' = got /\ UNCHANGED host ELSE RefuseMessage(s, got)
                 /\ NoUpset
           [] message.type = "resize" ->
                 /\ host' = IF HasControl(s) /\ host.seq + Len(host.tail) < MaxSeq
                            THEN [host EXCEPT !.tail = Append(@, TaskOf("resize", s))] ELSE host
                 /\ socket' = got /\ NoUpset
           [] message.type = "takeControl" -> HandleTakeControl(s, got) /\ NoUpset
           [] message.type = "close" -> DetachPeer(s, FreeSocket, host.tail) /\ NoUpset
  /\ UNCHANGED view

\* A socket on which nobody answers is noticed by the heartbeat.
SocketHeartbeat(s) ==
  /\ socket[s].ws = "left" /\ socket[s].up = <<>>
  /\ DetachPeer(s, FreeSocket, host.tail)
  /\ UNCHANGED view /\ NoUpset

\* The server closes a socket that does not attach in 5 seconds, lags in its acks by 1 MiB of output,
\* or whose login was revoked and given again.
ServerGivesUp(s) ==
  /\ Upset
  /\ socket[s].ws = "open"
  /\ socket' = [socket EXCEPT ![s] = CloseSocket(@)]
  /\ UNCHANGED <<host, view>>

\* close, asked by the user or because the shell has exited.
HostCloses ==
  /\ Upset /\ host.state = "running"
  /\ host' = [host EXCEPT !.state = "closing", !.writer = NoSocket]
  /\ socket' = BroadcastTo(socket, [type |-> "closing"])
  /\ UNCHANGED view

DisconnectPeers(sockets) ==
  [s \in Sockets |-> IF sockets[s].peer = "none" THEN sockets[s]
                     ELSE [CloseSocket(sockets[s]) EXCEPT !.peer = "none"]]

\* A terminal the user has closed is disposed of; one whose shell has exited stays.
HostExits ==
  /\ host.state = "closing" /\ host.tail = <<>>
  /\ host' \in {[host EXCEPT !.state = "exited"], [host EXCEPT !.state = "gone"]}
  /\ socket' = DisconnectPeers(BroadcastTo(socket, [type |-> "exit"]))
  /\ UNCHANGED view /\ NoUpset

UserDropsHost ==
  /\ host.state = "exited"
  /\ host' = [host EXCEPT !.state = "gone"]
  /\ socket' = DisconnectPeers(socket)
  /\ UNCHANGED view /\ NoUpset

-----------------------------------------------------------------------------
(* The browser *)

\* onclose
Off(v) ==
  [v EXCEPT !.stage = IF v.ended THEN "off" ELSE "asking", !.on = NoSocket, !.ready = FALSE,
            !.writer = FALSE, !.readOnly = TRUE, !.drawing = FALSE]

\* The browser's end closes, and says so unless the network has gone.
LeaveSocket(k, said) == [k EXCEPT !.ws = "left", !.down = <<>>, !.up = said]
Say(k) == LeaveSocket(k, Append(k.up, [type |-> "close"]))

ToServer(s, message) == [socket EXCEPT ![s].up = Append(@, message)]

\* connect: a terminal that is closing or gone gives no ticket, and the view goes on asking; that
\* failure also refreshes the panel.
Connect(b) ==
  /\ view[b].stage = "asking"
  /\ host.state \in {"running", "exited"}
  /\ LET free == {s \in Sockets : socket[s].ws = "free" /\ \A i \in DOMAIN host.tail : host.tail[i].of # s}
         s == CHOOSE s \in free : TRUE
     IN  /\ free # {}
         /\ socket' = [socket EXCEPT ![s] = [FreeSocket EXCEPT !.ws = "open", !.up = <<[type |-> "attach"]>>]]
         /\ view' = [view EXCEPT ![b].stage = "on", ![b].on = s]
  /\ UNCHANGED host /\ NoUpset

\* fitAndResize, of a view that is v now.
FitAndResize(sockets, v) ==
  IF v.ready /\ v.writer THEN [sockets EXCEPT ![v.on].up = Append(@, [type |-> "resize"])] ELSE sockets

\* What a message makes of the view it is shown in.
Shown(v, message) ==
  CASE message.type = "ready" ->
         [v EXCEPT !.writer = message.writer = v.on, !.ended = message.state = "exited"]
    [] message.type = "snapshot" -> [v EXCEPT !.sequence = message.seq, !.drawing = TRUE]
    [] message.type \in {"output", "resized"} -> [v EXCEPT !.sequence = message.seq]
    [] message.type = "controlChanged" ->
         [v EXCEPT !.writer = message.writer = v.on, !.readOnly = message.writer # v.on]
    [] message.type \in {"closing", "exit"} -> [v EXCEPT !.ended = TRUE, !.writer = FALSE, !.readOnly = TRUE]
    
Follows(v, message) == message.type \in {"output", "resized"} => message.seq = v.sequence + 1

\* onmessage, and onclose when the server closes; a view that has missed something closes its socket.
ReceiveDown(b) ==
  /\ view[b].stage = "on" /\ socket[view[b].on].down # <<>>
  /\ LET s == view[b].on
         message == Head(socket[s].down)
         shown == Shown(view[b], message)
         got == [socket EXCEPT ![s].down = Tail(@)]
     IN  IF message.type = "close" \/ ~Follows(view[b], message)
         THEN /\ view' = [view EXCEPT ![b] = Off(@)]
              /\ socket' = [got EXCEPT ![s] = Say(@)]
         ELSE /\ view' = [view EXCEPT ![b] = shown]
              /\ socket' = IF message.type = "controlChanged" /\ shown.writer THEN FitAndResize(got, shown) ELSE got
  /\ UNCHANGED host /\ NoUpset

\* The callback of xterm.write for a snapshot.
Drawn(b) ==
  /\ view[b].drawing
  /\ LET drawn == [view[b] EXCEPT !.drawing = FALSE, !.ready = TRUE,
                                  !.readOnly = ~view[b].writer \/ view[b].ended]
     IN  view' = [view EXCEPT ![b] = drawn] /\ socket' = FitAndResize(socket, drawn)
  /\ UNCHANGED host /\ NoUpset

TypeKeys(b) ==
  /\ keys < MaxKeys /\ keys' = keys + 1
  /\ view[b].ready /\ view[b].writer /\ ~view[b].ended
  /\ socket' = ToServer(view[b].on, [type |-> "input"])
  /\ UNCHANGED <<host, view, upsets>>

ClickTakeControl(b) ==
  /\ Upset
  /\ view[b].stage = "on" /\ view[b].readOnly
  /\ socket' = ToServer(view[b].on, [type |-> "takeControl"])
  /\ UNCHANGED <<host, view>>

\* The network takes the socket away; the server does not know yet.
Breaks(b) ==
  /\ Upset
  /\ view[b].stage = "on"
  /\ socket' = [socket EXCEPT ![view[b].on] = LeaveSocket(@, <<>>)]
  /\ view' = [view EXCEPT ![b] = Off(@)]
  /\ UNCHANGED host

Unmount(b) ==
  /\ view[b].stage # "gone"
  /\ view' = [view EXCEPT ![b] = [NewView(FALSE) EXCEPT !.stage = "gone"]]
  /\ socket' = IF view[b].stage = "on" THEN [socket EXCEPT ![view[b].on] = Say(@)] ELSE socket
  /\ UNCHANGED host

\* The panel asks for the terminals every 5 seconds.
PanelPolls(b) == host.state = "gone" /\ Unmount(b) /\ NoUpset

\* The API stops with all its sockets; the terminals of the next one have other ids.
ApiRestarts ==
  /\ Upset
  /\ host.state # "gone"
  /\ host' = [host EXCEPT !.state = "gone", !.writer = NoSocket, !.tail = <<>>]
  /\ socket' = [s \in Sockets |-> FreeSocket]
  /\ view' = [b \in Browsers |-> IF view[b].stage = "on" THEN Off(view[b]) ELSE view[b]]

-----------------------------------------------------------------------------
\* What goes on by itself: the service, its sockets with their heartbeat, the browsers.
ViewMoves ==
  \/ RunHostTask \/ HostExits
  \/ \E s \in Sockets : HandleUp(s) \/ SocketHeartbeat(s)
  \/ \E b \in Browsers : Connect(b) \/ ReceiveDown(b) \/ Drawn(b) \/ PanelPolls(b)

ViewNext ==
  \/ ViewMoves \/ HostPrints \/ HostCloses \/ UserDropsHost \/ ApiRestarts
  \/ \E s \in Sockets : ServerGivesUp(s)
  \/ \E b \in Browsers : TypeKeys(b) \/ ClickTakeControl(b) \/ Breaks(b)

-----------------------------------------------------------------------------
ViewSpec == ViewInit /\ [][ViewNext]_viewVars

-----------------------------------------------------------------------------
IsNumbered(message) == message.type \in {"snapshot", "output", "resized"}

\* Each piece of output on its way continues what comes before it, or what the view shows.
Continues(v, down) ==
  \A k \in 1..Len(down) : down[k].type \in {"output", "resized"} =>
    \/ (\A i \in 1..(k - 1) : ~IsNumbered(down[i])) /\ down[k].seq = v.sequence + 1
    \/ \E j \in 1..(k - 1) : /\ IsNumbered(down[j]) /\ \A i \in (j + 1)..(k - 1) : ~IsNumbered(down[i])
                             /\ down[k].seq = down[j].seq + 1

\* No view misses or repeats output, whenever its snapshot was taken: what is on its way continues
\* what it has (attach, broadcast, onmessage).
NoGap == \A b \in Browsers : view[b].stage = "on" => Continues(view[b], socket[view[b].on].down)

\* A view that has received all it was sent shows the terminal as it is: its output, who has
\* control, and whether it has ended (takeControl, detach, close, attach, onmessage).
ViewAgrees ==
  \A b \in Browsers :
    LET s == view[b].on
    IN  view[b].stage = "on" /\ socket[s].ws = "open" /\ socket[s].peer = "live" /\ socket[s].down = <<>>
        => /\ view[b].sequence = host.seq
           /\ view[b].writer <=> host.writer = s
           /\ view[b].ended => host.state # "running"
           /\ host.state \in {"exited", "gone"} => view[b].ended

ViewSafe == NoGap /\ ViewAgrees

\* Every view that stays mounted becomes ready or ends, and control does not stay with a browser
\* that is gone (connect, onclose, heartbeat).
ViewsSettled ==
  /\ \A b \in Browsers : view[b].stage \in {"gone", "off"} \/ view[b].ready
  /\ host.writer # NoSocket => \E b \in Browsers : view[b].on = host.writer
=============================================================================

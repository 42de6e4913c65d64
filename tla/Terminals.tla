----------------------------- MODULE Terminals -----------------------------
(***************************************************************************)
(* One terminal of a session: the shell, the guardian process that must    *)
(* not leave it behind, the browsers attached to it, the sweep of          *)
(* unattended terminals, and the deletion of the session it belongs to.    *)
(* (terminals.service.ts, terminal-lifecycle.ts, terminal-process.ts,      *)
(* runtime/guardian.mjs, runtime/pty-gate.mjs, sessions.service.ts)        *)
(***************************************************************************)
EXTENDS Naturals, Sequences, SequencesExt

CONSTANTS
  Peers,              \* browser connections
  NoPeer,
  MaxOutput,          \* bound on chunks of output
  MaxTerminalFaults   \* bound on failed steps and crashes of the API

ASSUME TerminalAssumption ==
  NoPeer \notin Peers /\ MaxOutput \in Nat /\ MaxTerminalFaults \in Nat

VARIABLES
  api,        \* the API process: "up", "stopping", "down"
  session,    \* the session's row: "open" or "deleted"
  creator,    \* the request that creates the terminal
  deleter,    \* the request that deletes the session
  lockQueue,  \* withProject: who holds the project's lock and who waits
  entry,      \* the terminal in memory: [state, reason, closing, joined, process, writer, idle]
  proc,       \* the operating system's process: "none", "gate", "shell", "dead"
  guard,      \* the guardian: [state, known]
  tail,       \* outputTail: tasks in order
  written,    \* chunks the headless terminal has taken
  emitted,    \* chunks the shell has written
  peer,       \* per connection: [on, live, got]
  terminalFaults,
  strayed,    \* history: the terminal was closed while its shell was being started
  abandoned,  \* history: a start failed, and so did the close of what it had started
  survived    \* history: the guardian ended without having killed the shell

terminalVars == <<api, session, creator, deleter, lockQueue, entry, proc, guard, tail, written,
                  emitted, peer, terminalFaults, strayed, abandoned, survived>>
leftovers == <<strayed, abandoned, survived>>
requestVars == <<creator, deleter, lockQueue>>
outputVars == <<tail, written, emitted, peer>>

NoEntry == [state |-> "none", reason |-> "none", closing |-> "no", joined |-> FALSE,
            process |-> FALSE, writer |-> NoPeer, idle |-> FALSE]
Away == [on |-> FALSE, live |-> FALSE, got |-> <<>>]
Output == [op |-> "output", of |-> NoPeer]
ScreenOf(p) == [op |-> "snapshot", of |-> p]
ResizeBy(p) == [op |-> "resize", of |-> p]

TerminalTypeOK ==
  /\ api \in {"up", "stopping", "down"} /\ session \in {"open", "deleted"}
  /\ creator \in {"none", "asked", "queued", "checked", "directory", "prepare", "prepared", "gate", "done"}
  /\ deleter \in {"none", "asked", "queued", "checked", "done"}
  /\ lockQueue \in Seq({"creator", "deleter"})
  /\ entry \in [state : {"none", "starting", "running", "closing", "exited"},
                reason : {"none", "user", "process_exit", "unattached_timeout", "api_shutdown"},
                closing : {"no", "guardian", "tail"}, joined : BOOLEAN, process : BOOLEAN,
                writer : Peers \cup {NoPeer}, idle : BOOLEAN]
  /\ proc \in {"none", "gate", "shell", "dead"}
  /\ guard \in [state : {"up", "stopping", "gone"}, known : {"none", "prepared", "registered"}]
  /\ tail \in Seq([op : {"output", "snapshot", "resize"}, of : Peers \cup {NoPeer}])
  /\ written \in 0..MaxOutput /\ emitted \in 0..MaxOutput
  /\ peer \in [Peers -> [on : BOOLEAN, live : BOOLEAN, got : Seq(0..MaxOutput)]]
  /\ terminalFaults \in 0..MaxTerminalFaults
  /\ strayed \in BOOLEAN /\ abandoned \in BOOLEAN /\ survived \in BOOLEAN

TerminalInit ==
  /\ api = "up" /\ session = "open" /\ creator = "none" /\ deleter = "none" /\ lockQueue = <<>>
  /\ entry = NoEntry /\ proc = "none" /\ guard = [state |-> "up", known |-> "none"]
  /\ tail = <<>> /\ written = 0 /\ emitted = 0 /\ peer = [p \in Peers |-> Away]
  /\ terminalFaults = 0 /\ strayed = FALSE /\ abandoned = FALSE /\ survived = FALSE

TerminalFault == terminalFaults < MaxTerminalFaults /\ terminalFaults' = terminalFaults + 1
Up == api \in {"up", "stopping"}
Holds(r) == lockQueue # <<>> /\ Head(lockQueue) = r
Unlock == lockQueue' = Tail(lockQueue)

-----------------------------------------------------------------------------
\* create.

\* The session is looked up, then the project's lock is asked for.
AskTerminal ==
  /\ Up /\ creator = "none" /\ session = "open"
  /\ creator' = "asked"
  /\ UNCHANGED <<api, session, deleter, lockQueue, entry, proc, guard, outputVars, terminalFaults, leftovers>>

LockForCreate ==
  /\ Up /\ creator = "asked"
  /\ creator' = "queued" /\ lockQueue' = Append(lockQueue, "creator")
  /\ UNCHANGED <<api, session, deleter, entry, proc, guard, outputVars, terminalFaults, leftovers>>

\* The session is looked up again under the lock.
CheckSession ==
  /\ Up /\ creator = "queued" /\ Holds("creator")
  /\ IF session = "open" THEN creator' = "checked" /\ UNCHANGED lockQueue
     ELSE creator' = "done" /\ Unlock
  /\ UNCHANGED <<api, session, deleter, entry, proc, guard, outputVars, terminalFaults, leftovers>>

\* A stopping service refuses; otherwise the working directory is looked at.
CheckStopping ==
  /\ Up /\ creator = "checked"
  /\ IF api = "up" THEN creator' = "directory" /\ UNCHANGED lockQueue
     ELSE creator' = "done" /\ Unlock
  /\ UNCHANGED <<api, session, deleter, entry, proc, guard, outputVars, terminalFaults, leftovers>>

\* If it is accessible the entry is made known and the spawn begins, also if the service stops meanwhile.
StartEntry ==
  /\ Up /\ creator = "directory"
  /\ \/ /\ entry' = [NoEntry EXCEPT !.state = "starting"]
        /\ creator' = "prepare" /\ UNCHANGED lockQueue
     \/ /\ creator' = "done" /\ Unlock /\ UNCHANGED entry
  /\ UNCHANGED <<api, session, deleter, proc, guard, outputVars, terminalFaults, leftovers>>

\* The guardian is told of the terminal before there is a process.
Prepare ==
  /\ Up /\ creator = "prepare" /\ guard.state = "up"
  /\ guard' = [guard EXCEPT !.known = "prepared"]
  /\ creator' = "prepared"
  /\ UNCHANGED <<api, session, deleter, lockQueue, entry, proc, outputVars, terminalFaults, leftovers>>

\* The pty runs pty-gate.mjs.
SpawnGate ==
  /\ Up /\ creator = "prepared"
  /\ proc' = "gate" /\ creator' = "gate"
  /\ UNCHANGED <<api, session, deleter, lockQueue, entry, guard, outputVars, terminalFaults, leftovers>>

Register_AnyTime ==
  /\ proc = "gate"
  /\ proc' = "shell"
  /\ guard' = IF guard.state = "up" THEN [guard EXCEPT !.known = "registered"] ELSE guard
  /\ UNCHANGED <<api, session, requestVars, entry, outputVars, terminalFaults, leftovers>>

\* The gate connects: registered, it becomes the shell.
Register ==
  /\ proc = "gate" /\ guard.state = "up" /\ guard.known = "prepared" /\ Up
  /\ proc' = "shell" /\ guard' = [guard EXCEPT !.known = "registered"]
  /\ UNCHANGED <<api, session, requestVars, entry, outputVars, terminalFaults, leftovers>>

\* Turned away, or after its 10 s, the gate exits.
GateExits ==
  /\ proc = "gate" /\ ~(guard.state = "up" /\ guard.known = "prepared" /\ Up)
  /\ proc' = "dead"
  /\ UNCHANGED <<api, session, requestVars, entry, guard, outputVars, terminalFaults, leftovers>>

\* The registration is reported: the terminal runs, also one that is being closed.
Started ==
  /\ Up /\ creator = "gate" /\ guard.known = "registered"
  /\ entry' = IF entry.state = "none" THEN entry
              ELSE [entry EXCEPT !.state = "running", !.process = TRUE, !.idle = TRUE]
  /\ strayed' = (strayed \/ entry.state # "starting")
  /\ creator' = "done" /\ Unlock
  /\ UNCHANGED <<api, session, deleter, proc, guard, outputVars, terminalFaults, abandoned, survived>>

\* The guardian has killed the shell it knows of the terminal, if it has become one.
GuardianKills ==
  /\ proc' = IF proc = "shell" THEN "dead" ELSE proc
  /\ guard' = [guard EXCEPT !.known = "none"]

\* Something failed on the way, and the entry is dropped. Once the guardian was told of the terminal
\* it is asked to close it, and nobody hears of it if that fails: what was started stays.
StartFails ==
  /\ Up /\ creator \in {"prepare", "prepared", "gate"}
  /\ TerminalFault \/ ((guard.state # "up" \/ proc = "dead") /\ UNCHANGED terminalFaults)
  /\ entry' = NoEntry /\ creator' = "done" /\ Unlock
  /\ \/ creator # "prepare" /\ guard.state = "up" /\ GuardianKills /\ UNCHANGED abandoned
     \/ /\ abandoned' = (abandoned \/ proc \in {"gate", "shell"})
        /\ UNCHANGED <<proc, guard>>
  /\ UNCHANGED <<api, session, deleter, outputVars, strayed, survived>>

-----------------------------------------------------------------------------
\* Output, resize and the browsers.

ShellWrites ==
  /\ Up /\ proc = "shell" /\ entry.state \in {"running", "closing"} /\ emitted < MaxOutput
  /\ emitted' = emitted + 1
  /\ tail' = Append(tail, Output)
  /\ UNCHANGED <<api, session, requestVars, entry, proc, guard, written, peer, terminalFaults, leftovers>>

\* Whoever controls the terminal resizes it, in turn with the output.
ResizeTerminal(p) ==
  /\ Up /\ entry.state = "running" /\ entry.writer = p /\ emitted < MaxOutput
  /\ emitted' = emitted + 1
  /\ tail' = Append(tail, ResizeBy(p))
  /\ UNCHANGED <<api, session, requestVars, entry, proc, guard, written, peer, terminalFaults, leftovers>>

\* The next number is broadcast to the connections that are live.
Numbered ==
  /\ written' = written + 1
  /\ peer' = [p \in Peers |-> IF peer[p].on /\ peer[p].live
                              THEN [peer[p] EXCEPT !.got = Append(@, written + 1)] ELSE peer[p]]

\* The next task of outputTail; a resize is dropped if control has changed hands. A snapshot is what
\* has been written up to here.
RunTask ==
  /\ Up /\ tail # <<>>
  /\ tail' = Tail(tail)
  /\ LET t == Head(tail) IN
     CASE t.op = "output" -> Numbered
       [] t.op = "snapshot" ->
            /\ peer' = IF peer[t.of].on
                       THEN [peer EXCEPT ![t.of].live = TRUE, ![t.of].got = Append(@, written)] ELSE peer
            /\ UNCHANGED written
       [] t.op = "resize" /\ entry.state = "running" /\ entry.writer = t.of -> Numbered
       [] OTHER -> UNCHANGED <<written, peer>>
  /\ UNCHANGED <<api, session, requestVars, entry, proc, guard, emitted, terminalFaults, leftovers>>

Attach_LiveAtOnce(p) ==
  /\ api = "up" /\ entry.state \in {"running", "exited"}
  /\ peer[p] = Away /\ ~Contains(tail, ScreenOf(p))
  /\ peer' = [peer EXCEPT ![p].on = TRUE, ![p].live = TRUE]
  /\ entry' = IF entry.state = "running"
              THEN [entry EXCEPT !.idle = FALSE, !.writer = IF @ = NoPeer THEN p ELSE @] ELSE entry
  /\ tail' = Append(tail, ScreenOf(p))
  /\ UNCHANGED <<api, session, requestVars, proc, guard, written, emitted, terminalFaults, leftovers>>

\* attach: nothing is sent to the connection before its snapshot.
Attach(p) ==
  /\ api = "up" /\ entry.state \in {"running", "exited"}
  /\ peer[p] = Away /\ ~Contains(tail, ScreenOf(p))
  /\ peer' = [peer EXCEPT ![p].on = TRUE]
  /\ entry' = IF entry.state = "running"
              THEN [entry EXCEPT !.idle = FALSE, !.writer = IF @ = NoPeer THEN p ELSE @] ELSE entry
  /\ tail' = Append(tail, ScreenOf(p))
  /\ UNCHANGED <<api, session, requestVars, proc, guard, written, emitted, terminalFaults, leftovers>>

\* The connection is gone, and its snapshot with it if it is still to come; one that comes
\* back is another connection.
Detach(p) ==
  /\ Up /\ peer[p].on
  /\ peer' = [peer EXCEPT ![p] = Away]
  /\ \/ ~Contains(tail, ScreenOf(p)) /\ UNCHANGED tail
     \/ \E k \in DOMAIN tail : tail[k] = ScreenOf(p) /\ tail' = RemoveAt(tail, k)
  /\ entry' = [entry EXCEPT !.writer = IF @ = p THEN NoPeer ELSE @,
                            !.idle = @ \/ (entry.state = "running" /\ \A q \in Peers \ {p} : ~peer[q].on)]
  /\ UNCHANGED <<api, session, requestVars, proc, guard, written, emitted, terminalFaults, leftovers>>

TakeControl(p) ==
  /\ Up /\ entry.state = "running" /\ peer[p].on /\ entry.writer # p
  /\ entry' = [entry EXCEPT !.writer = p]
  /\ UNCHANGED <<api, session, requestVars, proc, guard, outputVars, terminalFaults, leftovers>>

-----------------------------------------------------------------------------
\* close, the sweep, the end of the shell.

\* The synchronous part of close.
BeginClose(reason) ==
  entry' = [entry EXCEPT !.state = "closing", !.reason = reason, !.writer = NoPeer, !.idle = FALSE,
                         !.joined = FALSE, !.closing = IF entry.process THEN "guardian" ELSE "tail"]

\* A user who finds it closing waits for that close, and has the terminal dropped after it.
UserJoinsClose ==
  /\ Up /\ entry.closing # "no" /\ ~entry.joined
  /\ entry' = [entry EXCEPT !.joined = TRUE]
  /\ UNCHANGED <<api, session, requestVars, proc, guard, outputVars, terminalFaults, leftovers>>

\* An exited terminal that the user closes, or that is shut down, is dropped.
Dispose ==
  /\ entry' = NoEntry
  /\ peer' = [p \in Peers |-> Away]

UserCloses ==
  /\ Up /\ entry.state \in {"starting", "running", "closing"} /\ entry.closing = "no"
  /\ BeginClose("user")
  /\ UNCHANGED <<api, session, requestVars, proc, guard, outputVars, terminalFaults, leftovers>>

UserDropsExited ==
  /\ Up /\ entry.state = "exited"
  /\ Dispose
  /\ UNCHANGED <<api, session, requestVars, proc, guard, tail, written, emitted, terminalFaults, leftovers>>

\* 12 h without a connection, or a close of the sweep that failed.
Sweep ==
  /\ api = "up" /\ entry.closing = "no"
  /\ \/ entry.state = "running" /\ entry.idle /\ \A p \in Peers : ~peer[p].on
     \/ entry.state = "closing" /\ entry.reason = "unattached_timeout"
  /\ BeginClose("unattached_timeout")
  /\ UNCHANGED <<api, session, requestVars, proc, guard, outputVars, terminalFaults, leftovers>>

ShellExits ==
  /\ proc = "shell" /\ proc' = "dead"
  /\ UNCHANGED <<api, session, requestVars, entry, guard, outputVars, terminalFaults, leftovers>>

ProcessExit ==
  /\ Up /\ proc = "dead" /\ entry.state = "running" /\ entry.closing = "no"
  /\ BeginClose("process_exit")
  /\ UNCHANGED <<api, session, requestVars, proc, guard, outputVars, terminalFaults, leftovers>>

\* The guardian has killed everything it knows of the terminal.
GuardianClosed ==
  /\ Up /\ entry.closing = "guardian" /\ guard.state = "up"
  /\ GuardianKills
  /\ entry' = [entry EXCEPT !.closing = "tail"]
  /\ UNCHANGED <<api, session, requestVars, outputVars, terminalFaults, leftovers>>

\* It could not (a process survived, a timeout, no guardian): closing can be tried again.
CloseFails ==
  /\ Up /\ entry.closing = "guardian"
  /\ TerminalFault \/ (guard.state # "up" /\ UNCHANGED terminalFaults)
  /\ entry' = [entry EXCEPT !.closing = "no", !.joined = FALSE]
  /\ UNCHANGED <<api, session, requestVars, proc, guard, outputVars, leftovers>>

\* The output is drained: exited, the connections closed.
Exited ==
  /\ Up /\ entry.closing = "tail" /\ tail = <<>>
  /\ entry' = IF entry.joined \/ entry.reason \in {"user", "api_shutdown"} THEN NoEntry
              ELSE [entry EXCEPT !.state = "exited", !.closing = "no", !.process = FALSE]
  /\ peer' = [p \in Peers |-> Away]
  /\ UNCHANGED <<api, session, requestVars, proc, guard, tail, written, emitted, terminalFaults, leftovers>>

-----------------------------------------------------------------------------
\* deleteByIdForUser of the session.

AskDelete ==
  /\ Up /\ deleter = "none"
  /\ deleter' = "queued" /\ lockQueue' = Append(lockQueue, "deleter")
  /\ UNCHANGED <<api, session, creator, entry, proc, guard, outputVars, terminalFaults, leftovers>>

\* assertDeletable: no live terminal.
CheckDelete ==
  /\ Up /\ deleter = "queued" /\ Holds("deleter")
  /\ IF entry.state \in {"starting", "running", "closing"}
     THEN deleter' = "done" /\ Unlock
     ELSE deleter' = "checked" /\ UNCHANGED lockQueue
  /\ UNCHANGED <<api, session, creator, entry, proc, guard, outputVars, terminalFaults, leftovers>>

\* The row is deleted, then discard drops exited terminals.
Delete ==
  /\ Up /\ deleter = "checked"
  /\ session' = "deleted" /\ deleter' = "done" /\ Unlock
  /\ Dispose
  /\ UNCHANGED <<api, creator, proc, guard, tail, written, emitted, terminalFaults, leftovers>>

-----------------------------------------------------------------------------
\* Shutdown and crash.

\* onModuleDestroy: close the terminal, then shut the guardian down.
Shutdown ==
  /\ api = "up" /\ api' = "stopping"
  /\ IF entry.state \in {"starting", "running", "closing"} /\ entry.closing = "no"
     THEN BeginClose("api_shutdown") ELSE UNCHANGED entry
  /\ UNCHANGED <<session, requestVars, proc, guard, outputVars, terminalFaults, leftovers>>

Down ==
  /\ api' = "down" /\ entry' = NoEntry /\ tail' = <<>> /\ lockQueue' = <<>>
  /\ creator' = "done" /\ deleter' = "done"
  /\ peer' = [p \in Peers |-> Away]

\* The guardian stops when it is told to, or when its channel to the API breaks.
ShutdownEnds ==
  /\ api = "stopping" /\ entry.closing = "no"
  /\ Down
  /\ UNCHANGED <<session, proc, guard, written, emitted, terminalFaults, leftovers>>

ApiCrash ==
  /\ Up /\ TerminalFault
  /\ Down
  /\ UNCHANGED <<session, proc, guard, written, emitted, leftovers>>

GuardianStops ==
  /\ api = "down" /\ guard.state = "up"
  /\ guard' = [guard EXCEPT !.state = "stopping"]
  /\ UNCHANGED <<api, session, requestVars, entry, proc, outputVars, terminalFaults, leftovers>>

\* The guardian ends while the API lives, which then hangs up on the shell, for what that is worth, and
\* has no other guardian.
GuardianFails ==
  /\ Up /\ guard.state = "up" /\ TerminalFault
  /\ guard' = [state |-> "gone", known |-> "none"]
  /\ proc' \in {proc} \cup {p \in {"dead"} : proc \in {"gate", "shell"}}
  /\ survived' = (survived \/ proc' = "shell")
  /\ UNCHANGED <<api, session, requestVars, entry, outputVars, strayed, abandoned>>

\* It ends in any case, without another attempt if processes could not be listed or killed.
GuardianCleans ==
  /\ guard.state = "stopping"
  /\ guard' = [state |-> "gone", known |-> "none"]
  /\ \/ /\ proc' = IF proc = "shell" /\ guard.known = "registered" THEN "dead" ELSE proc
        /\ UNCHANGED <<terminalFaults, survived>>
     \/ TerminalFault /\ survived' = (proc = "shell") /\ UNCHANGED proc
  /\ UNCHANGED <<api, session, requestVars, entry, outputVars, strayed, abandoned>>

-----------------------------------------------------------------------------
TerminalNext ==
  \/ AskTerminal \/ LockForCreate \/ CheckSession \/ CheckStopping \/ StartEntry \/ Prepare \/ SpawnGate
  \/ Register \/ GateExits \/ Started \/ StartFails
  \/ ShellWrites \/ RunTask \/ \E p \in Peers : Attach(p) \/ Detach(p) \/ TakeControl(p) \/ ResizeTerminal(p)
  \/ UserCloses \/ UserJoinsClose \/ UserDropsExited \/ Sweep \/ ShellExits \/ ProcessExit
  \/ GuardianClosed \/ CloseFails \/ Exited
  \/ AskDelete \/ CheckDelete \/ Delete
  \/ Shutdown \/ ShutdownEnds \/ ApiCrash \/ GuardianFails \/ GuardianStops \/ GuardianCleans

TerminalSpec == TerminalInit /\ [][TerminalNext]_terminalVars

-----------------------------------------------------------------------------
\* What a connection was sent is a snapshot and every chunk after it, once and in order
\* (attach, output).
PeerSeesAll ==
  \A p \in Peers : \A i \in 1..(Len(peer[p].got) - 1) : peer[p].got[i + 1] = peer[p].got[i] + 1

\* A deleted session has no shell, unless its terminal was closed while it started, or its start
\* failed and the close after it; that shell is still known to the guardian, if there is one, to be
\* killed when the API goes (withProject, assertDeletable, create, spawn).
DeletedHasNoShell ==
  session = "deleted" /\ api # "down" /\ proc = "shell" =>
    (strayed \/ abandoned) /\ (guard.known = "registered" \/ survived)

TerminalSafe == PeerSeesAll /\ DeletedHasNoShell

\* An API process that is gone leaves no shell behind, wherever it stopped and whatever it had lost
\* sight of, unless the guardian could not kill it (guardian.mjs, pty-gate.mjs).
NoShell == api = "down" /\ ~survived => proc \notin {"gate", "shell"}
=============================================================================

---------------------------- MODULE CodexWorkers ----------------------------
(***************************************************************************)
(* The codex app-server behind the runner: one worker process shared by    *)
(* all turns, the requests that start a turn on it, the notifications it   *)
(* sends back, and the approvals it asks for. (codex-backend.ts)           *)
(***************************************************************************)
EXTENDS Naturals, Sequences, SequencesExt, FiniteSets, FiniteSetsExt

CONSTANTS
  Turns,      \* turns of the runner
  NoTurn,
  MaxWorkers, \* bound on the processes spawned
  MaxAsks     \* bound on the approvals the agents ask for; a process numbers its own from 1

ASSUME CodexAssumption ==
  /\ NoTurn \notin Turns /\ {"shared", "none"} \cap Turns = {}
  /\ MaxWorkers \in Nat \ {0} /\ MaxAsks \in Nat

VARIABLES
  worker,    \* the newest process: [gen, state, init, next]; it is cached unless closed
  runs,      \* startTurn: [pc, gen, final, thread, native]
  prefers,   \* the thread each turn's session already has, or "none"
  agents,    \* what runs in the process for each turn
  notes,     \* notificationQueue: [gen, kind, of, id]
  asks,      \* approvals asked so far by all processes
  waiting,   \* requests the newest process waits to have answered: [id, of]
  pending,   \* pendingApprovalRequests: id -> [gen, turn, of], by the id alone
  announced, \* approvals the API was told of: [turn, id]
  disposals, \* ids disposePendingApprovalsForTurn has still to look at
  cancels,   \* turns whose interrupt is awaited
  call,      \* another caller of the process: [pc, gen, left]
  misgiven,  \* history: a user's decision answered another turn's request
  borrowed   \* history: a notification went to another turn while its own was active

codexVars == <<worker, runs, prefers, agents, notes, asks, waiting, pending, announced, disposals,
               cancels, call, misgiven, borrowed>>
approvalVars == <<asks, waiting, pending, announced, misgiven>>

Ids == 1..MaxAsks
NoCall == [pc |-> "idle", gen |-> 0, left |-> 0]
NothingPending == [gen |-> 0, turn |-> NoTurn, of |-> NoTurn]
Thread == {"shared", "none"} \cup Turns

CodexTypeOK ==
  /\ worker \in [gen : 0..MaxWorkers, state : {"up", "closed"}, init : {"asked", "ready", "failed"},
                next : 1..(MaxAsks + 1)]
  /\ runs \in [Turns -> [pc : {"idle", "ready", "resume", "thread", "start", "running", "over"},
                          gen : 0..MaxWorkers, final : BOOLEAN, thread : Thread, native : Turns \cup {NoTurn}]]
  /\ prefers \in [Turns -> {"shared", "none"}]
  /\ agents \in [Turns -> {"none", "running", "done"}]
  /\ notes \in Seq([gen : 1..MaxWorkers, kind : {"completed", "approval"}, of : Turns, id : 0..MaxAsks])
  /\ asks \in 0..MaxAsks /\ waiting \subseteq [id : Ids, of : Turns]
  /\ pending \in [Ids -> [gen : 0..MaxWorkers, turn : Turns \cup {NoTurn}, of : Turns \cup {NoTurn}]]
  /\ announced \subseteq [turn : Turns, id : Ids] /\ disposals \in [Turns -> SUBSET Ids]
  /\ call \in [pc : {"idle", "ready", "asked"}, gen : 0..MaxWorkers, left : 0..2]
  /\ cancels \subseteq Turns /\ misgiven \in BOOLEAN /\ borrowed \in BOOLEAN

CodexInit ==
  /\ worker = [gen |-> 0, state |-> "closed", init |-> "failed", next |-> 1]
  /\ call = NoCall
  /\ runs = [t \in Turns |-> [pc |-> "idle", gen |-> 0, final |-> FALSE, thread |-> "none", native |-> NoTurn]]
  /\ \E p \in {"shared", "none"} : prefers = [t \in Turns |-> p]
  /\ agents = [t \in Turns |-> "none"] /\ notes = <<>> /\ asks = 0 /\ waiting = {}
  /\ pending = [i \in Ids |-> NothingPending] /\ announced = {} /\ disposals = [t \in Turns |-> {}]
  /\ cancels = {} /\ misgiven = FALSE /\ borrowed = FALSE

\* Registered in activeTurns and not finalized.
Active(t) == runs[t].pc # "idle" /\ ~runs[t].final
Writable(gen) == worker.gen = gen /\ worker.state = "up"

-----------------------------------------------------------------------------
\* Approvals.

\* respondToServerRequest: nothing is written to a process that is gone.
Respond(gen, id) == waiting' = IF Writable(gen) THEN {w \in waiting : w.id # id} ELSE waiting

PendingOf(t) == {i \in Ids : pending[i].turn = t}

\* disposePendingApprovalsForTurn lists the ids once and looks each up again after the
\* event of the one before was delivered: a later process may have used it by then.
DisposeOne(t, ids) ==
  LET i == Min(ids) IN
  /\ disposals' = [disposals EXCEPT ![t] = ids \ {i}]
  /\ Respond(pending[i].gen, i)
  /\ pending' = [pending EXCEPT ![i] = NothingPending]

DisposeNext(t) ==
  /\ disposals[t] # {} /\ DisposeOne(t, disposals[t])
  /\ UNCHANGED <<worker, runs, prefers, agents, notes, asks, announced, cancels, call, misgiven, borrowed>>

Ended(turn) == [turn EXCEPT !.final = TRUE, !.pc = IF @ = "running" THEN "over" ELSE @]

\* finalizeTurn, with the disposal of the first approval. startTurn waits for the end of
\* the turn once it runs; before, it goes on.
Finalize(t) ==
  /\ runs' = [runs EXCEPT ![t] = Ended(@)]
  /\ IF Active(t) /\ PendingOf(t) # {} THEN DisposeOne(t, PendingOf(t))
     ELSE UNCHANGED <<waiting, pending, disposals>>

\* A decision of the user, for an approval its turn was told of.
Decide(t, i) ==
  /\ Respond(pending[i].gen, i)
  /\ misgiven' = (misgiven \/ (Writable(pending[i].gen) /\ pending[i].turn # t))
  /\ pending' = [pending EXCEPT ![i] = NothingPending]
  /\ UNCHANGED <<worker, runs, prefers, agents, notes, asks, announced, disposals, cancels, call, borrowed>>

ResolvePendingApproval_AnyTurn(t, i) ==
  [turn |-> t, id |-> i] \in announced /\ pending[i] # NothingPending /\ Decide(t, i)

ResolvePendingApproval(t, i) ==
  [turn |-> t, id |-> i] \in announced /\ pending[i].turn = t /\ Decide(t, i)

-----------------------------------------------------------------------------
\* The process.

\* ensureCodexWorker: the cached process, or a new one.
EnsureCodexWorker ==
  IF worker.state = "up" THEN UNCHANGED worker
  ELSE worker.gen < MaxWorkers /\ worker' = [gen |-> worker.gen + 1, state |-> "up", init |-> "asked", next |-> 1]

InitializeAnswered ==
  /\ worker.state = "up" /\ worker.init = "asked" /\ worker' = [worker EXCEPT !.init = "ready"]
  /\ UNCHANGED <<runs, prefers, agents, notes, approvalVars, disposals, cancels, call, borrowed>>

\* After 15 seconds. The process stays cached: no turn starts on it, and none replaces it.
InitializeTimesOut ==
  /\ worker.state = "up" /\ worker.init = "asked" /\ worker' = [worker EXCEPT !.init = "failed"]
  /\ UNCHANGED <<runs, prefers, agents, notes, approvalVars, disposals, cancels, call, borrowed>>

Stopped == [t \in Turns |-> IF agents[t] = "running" THEN "done" ELSE agents[t]]

\* The process exits: handleWorkerExit fails every turn that is active, and every request.
HandleWorkerExit ==
  LET first == {Min(PendingOf(t)) : t \in {u \in Turns : Active(u) /\ PendingOf(u) # {}}} IN
  /\ worker.state = "up"
  /\ worker' = [worker EXCEPT !.state = "closed", !.init = "failed"]
  /\ runs' = [t \in Turns |-> IF Active(t)
                 THEN Ended(runs[t]) ELSE runs[t]]
  /\ disposals' = [t \in Turns |-> IF Active(t) THEN PendingOf(t) \ first ELSE disposals[t]]
  /\ pending' = [i \in Ids |-> IF i \in first THEN NothingPending ELSE pending[i]]
  /\ agents' = Stopped /\ waiting' = {}
  /\ UNCHANGED <<prefers, notes, asks, announced, misgiven, cancels, call, borrowed>>

\* resetWorker, after a switch of provider: no turn is active then.
ResetWorker ==
  /\ worker.state = "up" /\ (\A t \in Turns : ~Active(t))
  /\ worker' = [worker EXCEPT !.state = "closed", !.init = "failed"]
  /\ agents' = Stopped /\ waiting' = {}
  /\ UNCHANGED <<runs, prefers, notes, asks, pending, announced, misgiven, disposals, cancels, call, borrowed>>

-----------------------------------------------------------------------------
\* startTurn.

\* A session has one turn at a time; the next one comes after the terminal event.
StartTurn(t) ==
  /\ runs[t].pc = "idle" /\ call.pc \notin {"ready", "asked"}
  /\ \A u \in Turns \ {t} : prefers[u] = "shared" /\ prefers[t] = "shared" =>
       runs[u].pc = "idle" \/ (runs[u].final /\ disposals[u] = {})
  /\ EnsureCodexWorker
  /\ runs' = [runs EXCEPT ![t].pc = "ready", ![t].gen = worker'.gen]
  /\ UNCHANGED <<prefers, agents, notes, approvalVars, disposals, cancels, call, borrowed>>

\* The process answered "initialize"; the turn asks for its thread.
WorkerReady(t) ==
  /\ runs[t].pc = "ready" /\ Writable(runs[t].gen) /\ worker.init = "ready"
  /\ runs' = [runs EXCEPT ![t].pc = IF prefers[t] = "none" THEN "thread" ELSE "resume"]
  /\ UNCHANGED <<worker, prefers, agents, notes, approvalVars, disposals, cancels, call, borrowed>>

\* resolveThreadId: a thread that cannot be resumed, or not in time, is replaced by a new one.
ResumeAnswered(t) ==
  /\ runs[t].pc = "resume" /\ Writable(runs[t].gen)
  /\ \E resumed \in BOOLEAN :
       runs' = [runs EXCEPT ![t].pc = IF resumed THEN "start" ELSE "thread",
                              ![t].thread = IF resumed THEN prefers[t] ELSE @]
  /\ UNCHANGED <<worker, prefers, agents, notes, approvalVars, disposals, cancels, call, borrowed>>

ThreadStarted(t) ==
  /\ runs[t].pc = "thread" /\ Writable(runs[t].gen)
  /\ runs' = [runs EXCEPT ![t].pc = "start", ![t].thread = t]
  /\ UNCHANGED <<worker, prefers, agents, notes, approvalVars, disposals, cancels, call, borrowed>>

\* The process has the turn/start of a turn, which may be over by now.
AgentBegins(t) ==
  /\ runs[t].pc = "start" /\ Writable(runs[t].gen) /\ agents[t] = "none"
  /\ agents' = [agents EXCEPT ![t] = "running"]
  /\ UNCHANGED <<worker, runs, prefers, notes, approvalVars, disposals, cancels, call, borrowed>>

\* The answer to turn/start names the native turn. (That the notification turn/started may
\* name it earlier is in TurnLifecycle.)
TurnStarted(t) ==
  /\ runs[t].pc = "start" /\ Writable(runs[t].gen) /\ agents[t] # "none"
  /\ runs' = [runs EXCEPT ![t].pc = IF runs[t].final THEN "over" ELSE "running", ![t].native = t]
  /\ UNCHANGED <<worker, prefers, agents, notes, approvalVars, disposals, cancels, call, borrowed>>

\* A request of startTurn is refused, times out, or finds the process gone.
StartTurnFails(t) ==
  /\ \/ runs[t].pc \in {"thread", "start"}
     \/ runs[t].pc \in {"ready", "resume"} /\ ~Writable(runs[t].gen)
     \/ runs[t].pc = "ready" /\ worker.init = "failed"
  /\ runs' = [runs EXCEPT ![t] = [Ended(@) EXCEPT !.pc = "over"]]
  /\ IF Active(t) /\ PendingOf(t) # {} THEN DisposeOne(t, PendingOf(t))
     ELSE UNCHANGED <<waiting, pending, disposals>>
  /\ UNCHANGED <<worker, prefers, agents, notes, asks, announced, misgiven, cancels, call, borrowed>>

\* cancelTurn interrupts the native turn it knows of, and ends the turn whatever comes of it.
CancelTurn(t) ==
  /\ Active(t) /\ t \notin cancels
  /\ IF runs[t].native # NoTurn /\ worker.state = "up"
     THEN cancels' = cancels \cup {t} /\ UNCHANGED <<runs, waiting, pending, disposals>>
     ELSE Finalize(t) /\ UNCHANGED cancels
  /\ UNCHANGED <<worker, prefers, agents, notes, asks, announced, misgiven, call, borrowed>>

InterruptAnswered(t) ==
  /\ t \in cancels /\ cancels' = cancels \ {t} /\ Finalize(t)
  /\ UNCHANGED <<worker, prefers, agents, notes, asks, announced, misgiven, call, borrowed>>

-----------------------------------------------------------------------------
\* The agents, and what the runner makes of their messages.

AgentEnds(t) ==
  /\ agents' = [agents EXCEPT ![t] = "done"]
  /\ waiting' = {w \in waiting : w.of # t}
  /\ notes' = Append(notes, [gen |-> worker.gen, kind |-> "completed", of |-> t, id |-> 0])
  /\ UNCHANGED <<worker, runs, prefers, asks, pending, announced, misgiven, disposals, cancels, call, borrowed>>

AgentCompletes(t) ==
  agents[t] = "running" /\ worker.state = "up" /\ (\A w \in waiting : w.of # t) /\ AgentEnds(t)

AgentInterrupted(t) ==
  /\ t \in cancels /\ Writable(runs[t].gen) /\ agents[runs[t].native] = "running"
  /\ AgentEnds(runs[t].native)

\* Every process counts its requests from the same number.
AgentAsks(t) ==
  /\ agents[t] = "running" /\ worker.state = "up" /\ asks < MaxAsks /\ asks' = asks + 1
  /\ worker' = [worker EXCEPT !.next = @ + 1]
  /\ waiting' = waiting \cup {[id |-> worker.next, of |-> t]}
  /\ notes' = Append(notes, [gen |-> worker.gen, kind |-> "approval", of |-> t, id |-> worker.next])
  /\ UNCHANGED <<runs, prefers, agents, pending, announced, misgiven, disposals, cancels, call, borrowed>>

\* The active turn of the thread with that native turn, else the active turn of the thread.
OnThread(of) == {t \in Turns : Active(t) /\ runs[t].thread = runs[of].thread}

FindTurnByThread_NativeOnly(of) ==
  LET exact == {t \in OnThread(of) : runs[t].native = of} IN IF exact # {} THEN exact ELSE {}

FindTurnByThread(of) ==
  LET exact == {t \in OnThread(of) : runs[t].native = of} IN IF exact # {} THEN exact ELSE OnThread(of)

\* turn/completed: the turn of the thread ends.
CompleteNative(found) ==
  /\ IF found = {} THEN UNCHANGED <<runs, waiting, pending, disposals>>
     ELSE \E t \in found : Finalize(t)
  /\ UNCHANGED announced

\* handleServerRequest: an approval is kept for its turn and announced; without a turn it is
\* declined.
HandleServerRequest(note, found) ==
  /\ IF found = {} THEN Respond(note.gen, note.id) /\ UNCHANGED <<pending, announced>>
     ELSE /\ \E t \in found :
               /\ pending' = [pending EXCEPT ![note.id] = [gen |-> note.gen, turn |-> t, of |-> note.of]]
               /\ announced' = announced \cup {[turn |-> t, id |-> note.id]}
          /\ UNCHANGED waiting
  /\ UNCHANGED <<runs, disposals>>

\* handleQueuedWorkerMessage: one message after the other, also after the process is gone.
HandleMessage(k) ==
  LET note == notes[k]
      found == FindTurnByThread(note.of)
  IN
  /\ \A j \in 1..(k - 1) : notes[j].gen # note.gen
  /\ notes' = RemoveAt(notes, k)
  /\ borrowed' = (borrowed \/ (Active(note.of) /\ found # {note.of}))
  /\ IF note.kind = "approval" THEN HandleServerRequest(note, found) ELSE CompleteNative(found)
  /\ UNCHANGED <<worker, prefers, agents, asks, misgiven, cancels, call>>

-----------------------------------------------------------------------------
\* The other callers: models, skills, rate limits, forking, closing and compacting a thread.
\* They send one request or several, each after the answer to the one before. They share
\* only the process with the turns: one such call is followed, before the first turn.

CallWorker ==
  /\ call.pc = "idle" /\ (\A t \in Turns : runs[t].pc = "idle") /\ EnsureCodexWorker
  /\ \E n \in 1..2 : call' = [pc |-> "ready", gen |-> worker'.gen, left |-> n]
  /\ UNCHANGED <<runs, prefers, agents, notes, approvalVars, disposals, cancels, borrowed>>

CallSends ==
  /\ call.pc = "ready" /\ Writable(call.gen) /\ worker.init = "ready"
  /\ call' = [call EXCEPT !.pc = "asked"]
  /\ UNCHANGED <<worker, runs, prefers, agents, notes, approvalVars, disposals, cancels, borrowed>>

CallAnswered ==
  /\ call.pc = "asked" /\ Writable(call.gen)
  /\ call' = IF call.left > 1 THEN [call EXCEPT !.pc = "ready", !.left = @ - 1]
             ELSE NoCall
  /\ UNCHANGED <<worker, runs, prefers, agents, notes, approvalVars, disposals, cancels, borrowed>>

CallRejected ==
  /\ \/ call.pc = "asked"
     \/ call.pc = "ready" /\ (~Writable(call.gen) \/ worker.init = "failed")
  /\ call' = NoCall
  /\ UNCHANGED <<worker, runs, prefers, agents, notes, approvalVars, disposals, cancels, borrowed>>

-----------------------------------------------------------------------------
StartMoves(t) == WorkerReady(t) \/ ResumeAnswered(t) \/ ThreadStarted(t) \/ TurnStarted(t) \/ StartTurnFails(t)
CallMoves == CallSends \/ CallAnswered \/ CallRejected
WorkerMoves == InitializeAnswered \/ InitializeTimesOut
NoteMoves == \E k \in DOMAIN notes : HandleMessage(k)

CodexNext ==
  \/ \E t \in Turns : \/ StartTurn(t) \/ StartMoves(t) \/ CancelTurn(t) \/ InterruptAnswered(t)
                       \/ AgentBegins(t) \/ AgentCompletes(t) \/ AgentInterrupted(t) \/ AgentAsks(t)
                       \/ DisposeNext(t)
                       \/ \E i \in Ids : ResolvePendingApproval(t, i)
  \/ WorkerMoves \/ HandleWorkerExit \/ ResetWorker \/ NoteMoves \/ CallWorker \/ CallMoves

CodexSpec == CodexInit /\ [][CodexNext]_codexVars

-----------------------------------------------------------------------------
\* A user's decision reaches an approval of the turn it was made for, although the ids of
\* two processes are the same numbers; and a message of an agent goes to another turn of
\* its thread only when its own is over.
CodexSafe == ~misgiven /\ ~borrowed

\* Every turn that was started ends, or its agent runs in a live process; every other call
\* of the process gets an answer or an error.
CodexAnswers ==
  /\ <>[](\A t \in Turns : Active(t) => agents[t] = "running" /\ worker.state = "up")
  /\ []<>(call = NoCall)
=============================================================================

# Specifications of AgentWaypoint

TLA+ models of the parts of AgentWaypoint (`src/`) whose correctness depends on
the order of events, failures and restarts. TLC checks them on small instances;
TLAPS proves the most important of their properties for every instance.

## 1. The system

AgentWaypoint is an API server (`src/apps/api`) that runs coding agents (Codex,
Claude) for users of a web client and of chat channels. A *session* belongs to a
*project*; in a session the user starts *turns*. A turn is dispatched to a
*runner*: the *embedded* runner inside the API process (default), or a runner
process reached over HTTP. The runner drives the agent and emits a stream of
events (text, tool activity, approval requests, the terminal event). The API
ingests these into the database, from where clients and channels read.

| component | state it keeps | operations | interacts by |
|---|---|---|---|
| Turn lifecycle (`turns.service.ts`) | turn rows: status, failure, `runnerCursor`, supervision | create, cancel, fail, reconcile every 15 s | `startTurn`/`cancelTurn` calls to the runner; sessions and channels call it |
| Event ingestion (`turns.service.ts`, `message-history.ts`) | ingestion queue, pending text batches and 250 ms timers, event write queue, active consumers; event rows and cursor | replay, ingest, coalesce, flush, append, retry, close the turn | callbacks from the runner's stream |
| Approval queue (`approval-queue.service.ts`) | approval rows (queued, pending, approved, rejected, deadline, pause); one timer per pending row | enqueue, publish, auto-approve, pause, resume, recover | called by ingestion handlers, timers, users; answers go to the runner |
| Embedded runner and backends (`runner/embedded`) | per turn: event buffer, listeners, status; active turns, pending approvals; the Codex worker process; the Claude input queue | start, emit, resolve approval, steer, cancel, dispose, finalize | agent processes; listeners in the API |
| HTTP / mock / in-process adapters | connection | the same interface | HTTP, function calls |
| Steering inputs (`turns.service.ts`, `page.tsx`) | input rows; a chain of jobs per turn; the page's list of pending inputs | post, retry, dispatch, acknowledge | runner call with a 30 s wait; the turn's event stream |
| Channel outbox (`channels*.service.ts`) | `BotMessage` rows with a 30 s lease | submit, claim, dispatch, report | channel plugins (Discord, web) |
| Discord plugin (`discord.plugin.ts`) | bindings (database and memory), messages in process, reactions and typing, connection and health | bind, handle a message, show progress, connect, recover, reconcile | outbox, turns and projects services; the Discord gateway |
| Provider settings (`settings.service.ts`, cc-switch) | lease row, provider files | switch, heartbeat, roll back | excludes turn creation |
| Terminals (`terminals`, `components/terminal`) | terminal entries, ptys, guardians, sockets; the browser's view | create, attach, type, close, idle sweep | project lock, pty process, WebSocket |
| Sessions and projects | rows, threads of the backend | create, fork, compact, close, delete | project lock for deletions; runner calls |
| Client stream (`web-app.controller.ts`, `page.tsx`) | the SSE response and its cursor; the page's chat, timeline and loads | poll, follow, reload, reconnect | durable event rows |
| Authentication (`auth`, `settings.service.ts`, `terminals.gateway.ts`) | accounts, logins, watches of logins by sockets | log in, log out, change a password, manage accounts, bootstrap an administrator | cookies of pages; WebSockets of terminals |
| Launcher (`agent-waypoint.mjs`, `local-bootstrap.ts`) | PID file, clean-shutdown marker, configuration, database and backups | start, stop, cleanup-db | signals and files |

`PROJECT.json` lists each hazard of this code at its line, with the properties
that cover it or the reason why none does, and maps each definition to the lines
it models.

## 2. What is modelled

Conventions. Each `await` of a handler is a boundary between actions; what one
database transaction, or one stretch of synchronous code, does is one action.
Payloads, texts and formatting are left out or are members of small sets. A
variable marked *history* in its module does not exist in the code: it records
that something happened which excuses a property (a fault at a step for which the
code has no answer, or a race named there), so that the property says when it
holds and not only that it mostly does. Guards do not read these variables, except
that the launcher's `halfway` also tells a first run from a later one.

### ApprovalQueue

One turn, with the part of the runner that holds approvals, the ingestion of its
events, and the approval queue.

| state | code |
|---|---|
| `turnStatus` | `turn.status`: queued, running, waiting_approval; every terminal status is `"ended"` |
| `status`, `created`, `deadline`, `paused` | the approval row: status, `createdAt` (its rank), `autoApproveAt # null`, `pausedAt # null` |
| `cursor` | `turn.runnerCursor` |
| `stream`, `asking`, `held`, `finalizing` | the runner's event buffer, requests whose event is being delivered before Claude registers them, registered pending approvals, the start of `finalizeTurn` |
| `up`, `pos`, `pc`, `seen`, `next` | consumer attached, events handled, await at which the handler stands, its read of the turn, the row being published |
| `timers`, `due` | armed timers; callbacks started whose answer is not sent yet |
| `answers` | `resolveApproval` calls on their way to the runner |
| `control` | a `pauseTimer`/`resumeTimer` between its read and its write |
| `dispatching` | the outcome of `startTurn` is open (only the failure is an action: a success starts the consumer, as the reconciliation does) |
| `userPaused` | history, for `PauseHolds` only |

The handler of `turn.approval.requested` is `EnqueueApprovalRequest;
TryPublishNext; PublishRead; PublishTx; PublishEvent`, that of
`turn.approval.resolved` is `ApprovalResolved; AppendEvent; TryPublishNext; ...`.
`PublishEvent` contains the arming of the timer, which follows without an await.
A turn starts with its consumer not attached. `TransientFailure` stops the handler
at any await named by `Interruptible`; `EnsureRunnerEventConsumer` comes back and
replays from the cursor. `RestartApi` is a restart beside a runner that lives on
(HTTP): memory is lost, timers are recovered from the rows, calls on their way may
or may not arrive.

The two backends differ where the code does: Codex registers an approval before
its event and emits `turn.approval.resolved` for what it disposes of at the end of a
turn, awaiting each; Claude registers after awaiting the event (`RegisterApproval`),
reports requests the agent withdraws (`AbortApproval`), and at the end of a turn
disposes silently, in one step with the terminal event.

### EventLog and EventIngestion

`EventLog` is the promise: a log that grows by the next event, or by a run of
events of one coalescing key. `EventIngestion` is the code: `stream` is the runner's
buffer (the index is `runnerSeq`), `consumer` and `pos` are the consumer's replay,
`queue` the per-turn ingestion queue, `pc` and `seen` the handler of its head,
`pending` the coalescing map in insertion order (`armed` = its timer is set),
`writes` the event write queue with the parties that await each write, `log` the
event rows. The cursor is the largest `runnerSeq` in `log`, since one transaction
writes both. `LogSpec` states that the code implements `EventLog` with the two
shared variables.

Event kinds: a member of `Keys` is text that coalesces; `"fact"` is an event
that flushes and appends; `"plain"` is one that appends without a flush of its own
(`turn.started`, auto-review); `"end"` is the terminal event of history version 2,
whose status change commits with its row. `remote` chooses between the embedded
runner (replay, then a listener) and the HTTP runner (`RemoteEvent`: a replay that lasts
until the terminal event, and an API that can restart).

### TurnEnding

How a turn is closed, in both history versions: the handler of the terminal event
(`"ingest"`) and `failTurn` (`"fail"`), each of which flushes the text and the
context usage before it writes the end (`closer` says where they stand). `feed` is
the runner's stream, `batch` the pending text, `textOut` the event write queue,
`usage` the pending and flying usage writes, `row` what is durable. A turn of
version 1 commits its answer and status before it appends its terminal event; one of
version 2 ends with the transaction of that event. `EndingSafe`: the one answer has
all the text handled before it, no usage is left to be written over an ended turn
and what is stored is no older than any report up to where the consumer stands,
and no turn ends without its terminal event. (A stream that breaks again while it is
replayed leaves the usage of the replay, which is older than one handled before;
`UsageSettled` says so by its bound.) History: `mixed` (failTurn ran beside the
queue), `usageBlurred` (a usage write failed, which nothing repeats, or two
overlapped), `taken` (events handled).

### TimelineRows and AgentTimeline

`TimelineRows` holds pure operators: the summary of an event the API sends
(`Summarize`), the fold of events into the rows of the page (`mergeTimelineEvent` and
what it calls), and the output of a command fetched by reference. `AgentTimeline`
drives them: the tools an agent uses, from Codex notifications, or from Claude's
message loop with its tool hooks running beside it, either of which may be first to say
that a tool started (`started` is `startedToolCallsByTurn`). `TimelineSafe`: one row per
tool however hooks overtake the loop, output that a row announces can be fetched and is
whole, each piece of text is there once, the last diff has every completed edit.
Simplified: a Claude tool that was denied has no hook, so its row stays running as in
the code; `tool_progress` and summaries are pieces of command output; partial deltas
suppress the whole message by the same flag as in the code.

### TurnLifecycle

The turns of one session on the embedded runner with the Codex backend (the
default), in history version 2. Three parties hold a view of a turn:

| state | code |
|---|---|
| `status`, `cursor` | the turn's row; `waiting_approval` counts as running |
| `launch` | how far `startTurn` is: `resolving` (the workspace), `rejected`, `starting` (`turn/start` sent), `accepted` (native turn runs), `identified` (native id known), `done`, `lost` (after a restart or a rejected dispatch) |
| `registered`, `stream` | `activeTurns`, the event buffer |
| `agent` | native turns that run in the app server |
| `consumer`, `pos` | the consumer: replaying, listening; `missing`/`broken` (its call was rejected), `asking`/`interrupting` (its `cancelTurn`), `closing` (its `failTurn`) |
| `queue`, `pc`, `seen` | ingestion queue (`seq` 0 is the cancellation of an orphan; `live` says the sender still waits), the handler of its head |
| `cancel` | a user's `cancelTurn`: asking, interrupting, ingesting, or refused with an error |

The stream holds `turn.started` and the terminal event only; text and approvals are
the business of the other modules. The session has a thread already, so a
notification of a native turn without a turn in the runner is attributed to any other
active one, as `findTurnByThread` does. An interrupt may fail, which the code ignores: the native turn goes on. The app server answers `turn/start` before it
reports the end of the turn. It does not outlive the API.

### ProviderSwitch

Several API instances over one database: `lease` is the `RuntimeControl` row,
`switch` where each instance stands in `updateCcSwitchProviders`, `provider` the
configuration of the two backends, `turnActive` what the admission check reads. Each
command, heartbeat, rollback and release is an action; leases expire under a
stalled holder, processes die. `SwitchSafe`: no turn is active while the holder of a
live lease runs a command, and when all is idle both backends are on the same side,
unless a fault at a place without rollback left them apart (`disturbed`).

### ProjectSessions

One project, its sessions (`sessions`, by slot), the threads the backend keeps
(`thread`), what the runner serves, and overlapping requests (`job`) to create, fork,
compact, close, delete and change them. Only deletions take the project's lock
(`lock`), as in the code. `SessionsSafe`: a thread remembers the history of its
session, no two sessions share one, none is left open, no agent runs for a session that
is gone or being compacted, a session has its project's backend and its last accepted
settings. `crossed` names the sessions that changed between a check and its use, where
the code holds no lock; these are excused, so the property is about what each request
checks, reads and cleans up, and about requests that do not cross. Without the excuse its
parts fail: a turn created while a deletion awaits the closing of the thread
(`sessions.service.ts:461`) is deleted with its session, and its agent goes on.

### Delivery and Outbox

`Delivery` is the promise for each message: it reaches targets only after it was
submitted, it is settled once, one settled as sent has reached every target bound to
all sessions, and nothing is handed out afterwards unless a fault disturbed its sending.
`Outbox` is the code:

| state | code |
|---|---|
| `row`, `rowKind`, `lease` | the `BotMessage` row: status, whether it is an event, `leaseExpireAt` |
| `dispatching`, `requested`, `aborted` | flags of the gateway; history: the last loop died of an error |
| `loops` | invocations of `dispatchLoop`: pulled batch, `resolve`, `claim`, `hydrate`, `send`, `reportSent`, `reportFailed` |
| `wakes` | rows whose wake-up is not published yet (`queue-signal.service.ts`) |
| `late` | sends of a `Promise.all` that nobody waits for any more |
| `inbox` | what each target got, in order |
| `excused` | history: rows whose sending a fault disturbed |

The web plugin is bound to every session, so a row always has a target and
`markSentWithoutRecipients` is not reached. `KeepsPromise` states that the outbox
implements `Delivery`; `OutboxSafe` says what the abstract module does not: duplicates
and late events only after a fault, and no lost wake-up.

### DiscordBindings, DiscordInbound, DiscordReactions, DiscordRuntime

`DiscordBindings`: handlers (`task`) compute a whole configuration from the one in memory,
write it to the database (`stored`) and then to `memory`, while the reconciliation
replaces the runtime; `OneSessionPerTarget`. `DiscordInbound`: a message arrives as an
event and as a raw packet with a timer; one handler steers the active turn or creates one,
tries again after a conflict, and publishes; `ActedOnce`. `DiscordReactions`: reaction
and typing calls that overlap. `DiscordRuntime`: logins, the limited recovery and
the chain of health writes. A health write can fail, and nobody repeats it; a login that a
stopped runtime still waits for is written all the same when it succeeds, also after a
successor has taken its place (`strays`). `HealthIsTrue` therefore says: at rest, the row is right unless
the last health write failed or came from a runtime already stopped (`amiss`); that writes
overtake each other or that an armed recovery is forgotten is not excused. `PluginSettles` and `InboundAnswered` are their
liveness. Read-only slash commands, attachments and layout are left out.

### SteeringInputs

Messages sent to a running turn: `posts` are the requests of the page, with the points
between check, insert and answer; `inputRows` the rows; `jobs` the chain of
`steerQueues`; `calls`, `held` and `sent` the runner's side; `history` the turn's
events about inputs; `list` and `view` the page. A request may be repeated with the same
client id, its answer lost, the API restarted, the 30 s wait run out, the turn end.
`GivenOnce`: the runner gets an input once, and one reported as failed is not with the
agent. `misread` excuses the case in which the code takes a call without an answer for a
refusal; `lagging` inputs of which the page was told out of date.

### ClientStream

One turn as a browser sees it: durable events (`log`), the polling SSE response
(`conn`, `wire`), the page's `EventSource`, its history and timeline loads with the
stale-answer guards (`current`, `owner`, `buffer`), and what it shows (`chat`, `panel`).
`ClientSafe`: the chat is an unbroken prefix, the timeline has no hole; `EndIsSeen`: a
page that watches notices the end. History: `left` (a failed request, the user or a lost reload took
the page away), `seams` (cursors at which a reload that keeps the panel resumed), and `rival`:
`handleSendTurn` opens its stream although a newer load is in flight (`page.tsx:2966`), which then
replaces the chat and the timeline under a running stream; `ClientSafe` excuses this, and gaps behind a seam.

### ClaudeBackend and CodexWorkers

`ClaudeBackend`: the loop of `startTurn`, the `AsyncInputQueue`, `requestToolApproval`,
cancellation and `finalizeTurn`, each able to end the turn while another waits.
`ClaudeSafe`: the agent gets the decision the user made, one terminal event, no accepted
steer is thrown away by a completed turn. `CodexWorkers`: one app-server
process for all turns, its exit and respawn, the notification queue, approvals keyed by
ids that a new process counts from 1 again, and another caller of the process (`call`,
followed before the first turn only). `CodexSafe`: no decision reaches another
turn's request and no notification another turn while its own is active.

### Terminals and TerminalViews

`Terminals`: creation under the project's lock, guardian and gate, the output chain
(`tail`), snapshots, control, closing, sweep, deletion of the session, shutdown and
crash. The close that follows a failed start can fail unheard, the guardian can end while the API
lives, and its last cleaning can fail. `TerminalSafe`: a connection gets a snapshot and every chunk
after it; a deleted session has no shell but one that strayed (its terminal was closed while it
started) or was abandoned (its start and the close after it failed), and the guardian still knows that one
unless it ended without killing it (`survived`). `NoShell`, part of `TerminalsSettle`: an API that is gone
leaves no shell, of these neither, unless the guardian could not kill it. An abandoned shell has no
terminal that could be closed again, because the entry is dropped whether or not the close failed
(`terminal-process.ts:129`). `TerminalViews`: browsers with tickets, sockets and reconnections
over the same service. `ViewSafe`: each piece of output on its way to a view continues what
is on its way before it, or what the view shows (`NoGap`), and a view that received
everything agrees with the terminal on output, control and end. The retry of a connection is the
stage `asking`; the server's reasons to give a socket up (backlog, heartbeat,
revocation) are one action; xterm draws at once.

### Launcher

`start` with its first run, `stop` and `cleanup-db` as the stages of one command (`cmd`)
over the files, against kills, dying processes and loss of power. The API of a start is a process
group: `wrappers` are the pnpm processes that started them, which can end alone. `start` and
`cleanup-db` look at the wrapper only, `stop` at the group. `LauncherSafe`: the
clean-shutdown marker vouches for a database that was written back, a spoiled database
has a backup, whoever serves has an administrator. A command that takes an API for gone, or
leaves it unnamed, ends what the marker says (`orphaned`), as does a stop after an unnoticed
loss (`blind`, `lost`). So with the wrapper and the web process gone, `cleanup-db` works on the database
of an API that serves (`agent-waypoint.mjs:298`); the model reaches this. History also: `halfway`.

### Accounts

Accounts, logins and who may act with them: `account` and `login` are the database rows,
`cookie` and `shows` a browser's, `request` the request of its page with the points
between guard, reads and write, `link` the WebSockets of terminals, `script` the
bootstrap of an administrator. A page has one request at a time; several pages overlap.
`AccountsSafe`: an active administrator is left (`AdminRemains`; nobody demotes or disables
himself, by a check before the write), and a logout reaches every socket of its login
(`RevocationReaches`: the watch of a socket begins after its login was read, so a
socket may be set up on a login that is gone; the heartbeat finds it, `SocketsFollowLogin`).
History: `crossed` (an account was changed for one who had lost the role between the guard
and the write), `late` (sockets set up after the revocation). These are the two races the code leaves
open, so `AdminRemains` comes to the check against oneself, which every edit must pass, and
`RevocationReaches` to the sockets that watched in time; two administrators who take each other's
role at the same moment can leave none. Left out: the
development header, the time a login was last seen, the policies for other ways to log in.

### Compositions

Components that share state are one module (the approval queue with the runner and
ingestion it depends on; the turn's row with its three parties; the outbox with its
targets). The `MC` modules bring together models that look at the system with different
detail and share no variable: `MCIngestion`, `MCTurns`, `MCChannels`, `MCServices`. There
a behaviour is one of a single `part`, chosen at the start; its
fairness is that part's own, and a composite property is the conjunction of theirs.
`MCServices` looks at the accounts in two parts that are small enough for TLC: two
`administrators` who take roles and access away, and all that may happen to the `logins` of
one page and their sockets. Created, promoted and enabled accounts and reset passwords are
not run; the theorem about the accounts covers them.

## 3. Runs

| run | specification | shows |
|---|---|---|
| `approvals_recover` | `MCApprovalQueue`, `FairSpec`, Codex, 1 fault between events or before an event's first write | the database and the runner agree on open approvals, and the turn's status says whether one is visible (`ApprovalsAgree`), order (`PublishedInOrder`), every approval is published (`QueuedIsPublished`), deadlines over restarts (`AutoApproved`) |
| `approvals_faults` | `MCApprovalQueue`, `Spec`, both backends, pausing, 1 fault at any await or a dispatch reported as failed | `OnePending` whatever fails |
| `approvals_queue_stuck` | as above, Codex only | violation, see section 6 |
| `approvals_pause_lost` | 1 request, 1 restart between events | violation |
| `ingestion` | `MCIngestion` | the ingestion implements `EventLog` (`LogSpec`), accepts events as a gapless prefix (`AcceptedInOrder`) and delivers the terminal one (`Delivered`); `EndingSafe`; `TimelineSafe` |
| `ingestion_timer_loss` | `MCEventIngestion`, timer writes may fail | violation |
| `ingestion_two_emitters` | `MCEventIngestion`, 2 emitters | violation |
| `turns` | `MCTurns` | one active turn (`OneActive`), an ended turn stays ended, no turn is stuck without an agent (`NotStuck`), a cancelled turn ends or the user gets an error (`CancelEnds`); `SwitchSafe`; `SessionsSafe` |
| `turns_revived` | `TurnLifecycle`, an event may overtake one whose write failed | violation |
| `turns_agent_left` | `TurnLifecycle`, 1 turn, no faults | violation |
| `channels` | `MCChannels` | the outbox implements `Delivery` (`KeepsPromise`) and is safe (`OutboxSafe`); the safety of bindings, inbound messages, health and steering; everything settles (`MessagesSettle`, `PluginSettles`) |
| `services` | `MCServices` | the safety of `ClientStream`, `ClaudeBackend`, `CodexWorkers`, `Terminals`, `TerminalViews`, `Launcher` and `Accounts`; a page notices the end (`EndIsSeen`), a turn follows its agent (`TurnFollowsAgent`, `CodexAnswers`), terminals and their views come to rest and leave no shell that a guardian could kill, and no socket outlives its login (`TerminalsSettle`) |

### Bounds, and why they are enough

- *Approvals*: 2 requests, 1 fault, `MaxAnswers` = 1. Two requests give all that the
  queue distinguishes: a visible one and one behind it, either raised first. The handlers keep
  no history beyond the rows, so a third repeats the second's relation to the first. One
  fault hits each await once; the retry is the same handler over the rows left behind.
- *Ingestion*: 2 keys, 3 kinds, 4 events, 2 faults: a text batch, text of the other key, a
  fact and the terminal event in all orders; a failure and another during its
  recovery. `TurnEnding`: 3 events (text, usage, end), 1 fault. `AgentTimeline`: 1 command,
  2 edits and 1 task, 3 pieces of work, 1 print: two tools that overlap and a message between
  them.
- *Turns*: 2 turns (one that late handlers write to, and its successor), 1 cancellation,
  1 fault. `ProviderSwitch`: 2 instances, 2 faults (a command and its rollback), 2 turns.
  `ProjectSessions`: 2 callers, 2 slots, 3 threads, 3 calls (a setup and two that overlap),
  1 failed closing or resumption.
- *Channels*: 2 rows, 1 binding beside the web plugin, 2 slots for dispatch loops, 1 fault; two
  rows are needed for order and a batch. The case of two bindings that a run of this size does
  not reach is covered by the theorem (section 4). 2 messages in and 2 noted, 2 login attempts,
  2 changes of the integration, 2 handlers over 1 channel with 1 thread, 2 projects and
  2 sessions; 1 input with 2 posts and 2 faults: a request and its repetition, a
  loss and a restart.
- *Services*: 3 events in pages of 1, 2 loads, 1 disturbance; 2 steers, 1 tool, 3 messages; 2
  turns, 2 worker processes, 2 approvals (the same id in both processes); 2 connections, 2
  chunks, 1 fault; 2 browsers and 2 sockets, 1 piece of output, 1 key, 1 upset; 2 starts and 2
  faults of the launcher (a lost process and a loss of power); 2 accounts, logins and pages
  (one administrator acts while the other is acted upon), 1 socket, 2 changes (each takes
  something from the other), 1 restart or lost answer.

`CHECK_DEADLOCK FALSE` everywhere: a turn that has ended has nothing left to do,
one whose agent waits for a user may wait for ever, and the bounds end the rest.

The passing runs leave out what the violating ones show. `approvals_recover` has no fault
between the recording of a resolution and the promotion of the next approval, where
one sticks the queue (`approvals_queue_stuck`), and no pausing, which a replay undoes
(`approvals_pause_lost`); `approvals_faults` leaves nothing out and keeps the property
that holds then. `ingestion` has one emitter and no failing timer write; `turns` lets no
event overtake a failed one.

### Fairness

- Handlers, database writes and the consumer (`Ingestion`, `Handler`,
  `AppendEventNow`, `Consumer`): promise chains run; a failed consumer is restarted
  by its 1 s retry timer or the 15 s reconciliation.
- `DisposePending \/ RunnerEnds`: a runner that began to finalize goes on. Per request,
  timers and their callbacks, the write of a pause or a resume, and the delivery of an
  answer: `setTimeout`, the event loop, and a call to the runner.
- Per turn in `TurnLifecycle`: its launch (a resolved workspace, an answer of the app
  server within 15 s), its consumer, its handler, a cancel call.
- Outbox: each dispatch loop (its awaits return, sends time out), the lease and wake-up
  timers, sends left behind, the 5 s poll and the restart of the process. Bindings: each
  handler, and the periodic reconciliation. Inbound: each handler and its fallback timer.
  Reactions: calls that return in 20 s at the latest, and the heartbeat. Connection:
  writes (done or failed), the recovery timer, logins that succeed or fail, of replaced runtimes
  too, the reconciliation. Steering:
  requests, the chain, the page and the runner go on.
- Client: polls, the browser's own reconnection, delivery, loads. Claude: the loop over
  messages. Codex: starts, calls, the worker's exit and answers, notifications, answers
  to interrupts. Terminal: registration, the guardian, the task chain, its closing, the
  sweep. Views: one assumption for all that a view and the server do by themselves.
  Logins: a socket that was asked for is answered, its heartbeat fires and is answered.
- None for the provider switch, the sessions, the launcher, the administration of accounts, the
  ending and the timeline, which have safety properties only.

Not assumed: that users answer, that an agent ends its turn, that a flush timer
fires before the terminal event's own flush. Faults are bounded, so the liveness properties
speak of what happens once failures stop.

## 4. Proofs

Eight modules of proofs. Each theorem holds for all values of the constants that satisfy
the module's `ASSUME` (no bound of section 3 is used), and for the specification without
fairness. Those inductive invariants that TLC can evaluate (of the outbox, the lifecycle, the
steered inputs, the host, the backends, the approvals, the ending and the sessions) also hold on the instances of section 3.

| module | theorems | hypotheses |
|---|---|---|
| `ApprovalQueue_proofs` | `TypeCorrect`, `OneApprovalAtATime`, `VisibleInOrder`; `RowsAgree`, `OpenWhenHeld`, `WaitsWhenVisible`, `NoneLeftBehind` | none; `Finishes` |
| `TurnLifecycle_proofs` | `TypeCorrect`; `OneActiveTurn`, `EndedForGood`; of `ProjectSessions`: `SessionsInvariant`, `SessionsAreSafe` | none; `~Overtaking`; none |
| `TurnEnding_proofs` | `EndingInvariant`, `EndingTyped`, `EndingIsSafe` | none |
| `EventIngestion_proofs` | `InOrder`, `CursorVouches`, `Implements` | `Careful` |
| `Channels_proofs` | of the outbox: `OutboxTypes`, `OutboxIsSafe`, `OutboxKeepsPromise`; of the Discord plugin: `ActsOnce`, `ShowsItsHealth`, `OneSession` | none |
| `SteeringInputs_proofs` | `SteeringInvariant`, `InputsGivenOnce` | none |
| `Backends_proofs` | `ClaudeIsSafe`, `CodexIsSafe` | none |
| `Host_proofs` | `SwitchIsSafe`, `TerminalIsSafe`, `ViewsInvariant`, `ViewsAreSafe`, `KeepsItsFiles`, `AccountsInvariant`, `AccountsTypes`, `AccountsAreSafe` | none |

The hypotheses are the conditions under which the code is right, and runs show that it is
not without them: `turns_revived` drops `~Overtaking`, `ingestion_two_emitters` and
`ingestion_timer_loss` drop the two parts of `Careful == OneEmitter /\ ~TimerWritesMayFail`,
`approvals_queue_stuck` lets a fault hit where `Finishes` does not. `Finishes` is: a Codex turn
(Claude answers the requests left at its end without an event), a dispatch reported as it went,
and no fault between a handler's first write and its last; any number of faults and restarts may
hit before its first write and between events, and automatic answers, pauses and users are free.
The passing runs have the same settings, so they are states the program is in: one event at a
time from the runner, and a write that fails with nothing queued behind it.

**One pending approval.** `OnePending` is not inductive: `PublishTx` sets a row to
pending without looking at the others. `OneInv` adds that while a handler stands at
`publishRead` or `publishTx` nothing is pending. `TryPublishNext` establishes this by its
count, and nothing else makes a row pending, as one handler of the turn runs at
a time; answers, timers, failures and restarts only take rows out of pending or move
the handler away.

**The order of approvals.** `PublishedInOrder` compares `createdAt`, and is an action property of
`PublishTx` alone; what it needs is far from there. `OrderInv`: a request is raised once
(`RaisedOnce`); rows are numbered as the stream raises them, without leaving one out, also when a
replay writes a row again (`Numbered`); every request up to the cursor and up to the handler's
position has its row (`Reached`); a handler stands at an event of its kind (`Handling`), and what
it is about to publish is the oldest row that waits (`Chosen`). All of it survives a fault at any
step, since a failed handler leaves rows behind but never a gap.

**What the API and the runner agree on.** `AgreeInv` relates the rows to the stream by the
handler's position. A request is *settled* when its answer is behind the cursor, or is what the
handler is appending. The agent's requests are answered oldest first (`OldestFirst`: the API only ever
answers the visible one); the rows of the settled requests are closed and all others are open
(`OpenRows`); of these the oldest is visible unless the handler is publishing (`FrontIsPending`); and
the status tells whether one is (`StatusTells`). Each part needs the others: the row that the next
answer closes is the visible one because the visible one is the oldest open one, and that is
so because answers came in order. A caught-up API has all events behind its cursor, so the open
rows are the unanswered requests.

**One active turn.** `LifecycleInv` adds to the types: a consumer that gives its turn up,
or has no stream, leaves no event of the stream in the queue (`Quiet`); only a stream is followed (`Follows`); nothing is
launched for a turn that does not exist (`NotLaunched`); what a handler read of the turn it is about to
mark is still so (`Marking`). `Marking` is what `turn.started` needs, since it
writes a status it read before an await, and `Quiet` is what keeps it when `failTurn` ends a turn
without asking the queue. `OneActive` follows as every action that makes a turn active has a guard
or `Marking`.

**The end of a turn.** `EndingInv` has fifteen parts; those that carry the argument follow what
must not be lost. Text that was taken is in exactly one place: in the row, in the batch, or in one
queued write (`TextKept`), so a closer that finds neither batch nor queued text has all of it
(`Collected`), and gives it while the turn still runs (`Running`), hence once (`Answers`). The
newest usage is the one pending, else the one in flight, else the one stored (`Newest`); a closer
past its usage flush has none of the first two (`Settled`), and nothing is taken after the end that
could bring one (`Quiet`). An end that is not in the log is in the queue, about to be sent, or was
refused (`Logged`). Who waits for what (`Waiters`, `Owned`, `UsageWaiters`) decides who goes on
when a write succeeds and who gives up when it fails. `mixed` guards what failTurn breaks when it
runs beside the queue.

**The log.** The prefix property is about log, queued writes and pending batch together.
`IngestionInv` says that there are cut points `h` such that the log reaches to `h[0]`, write
`i` from `h[i-1]` to `h[i]` and the pending batch from there on (`Chain`), and that
the next event of the consumer follows the last one (`Position`); `Control` (one party
works on the turn at a time), `Waits` (who waits for which write) and `Pure` (only text of one key is
merged) make each step move one cut point. A restart drops the tail of `h`, a failed write joins two
parts again. `Implements` is the refinement of `EventLog` by two shared variables:
`AppendEventNow` is the abstract append of the interval between two cut points, `Emit` the
abstract emission, everything else a stutter.

**The outbox.** `OutboxInv` has one part for each way it could go wrong: one loop at a time
(`Single`); the rows a loop pulled are distinct and still claimable until their turn comes (`Lists`);
the web plugin is among the targets and is served before a report of success (`ToWeb`); a row in
`sending`, and a send left behind, has somebody who sends it or was disturbed
(`Attended`); nothing was sent before it was claimed (`Filed`); an undisturbed row
is sent once per target (`Singly`), and after the events older than it (`Aged`); a loop
that found nothing is asked again (`Woken`). The lease shows up in `Attended`: it may expire
under a loop that is merely slow only together with `excused`.

The refinement taught something about the promise. With two or more bindings the first
version, in which nothing is ever handed out after its settlement, is false: a lease
expires during a send, one target's send fails while another's stays in flight, the report is lost, the row
is claimed again with fewer targets and reported as sent, and then the old send arrives. One binding,
as in the run, cannot show it. `Delivery` therefore has `disturbed`, a part of its state
that says which messages may still be handed out late, and the outbox maps its `excused` to it.

**Steered inputs.** `SteeringInv`: whoever answers or dispatches has a row (`Filed`); an input has
one dispatcher, first the request that created its row, then its job (`Dispatched`); before
its job is claimed the runner has nothing of it (`Given`); and every place that says "failed" (row,
events, answers to requests, the history a page loaded, the page's list) says it of an input the
runner will not get (`Truthful`). The last is needed in all places at once, because the page believes
the oldest of them it hears.

**The Discord plugin.** Inbound: a message is in `processing` exactly while its handler
runs, and was acted on once when it is processed or only its publication is left.
Health: what the row will show in the end (`Final`) is what the last write under way says or, with none
under way, what the last one that ran left; it is right (`Says`) when neither is amiss and nothing else is
under way, and each step that starts or ends something else also queues the write that keeps it so. Bindings: every configuration anywhere (database, memory of each runtime,
carried by a handler between its two writes, read by the reconciliation) keeps targets apart, since it is
made by an operator that moves a target from whatever had it.

**Claude.** A request nobody decided has no decision (`ToolInv`), so disposing of the pending ones
at the end of a turn overrides nobody; the end happens once and stops the agent (`EndInv`); until
then an accepted steer is heard or still in an open queue, and a turn waits out its grace period
with an empty one (`QueueInv`), which is why a result that concludes the turn loses none.

**Codex.** `CodexInv`: native turns and threads belong to their turn, except the thread of a
session, of which one turn is active at a time; every message in the queue is of a turn whose
thread is known. So the thread of an active turn leads to that turn alone, although
`findTurnByThread` falls back to any active turn of the thread.

**The switch of the providers.** `SwitchInv`: no turn is active while a lease is held, expired or not; an
undisturbed switch has a live lease of its own, so there is one, and `provider` is what its list of
finished commands says (`Consistent`), in every stage and on the way back. A process that stalls
past its lease shows that the last part holds only while `~disturbed`.

**The sessions.** `SessionsInv` says which threads a session may still go on with: that of its row,
of its agent, and the copy a fork has made and not yet given away. Each has one owner (`OneOwner`,
`CopyApart`, `CopyAlone`) and remembers the history of its session up to the message an agent is
starting with (`Memory`, `Copies`). No agent serves a session about which a request is past its
check, unless they crossed (`Untouched`); a deletion has the thread of what it deletes, and
has closed it before the row goes (`Closing`). A new thread is the least unused one, so its
freshness needs that a set of numbers has a least member, which is proved from the library's
`WFMin`.

**A terminal.** Two invariants. `ProcInv`: who works under the project's lock is at its head (`LockInv`),
so a deletion sees no creation half done; and a live shell is being started, is known to an
entry that has still to close it, or was lost by one of the two faults named in `TerminalSafe`, while the
guardian knows it in any case (`ShellInv`). A gate that a failed start left behind can still become a shell,
if the guardian was not reached. `ScreenInv`: a live connection ends with the last chunk
taken, and at most one snapshot is on its way to a connection, which is not live.

**The views of a terminal.** `ViewSafe` speaks of a view that has received everything; the
invariant speaks of all that is on its way. `Silent`, `Good` and their parts say that the messages
on their way to a view end with what the terminal is: the last one that names control says who
has it (`WillControl`), one says the end if it has ended (`WillEnd`), and the last output is the
terminal's (`WillCount`); a message handled or sent shifts this by one place. A view holds a socket
of its own (`OnSockets`), says goodbye only on one it left (`SaysBye`), and a terminal that does not run
has no controller (`Controlled`).

**The accounts.** `AccountsInv`: a request past its guard that takes something away is about another
account than the one it acts for (`NotHimself`), so the actor is the administrator who is left,
or has lost the role meanwhile, which is `crossed`; a logout that has found a login is about to
revoke it and then tells the sockets that watch it (`FoundLives`).

**The launcher.** `LauncherInv`: each command has its stages (`Staged`) and its claim on the PID file
(`Recorded`); the only API alive is the recorded one or about to be (`Named`); a cleanup has its backup
until the database passed its check (`BackedUp`); a command that goes on beside an API whose wrapper is
gone has orphaned it (part of `Recorded`); no API before its administrator (`Administered`); and `Vouched`, which follows the damage of a database through all stages and is what
`MarkerIsTrue` rests on.

### What is only model-checked

- Liveness and everything under fairness: `QueuedIsPublished`, `AutoApproved`,
  `Delivered`, `NotStuck`, `CancelEnds`, `MessagesSettle`, `PluginSettles`,
  `EndIsSeen`, `TurnFollowsAgent`, `CodexAnswers`, `TerminalsSettle`. TLAPS has no rules for it here,
  nor for `ENABLED`.
- `TimelineSafe`: its rows and outputs are folds and filters over the events, so that a proof would
  be an induction over data. The induction theorems of the library take an operator as a
  parameter, which none of the installed provers instantiates; the least member of a set of
  numbers (above) is what can be had.
- `ClientSafe`: within reach, not done (section 5).
- The type invariants of the compositions, of which the parts are proved where they are listed above.

## 5. Not modelled, and what is next

| left out | why |
|---|---|
| turn creation and display in `page.tsx` beyond one turn, selection, settings dialogs | user interface; `ClientStream` has the loads and streams that race |
| mock and in-process runner adapters | a scripted runner for tests, a pass-through |
| NDJSON framing of the HTTP runner | conversion without state; lost connections are consumer failures |
| the development header, other ways to log in, shared contracts, scripts other than the launcher | no protocol |
| texts of history messages, plans (last write wins), layout | wording |
| the cut of the event buffer at 1000 events | a cursor before the cut is the only way to see it, out of reach for TLC; listed as a hazard |
| a remote runner in `TurnLifecycle` | `ApprovalQueue` has the dispatch that fails late |
| terminal limits, reuse of creation requests | one terminal is modelled |
| read-only Discord commands, attachments | no state |

Next, most important first:

1. A proof of `ClientSafe`.
2. Models of more of `page.tsx` (selection and loads over several sessions) and of the
   conversion of agent messages into events.

## 6. Findings

- **A queued approval can be stuck** (`approvals_queue_stuck`): the event that
  resolves an approval is durable before the next one is promoted
  (`turns.service.ts:919`); a failure in between leaves the queue without a caller.
- **A pause can be lost** (`approvals_pause_lost`): replay of the request resets the
  row (`approval-queue.service.ts:54`) and arms a new timer.
- **A text batch can be lost** (`ingestion_timer_loss`): a failed timer flush is dropped
  when a newer batch of its key is open (`turns.service.ts:1255`).
- **An event can be skipped** (`ingestion_two_emitters`): an event queued behind a failed
  one is still ingested and moves the cursor (`embedded-runner.service.ts:204`).
- **A closed turn can be revived** (`turns_revived`): `turn.started` writes the status
  from an earlier read (`turns.service.ts:796`) and `failTurn` does not wait for it.
- **A native turn can be left running** (`turns_agent_left`): a turn closed while it is
  launched is launched all the same (`codex-backend.ts:229`).

## 7. Running

    tlc -config approvals_recover.cfg MCApprovalQueue.tla      # approvals_*: MCApprovalQueue
    tlc -config ingestion.cfg MCIngestion.tla
    tlc -config ingestion_timer_loss.cfg MCEventIngestion.tla  # also ingestion_two_emitters
    tlc -config turns.cfg MCTurns.tla
    tlc -config turns_revived.cfg TurnLifecycle.tla            # also turns_agent_left
    tlc -config channels.cfg MCChannels.tla
    tlc -config services.cfg MCServices.tla

    for m in ApprovalQueue TurnLifecycle TurnEnding EventIngestion Channels SteeringInputs Backends Host
    do tlapm ${m}_proofs.tla; done

Each passing run takes one to four minutes on two cores; the proofs take from
half a minute to some ten minutes each.

--------------------------- MODULE ProjectSessions ---------------------------
(***************************************************************************)
(* A project and its sessions: each operation reads rows, waits for the    *)
(* runner, and writes. Only deletions take the lock of the project, so     *)
(* that the operations of two callers interleave between their awaits.     *)
(* (projects.service.ts, sessions.service.ts, terminal-lifecycle.ts,       *)
(* createTurn of turns.service.ts, forkThread, closeThread, compactThread) *)
(***************************************************************************)
EXTENDS Naturals, Sequences, FiniteSets

CONSTANTS
  Callers,       \* requests of users that may overlap
  Slots,         \* rows a session may occupy; a deleted one is not used again
  MaxThreads,    \* bound on the threads of the backend
  MaxCalls,      \* bound on the requests made
  MaxThreadFaults\* bound on failed closings and resumptions

ASSUME SessionsAssumption ==
  MaxThreads \in Nat \ {0} /\ MaxCalls \in Nat /\ MaxThreadFaults \in Nat

VARIABLES
  project,      \* [exists, backend]
  sessions,     \* per slot, the row; "messages" counts its history
  turnRow,      \* the session's turn: active or not
  served,       \* what the runner runs for the session, on which thread
  thread,       \* the threads of the backend, and how many messages each one holds
  job,          \* per caller, where its request stands and what it has read
  lock,         \* withProject: the callers that hold or wait for it, in order
  calls, threadFaults,
  wanted,       \* history: the settings last accepted for a session
  crossed       \* history: sessions changed between the check of a request and its use

sessionVars == <<project, sessions, turnRow, served, thread, job, lock, calls, threadFaults, wanted, crossed>>

Threads == 1..MaxThreads
NoThread == 0
Other(b) == IF b = "codex" THEN "claude" ELSE "codex"
First == CHOOSE s \in Slots : TRUE
NoSession == [row |-> "none", backend |-> "codex", own |-> FALSE, thread |-> NoThread,
              model |-> 0, auto |-> 0, messages |-> 0]
NoAgent == [st |-> "none", thread |-> NoThread]
NoJob == [op |-> "none", pc |-> "idle", slot |-> First, threads |-> {},
          row |-> NoSession]

Exists(s) == sessions[s].row = "kept"
Existing == {s \in Slots : Exists(s)}
ActiveTurns == {s \in Slots : turnRow[s] = "active"}
\* The slots a request of this caller is about.
About(c) == IF job[c].op \in {"none", "backend"} THEN {}
            ELSE IF job[c].op = "deleteProject" THEN Existing ELSE {job[c].slot}
Busy(s, c) == \E d \in Callers \ {c} : s \in About(d)

SessionsTypeOK ==
  /\ project \in [exists : BOOLEAN, backend : {"codex", "claude"}]
  /\ sessions \in [Slots -> [row : {"none", "kept", "gone"}, backend : {"codex", "claude"},
       own : BOOLEAN, thread : 0..MaxThreads, model : 0..1, auto : 0..1, messages : 0..(2 + 2 * MaxCalls)]]
  /\ turnRow \in [Slots -> {"none", "active"}]
  /\ served \in [Slots -> [st : {"none", "starting", "running"}, thread : 0..MaxThreads]]
  /\ thread \in [Threads -> [st : {"unused", "live", "closed"}, holds : 0..(2 + 2 * MaxCalls)]]
  /\ \A c \in Callers : job[c].threads \subseteq Threads
  /\ \A i, k \in DOMAIN lock : i # k => lock[i] # lock[k]
  /\ calls \in 0..MaxCalls /\ threadFaults \in 0..MaxThreadFaults
  /\ crossed \subseteq Slots

\* A project that is new, or one with a session whose first turn is over.
SessionsInit ==
  /\ \E b \in {"codex", "claude"} : project = [exists |-> TRUE, backend |-> b]
  /\ turnRow = [s \in Slots |-> "none"] /\ served = [s \in Slots |-> NoAgent]
  /\ \/ /\ sessions = [s \in Slots |-> NoSession]
        /\ thread = [t \in Threads |-> [st |-> "unused", holds |-> 0]]
     \/ /\ sessions = [s \in Slots |-> IF s # First THEN NoSession ELSE
                       [NoSession EXCEPT !.row = "kept", !.backend = project.backend, !.thread = 1, !.messages = 2]]
        /\ thread = [t \in Threads |-> IF t = 1 THEN [st |-> "live", holds |-> 2]
                                       ELSE [st |-> "unused", holds |-> 0]]
  /\ job = [c \in Callers |-> NoJob] /\ lock = <<>>
  /\ calls = 0 /\ threadFaults = 0
  /\ wanted = [s \in Slots |-> <<0, 0>>] /\ crossed = {}

ThreadFault == threadFaults < MaxThreadFaults /\ threadFaults' = threadFaults + 1
Stands(c, op, pc) == job[c].op = op /\ job[c].pc = pc
Leave(c) == job' = [job EXCEPT ![c] = NoJob]
Goto(c, pc) == job' = [job EXCEPT ![c].pc = pc]

\* A request comes in and reads the row of its session.
Begin(c, op, pc, s, row) ==
  /\ job[c] = NoJob /\ calls < MaxCalls /\ calls' = calls + 1
  /\ job' = [job EXCEPT ![c] = [op |-> op, pc |-> pc, slot |-> s, threads |-> {}, row |-> row]]
AskOf(c, op, pc) ==
  \E s \in Existing :
    /\ Begin(c, op, pc, s, sessions[s])
    /\ UNCHANGED <<project, sessions, turnRow, served, thread, lock, threadFaults, wanted, crossed>>

-----------------------------------------------------------------------------
\* Projects and settings.

\* The backend of a new session is its own or its project's (buildSessionRuntimeMeta).
NewRow(own) ==
  [NoSession EXCEPT !.own = own, !.backend = IF own THEN Other(project.backend) ELSE project.backend]

\* createForProject has read its project; ensureDirectory served.
AskCreate(c) ==
  /\ project.exists
  /\ \E own \in BOOLEAN, s \in Slots :
       Begin(c, "create", "insert", s, NewRow(own))
  /\ UNCHANGED <<project, sessions, turnRow, served, thread, lock, threadFaults, wanted, crossed>>

\* A new row, in a slot never used, while the project is there to refer to.
Insert(c, row) ==
  /\ sessions[job[c].slot].row = "none" /\ project.exists
  /\ sessions' = [sessions EXCEPT ![job[c].slot] = [row EXCEPT !.row = "kept"]]
  /\ wanted' = [wanted EXCEPT ![job[c].slot] = <<row.model, row.auto>>]
  /\ crossed' = IF \/ \E d \in Callers : \/ Stands(d, "backend", "write")
                                        \/ (job[d].op = "deleteProject" /\ job[d].pc \in {"close", "drop"})
                   \/ ~row.own /\ row.backend # project.backend
                THEN crossed \cup {job[c].slot} ELSE crossed
  /\ Leave(c)
  /\ UNCHANGED <<project, turnRow, served, thread, lock, calls, threadFaults>>

InsertSession(c) == Stands(c, "create", "insert") /\ Insert(c, job[c].row)

\* The project went away, or the slot of this instance is taken.
InsertFails(c) ==
  /\ job[c].op \in {"create", "fork"} /\ job[c].pc = "insert"
  /\ ~project.exists \/ sessions[job[c].slot].row # "none"
  /\ Leave(c)
  /\ UNCHANGED <<project, sessions, turnRow, served, thread, lock, calls, threadFaults, wanted, crossed>>

\* updateByIdForUser of a project, as far as its backend goes: it counts the sessions first.
AskBackend(c) ==
  /\ project.exists
  /\ Begin(c, "backend", "count", NoJob.slot, [NoSession EXCEPT !.backend = Other(project.backend)])
  /\ UNCHANGED <<project, sessions, turnRow, served, thread, lock, threadFaults, wanted, crossed>>

CountSessions(c) ==
  /\ Stands(c, "backend", "count")
  /\ IF Existing # {} THEN Leave(c) ELSE Goto(c, "write")
  /\ UNCHANGED <<project, sessions, turnRow, served, thread, lock, calls, threadFaults, wanted, crossed>>

WriteBackend(c) ==
  /\ Stands(c, "backend", "write")
  /\ project' = IF project.exists THEN [project EXCEPT !.backend = job[c].row.backend] ELSE project
  /\ Leave(c)
  /\ UNCHANGED <<sessions, turnRow, served, thread, lock, calls, threadFaults, wanted, crossed>>

\* updateByIdForUser of a session: the whole metadata is written back, from what was read before
\* the models were listed.
AskSettings(c) == \E field \in {"model", "auto"} : AskOf(c, "settings", field)

WriteSettings(c) ==
  LET s == job[c].slot
      model == IF job[c].pc = "model" THEN 1 - job[c].row.model ELSE job[c].row.model
      auto == IF job[c].pc = "auto" THEN 1 - job[c].row.auto ELSE job[c].row.auto
  IN /\ job[c].op = "settings"
     /\ sessions' = IF Exists(s) THEN [sessions EXCEPT ![s].model = model, ![s].auto = auto] ELSE sessions
     /\ wanted' = IF Exists(s) THEN [wanted EXCEPT ![s] = IF job[c].pc = "model" THEN <<model, @[2]>>
                                                          ELSE <<@[1], auto>>] ELSE wanted
     /\ crossed' = IF \E d \in Callers \ {c} : job[d].op = "settings" /\ job[d].slot = s
                   THEN crossed \cup {s} ELSE crossed
     /\ Leave(c)
     /\ UNCHANGED <<project, turnRow, served, thread, lock, calls, threadFaults>>

-----------------------------------------------------------------------------
\* Turns: createTurnForSession reads the row; the insertion is a transaction of its own.

AskTurn(c) == AskOf(c, "turn", "insert")

\* Refused when a turn is active or the session is gone; otherwise the runner is given the thread
\* that was read.
InsertTurn(c) ==
  LET s == job[c].slot IN
  /\ Stands(c, "turn", "insert")
  /\ IF Exists(s) /\ turnRow[s] = "none"
     THEN /\ turnRow' = [turnRow EXCEPT ![s] = "active"]
          /\ served' = [served EXCEPT ![s] = [st |-> "starting", thread |-> job[c].row.thread]]
          /\ sessions' = [sessions EXCEPT ![s].messages = @ + 1]
          /\ crossed' = IF Busy(s, c) \/ job[c].row.thread # sessions[s].thread
                        THEN crossed \cup {s} ELSE crossed
     ELSE UNCHANGED <<turnRow, served, sessions, crossed>>
  /\ Leave(c)
  /\ UNCHANGED <<project, thread, lock, calls, threadFaults, wanted>>

Fresh == CHOOSE t \in Threads : thread[t].st = "unused" /\ \A u \in 1..(t - 1) : thread[u].st # "unused"
HasFresh == \E t \in Threads : thread[t].st = "unused"

\* resolveThreadId: the thread of the session is resumed; when there is none, or Codex cannot
\* resume it, another one starts.
AgentBegins(s) ==
  LET given == served[s].thread
      known == given # NoThread /\ thread[given].st = "live" IN
  /\ served[s].st = "starting"
  /\ \E resumed \in {known, FALSE} :
       LET t == IF resumed THEN given ELSE Fresh IN
       /\ resumed \/ (HasFresh /\ (given = NoThread \/ sessions[s].backend = "codex"))
       /\ IF known /\ ~resumed THEN ThreadFault /\ crossed' = crossed \cup {s}
          ELSE UNCHANGED <<threadFaults, crossed>>
       /\ served' = [served EXCEPT ![s] = [st |-> "running", thread |-> t]]
       /\ thread' = [thread EXCEPT ![t] = [st |-> "live", holds |-> @.holds + 1]]
       \* "turn.started" is ingested: the row of the session keeps the thread.
       /\ sessions' = IF Exists(s) THEN [sessions EXCEPT ![s].thread = t] ELSE sessions
  /\ UNCHANGED <<project, turnRow, job, lock, calls, wanted>>

\* The answer is in the history and in the thread.
AgentReturns(s) ==
  LET t == served[s].thread IN
  /\ served[s].st = "running"
  /\ served' = [served EXCEPT ![s] = NoAgent]
  /\ turnRow' = [turnRow EXCEPT ![s] = "none"]
  /\ thread' = [thread EXCEPT ![t].holds = @ + 1]
  /\ sessions' = IF Exists(s) THEN [sessions EXCEPT ![s].messages = @ + 1] ELSE sessions
  /\ crossed' = IF \E c \in Callers : job[c].op \in {"fork", "delete"} /\ job[c].slot = s /\ job[c].pc = "check"
                THEN crossed \cup {s} ELSE crossed
  /\ UNCHANGED <<project, job, lock, calls, threadFaults, wanted>>

\* Claude cannot resume a thread whose file is gone: the turn fails.
AgentFails(s) ==
  /\ served[s].st = "starting" /\ served[s].thread # NoThread
  /\ thread[served[s].thread].st = "closed" /\ sessions[s].backend = "claude"
  /\ served' = [served EXCEPT ![s] = NoAgent] /\ turnRow' = [turnRow EXCEPT ![s] = "none"]
  /\ crossed' = crossed \cup {s}
  /\ UNCHANGED <<project, sessions, thread, job, lock, calls, threadFaults, wanted>>

-----------------------------------------------------------------------------
\* Operations on an idle session.

\* forkSessionForUser and compactSessionForUser want a thread.
AskFork(c) == (\E s \in Existing : sessions[s].thread # NoThread) /\ AskOf(c, "fork", "check")
AskCompact(c) == AskOf(c, "compact", "check")

CheckIdle_ThreadOnly(c) ==
  /\ job[c].pc = "check"
  /\ job[c].op \in {"fork", "compact"} => job[c].row.thread # NoThread
  /\ Goto(c, "call")
  /\ UNCHANGED <<project, sessions, turnRow, served, thread, lock, calls, threadFaults, wanted, crossed>>

\* The query for an active turn; one of it refuses the request. A deletion then frees the lock.
CheckIdle(c) ==
  /\ job[c].pc = "check"
  /\ IF About(c) \cap ActiveTurns # {} \/ (job[c].op \in {"fork", "compact"} /\ job[c].row.thread = NoThread)
     THEN Leave(c) /\ lock' = SelectSeq(lock, LAMBDA d : d # c)
     ELSE Goto(c, "call") /\ UNCHANGED lock
  /\ UNCHANGED <<project, sessions, turnRow, served, thread, calls, threadFaults, wanted, crossed>>

\* The backend copies the thread under a new name; the row goes into another slot. A thread that
\* is closed cannot be forked.
ForkThread(c) ==
  LET source == job[c].row.thread IN
  /\ Stands(c, "fork", "call")
  /\ IF thread[source].st = "closed" THEN Leave(c) /\ UNCHANGED <<thread, crossed>>
     ELSE /\ HasFresh
          /\ thread' = [thread EXCEPT ![Fresh] = thread[source]]
          /\ \E s \in Slots \ {job[c].slot} :
               /\ job' = [job EXCEPT ![c] = [@ EXCEPT !.pc = "insert", !.slot = s, !.row.thread = Fresh]]
               /\ crossed' = IF job[c].slot \in crossed THEN crossed \cup {s} ELSE crossed
  /\ UNCHANGED <<project, sessions, turnRow, served, lock, calls, threadFaults, wanted>>

\* The session, with the settings and the messages that were read at the start.
InsertFork(c) == Stands(c, "fork", "insert") /\ Insert(c, job[c].row)

\* compactThread has begun; its end marks the latest turn as having room again.
CompactBegins(c) ==
  /\ Stands(c, "compact", "call")
  /\ IF thread[job[c].row.thread].st = "live" THEN Goto(c, "compacting") ELSE Leave(c)
  /\ UNCHANGED <<project, sessions, turnRow, served, thread, lock, calls, threadFaults, wanted, crossed>>
CompactEnds(c) ==
  /\ Stands(c, "compact", "compacting") /\ Leave(c)
  /\ UNCHANGED <<project, sessions, turnRow, served, thread, lock, calls, threadFaults, wanted, crossed>>

-----------------------------------------------------------------------------
\* Deletions, one at a time in a project.

AskDeletion(c, op) ==
  /\ project.exists
  /\ \E s \in IF op = "delete" THEN Existing ELSE {NoJob.slot} : Begin(c, op, "queued", s, NoSession)
  /\ lock' = Append(lock, c)
  /\ UNCHANGED <<project, sessions, turnRow, served, thread, threadFaults, wanted, crossed>>

FreeLock(c) == lock' = SelectSeq(lock, LAMBDA d : d # c)

\* The first queries of deleteUnlocked, under the lock: what is to be deleted may be gone.
ReadForDelete(c) ==
  /\ job[c].pc = "queued" /\ lock # <<>> /\ lock[1] = c
  /\ IF (job[c].op = "delete" /\ ~Exists(job[c].slot)) \/ ~project.exists
     THEN Leave(c) /\ FreeLock(c)
     ELSE /\ job' = [job EXCEPT ![c] = [@ EXCEPT !.pc = "check",
                       !.threads = IF job[c].op = "delete" THEN {sessions[job[c].slot].thread} \ {NoThread}
                                   ELSE {}]]
          /\ UNCHANGED lock
  /\ UNCHANGED <<project, sessions, turnRow, served, thread, calls, threadFaults, wanted, crossed>>

\* A project asks for its sessions after the check.
ListForDelete(c) ==
  /\ Stands(c, "deleteProject", "call")
  /\ job' = [job EXCEPT ![c] = [@ EXCEPT !.pc = "close",
               !.threads = {sessions[s].thread : s \in Existing} \ {NoThread}]]
  /\ UNCHANGED <<project, sessions, turnRow, served, thread, lock, calls, threadFaults, wanted, crossed>>

\* closeThread of each; the failure of one is logged.
CloseThreads(c) ==
  /\ Stands(c, "delete", "call") \/ Stands(c, "deleteProject", "close")
  /\ \E failed \in {{}} \cup {{t} : t \in job[c].threads} :
       /\ thread' = [t \in Threads |-> IF t \in job[c].threads \ failed
                                       THEN [thread[t] EXCEPT !.st = "closed"] ELSE thread[t]]
       /\ IF failed = {} THEN UNCHANGED <<threadFaults, crossed>>
          ELSE ThreadFault /\ crossed' = crossed \cup {s \in Slots : sessions[s].thread \in failed}
  /\ Goto(c, "drop")
  /\ UNCHANGED <<project, sessions, turnRow, served, lock, calls, wanted>>

\* The row goes, and with it its turns, its messages, and the sessions of a project.
Drop(c) ==
  LET gone == About(c) IN
  /\ job[c].pc = "drop"
  /\ sessions' = [s \in Slots |-> IF s \in gone THEN [sessions[s] EXCEPT !.row = "gone"] ELSE sessions[s]]
  /\ turnRow' = [s \in Slots |-> IF s \in gone THEN "none" ELSE turnRow[s]]
  /\ project' = IF job[c].op = "deleteProject" THEN [project EXCEPT !.exists = FALSE] ELSE project
  /\ Leave(c) /\ FreeLock(c)
  /\ UNCHANGED <<served, thread, calls, threadFaults, wanted, crossed>>

SessionsNext ==
  \/ \E s \in Slots : AgentBegins(s) \/ AgentReturns(s) \/ AgentFails(s)
  \/ \E c \in Callers :
       \/ AskCreate(c) \/ AskBackend(c) \/ AskSettings(c) \/ AskTurn(c) \/ AskFork(c) \/ AskCompact(c)
       \/ AskDeletion(c, "delete") \/ AskDeletion(c, "deleteProject")
       \/ InsertSession(c) \/ InsertFails(c) \/ CountSessions(c) \/ WriteBackend(c) \/ WriteSettings(c)
       \/ InsertTurn(c) \/ CheckIdle(c) \/ ForkThread(c) \/ InsertFork(c)
       \/ CompactBegins(c) \/ CompactEnds(c)
       \/ ReadForDelete(c) \/ ListForDelete(c) \/ CloseThreads(c) \/ Drop(c)

SessionsSpec == SessionsInit /\ [][SessionsNext]_sessionVars

-----------------------------------------------------------------------------
\* The thread of an idle session remembers exactly the messages of its history, forks included,
\* unless a turn crossed another request or the thread could not be resumed (forkSessionForUser,
\* createTurnWithResolvedSession, resolveThreadId).
ThreadsRemember ==
  \A s \in Existing \ crossed :
    served[s] = NoAgent /\ sessions[s].thread # NoThread =>
      thread[sessions[s].thread].holds = sessions[s].messages

\* No two sessions go on with the same thread (forkThread).
ThreadsApart ==
  \A s, r \in Existing : s # r /\ sessions[s].thread # NoThread => sessions[s].thread # sessions[r].thread

\* No agent runs for a session that is gone, and none on a thread that is being compacted or is
\* closed, unless its turn was created between the check and the use of it (deleteUnlocked,
\* compactSessionForUser).
IdleWhenTouched ==
  \A s \in Slots \ crossed :
    served[s] # NoAgent =>
      /\ Exists(s)
      /\ served[s].thread # NoThread => thread[served[s].thread].st = "live"
      /\ \A c \in Callers : Stands(c, "compact", "compacting") => job[c].slot # s

\* A session that is gone leaves no thread open, unless its turn crossed the deletion or the
\* thread would not close (deleteUnlocked of both services).
NoThreadLeft ==
  \A s \in Slots \ crossed :
    sessions[s].row = "gone" /\ sessions[s].thread # NoThread => thread[sessions[s].thread].st = "closed"

\* A session that did not choose a backend has the backend of its project, unless it was created
\* while the project's backend was changed (the count of sessions in updateByIdForUser).
BackendOfProject ==
  \A s \in Existing \ crossed : ~sessions[s].own => sessions[s].backend = project.backend

\* The settings of a session are the last ones accepted, unless two changes overlapped
\* (updateByIdForUser writes back the metadata it read).
SettingsKept == \A s \in Existing \ crossed : <<sessions[s].model, sessions[s].auto>> = wanted[s]

SessionsSafe ==
  ThreadsRemember /\ ThreadsApart /\ IdleWhenTouched /\ NoThreadLeft /\ BackendOfProject /\ SettingsKept
=============================================================================

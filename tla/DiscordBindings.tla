--------------------------- MODULE DiscordBindings ---------------------------
(***************************************************************************)
(* The bindings of a Discord integration: its plugin configuration says    *)
(* which project a channel and which session a channel or thread is bound  *)
(* to. Handlers compute a whole new configuration from the one in memory,  *)
(* write it to the database and then to memory; the reconciliation         *)
(* replaces a runtime whose configuration differs from the database.       *)
(* (discord.plugin.ts)                                                     *)
(***************************************************************************)
EXTENDS Naturals, FiniteSets

CONSTANTS
  Channels, Threads,   \* a target is a channel, or a thread of it
  Projects, Sessions,  \* identifiers, handed out when one is created
  Tasks,               \* handlers of messages and commands that may be in progress
  Runtimes,            \* instances of the runtime, made one after the other: 1..n
  Nothing,
  MaxBindingOps,       \* bound on handlers started
  MaxUnreadable        \* bound on look-ups that fail

ASSUME BindingsAssumption ==
  /\ Cardinality(Runtimes) \in Nat \ {0} /\ Runtimes = 1..Cardinality(Runtimes)
  /\ Nothing \notin Projects \cup Sessions \cup Threads
  /\ MaxBindingOps \in Nat /\ MaxUnreadable \in Nat

BindTargets == Channels \X (Threads \cup {Nothing})

Configs == [project : [Channels -> Projects \cup {Nothing}],
            targets : [Sessions -> SUBSET BindTargets],
            ids : SUBSET Sessions]

VARIABLES
  stored,      \* pluginConfig in the database
  memory,      \* config of each runtime instance
  live,        \* the instance that gets messages and commands
  task,        \* the handlers
  listed,      \* what the reconciliation read, or Nothing
  projects,    \* the projects that exist
  owner,       \* the project of each session that exists, or Nothing
  bindingOps,  \* handlers started so far
  unreadable,  \* failed look-ups so far
  used         \* session identifiers handed out so far

bindingVars == <<stored, memory, live, task, listed, projects, owner, bindingOps, unreadable, used>>

NoTask == [pc |-> "idle"]
NoBinding == [project |-> [c \in Channels |-> Nothing], targets |-> [s \in Sessions |-> {}], ids |-> {}]

\* TLC does not enumerate Configs: membership is decided field by field.
IsConfig(c) ==
  /\ c.project \in [Channels -> Projects \cup {Nothing}]
  /\ c.targets \in [Sessions -> SUBSET BindTargets]
  /\ c.ids \subseteq Sessions

BindingsTypeOK ==
  /\ IsConfig(stored)
  /\ DOMAIN memory = Runtimes /\ \A r \in Runtimes : IsConfig(memory[r])
  /\ live \in Runtimes
  /\ DOMAIN task = Tasks
  /\ \A k \in Tasks : "next" \in DOMAIN task[k] => IsConfig(task[k].next)
  /\ listed = Nothing \/ IsConfig(listed)
  /\ projects \subseteq Projects /\ owner \in [Sessions -> Projects \cup {Nothing}]
  /\ bindingOps \in 0..MaxBindingOps /\ unreadable \in 0..MaxUnreadable /\ used \subseteq Sessions

BindingsInit ==
  /\ stored = NoBinding
  /\ memory = [r \in Runtimes |-> NoBinding]
  /\ live = 1
  /\ task = [k \in Tasks |-> NoTask]
  /\ listed = Nothing
  /\ projects = {} /\ owner = [s \in Sessions |-> Nothing]
  /\ bindingOps = 0 /\ unreadable = 0 /\ used = {}

-----------------------------------------------------------------------------
\* The configuration.

SessionsAt(config, t) == {s \in Sessions : t \in config.targets[s]}

FindSessionIdByTarget(config, t) ==
  IF SessionsAt(config, t) = {} THEN Nothing ELSE CHOOSE s \in SessionsAt(config, t) : TRUE

RebindTarget_Adds(targets, s, t) == [targets EXCEPT ![s] = @ \cup {t}]

\* The target leaves every session and joins one.
RebindTarget(targets, s, t) ==
  [x \in Sessions |-> IF x = s THEN targets[x] \cup {t} ELSE targets[x] \ {t}]

\* A session that is left without targets keeps its place in sessionIds.
UpsertDiscordBindings(config, t, p, s) ==
  [project |-> [config.project EXCEPT ![t[1]] = p],
   targets |-> RebindTarget(config.targets, s, t),
   ids |-> config.ids \cup {s}]

BoundSessions(targets) == {s \in Sessions : targets[s] # {}}

BindSessionToTarget(config, t, p, s) ==
  LET targets == RebindTarget(config.targets, s, t)
  IN [project |-> IF t[2] = Nothing THEN [config.project EXCEPT ![t[1]] = p] ELSE config.project,
      targets |-> targets,
      ids |-> BoundSessions(targets)]

\* The session of the channel itself is unbound; threads keep theirs.
ApplyChannelProjectBinding(config, t, p) ==
  LET targets == [s \in Sessions |-> config.targets[s] \ {<<t[1], Nothing>>}]
  IN [project |-> [config.project EXCEPT ![t[1]] = p],
      targets |-> targets,
      ids |-> BoundSessions(targets)]

-----------------------------------------------------------------------------
\* Handlers of inbound messages: ensureBindingForInbound.

BeginTask(k, record) ==
  /\ task[k] = NoTask /\ bindingOps < MaxBindingOps
  /\ bindingOps' = bindingOps + 1
  /\ task' = [task EXCEPT ![k] = record]

TaskStep(k, pc) == task' = [task EXCEPT ![k].pc = pc]

\* The new configuration comes from the one in memory at this moment.
Persist(k, config) == task' = [task EXCEPT ![k] = [pc |-> "store", at |-> @.at, next |-> config]]

ReceiveMessage(k, t) ==
  LET s == FindSessionIdByTarget(memory[live], t)
  IN /\ BeginTask(k, [pc |-> IF s = Nothing THEN "readProject" ELSE "readSession", at |-> live, target |-> t,
                  session |-> s, project |-> IF s = Nothing THEN memory[live].project[t[1]] ELSE Nothing])
     /\ UNCHANGED <<stored, memory, live, listed, projects, owner, unreadable, used>>

\* The bound session is there: nothing to bind.
SessionFound(k) ==
  /\ task[k].pc = "readSession" /\ owner[task[k].session] # Nothing
  /\ task' = [task EXCEPT ![k] = NoTask]
  /\ UNCHANGED <<stored, memory, live, listed, projects, owner, bindingOps, unreadable, used>>

\* It was deleted, or the look-up failed, which readSessionForOwner does not tell apart.
SessionMissing(k) ==
  /\ task[k].pc = "readSession"
  /\ \/ owner[task[k].session] = Nothing /\ UNCHANGED unreadable
     \/ unreadable < MaxUnreadable /\ unreadable' = unreadable + 1
  /\ task' = [task EXCEPT ![k].pc = "readProject",
                          ![k].project = memory[task[k].at].project[task[k].target[1]]]
  /\ UNCHANGED <<stored, memory, live, listed, projects, owner, bindingOps, used>>

ReadProject(k) ==
  /\ task[k].pc = "readProject"
  /\ \/ task[k].project \in projects /\ TaskStep(k, "newSession") /\ UNCHANGED unreadable
     \/ task[k].project \notin projects /\ TaskStep(k, "newProject") /\ UNCHANGED unreadable
     \/ /\ task[k].project \in projects /\ TaskStep(k, "newProject")
        /\ unreadable < MaxUnreadable /\ unreadable' = unreadable + 1
  /\ UNCHANGED <<stored, memory, live, listed, projects, owner, bindingOps, used>>

CreateProject(k) ==
  /\ task[k].pc = "newProject"
  /\ \E p \in Projects \ projects :
       /\ projects' = projects \cup {p}
       /\ task' = [task EXCEPT ![k].pc = "newSession", ![k].project = p]
  /\ UNCHANGED <<stored, memory, live, listed, owner, bindingOps, unreadable, used>>

CreateSession(k) ==
  /\ task[k].pc = "newSession"
  /\ \E s \in Sessions \ used :
       /\ used' = used \cup {s}
       /\ owner' = [owner EXCEPT ![s] = task[k].project]
       /\ Persist(k, UpsertDiscordBindings(memory[task[k].at], task[k].target, task[k].project, s))
  /\ UNCHANGED <<stored, memory, live, listed, projects, bindingOps, unreadable>>

-----------------------------------------------------------------------------
\* Commands. What they refer to is looked up first.

\* project create: not in a thread; the project is made before the channel is bound.
ProjectCreateCommand(k, c) ==
  \E p \in Projects \ projects :
    /\ BeginTask(k, [pc |-> "projectCommand", at |-> live, target |-> <<c, Nothing>>, project |-> p, session |-> Nothing])
    /\ projects' = projects \cup {p}
    /\ UNCHANGED <<stored, memory, live, listed, owner, unreadable, used>>

ProjectBindCommand(k, c) ==
  \E p \in projects :
    /\ BeginTask(k, [pc |-> "projectCommand", at |-> live, target |-> <<c, Nothing>>, project |-> p, session |-> Nothing])
    /\ UNCHANGED <<stored, memory, live, listed, projects, owner, unreadable, used>>

\* project change: rebinds the channel to the project it is bound to.
ProjectChangeCommand(k, c) ==
  /\ memory[live].project[c] \in projects
  /\ BeginTask(k, [pc |-> "projectCommand", at |-> live, target |-> <<c, Nothing>>,
               project |-> memory[live].project[c], session |-> Nothing])
  /\ UNCHANGED <<stored, memory, live, listed, projects, owner, unreadable, used>>

BindProject(k) ==
  /\ task[k].pc = "projectCommand"
  /\ Persist(k, ApplyChannelProjectBinding(memory[task[k].at], task[k].target, task[k].project))
  /\ UNCHANGED <<stored, memory, live, listed, projects, owner, bindingOps, unreadable, used>>

SessionCreateCommand(k, t) ==
  \E p \in projects, s \in Sessions \ used :
    /\ BeginTask(k, [pc |-> "sessionCommand", at |-> live, target |-> t, project |-> p, session |-> s])
    /\ used' = used \cup {s} /\ owner' = [owner EXCEPT ![s] = p]
    /\ UNCHANGED <<stored, memory, live, listed, projects, unreadable>>

SessionBindCommand(k, t) ==
  \E s \in Sessions :
    /\ owner[s] # Nothing
    /\ BeginTask(k, [pc |-> "sessionCommand", at |-> live, target |-> t, project |-> owner[s], session |-> s])
    /\ UNCHANGED <<stored, memory, live, listed, projects, owner, unreadable, used>>

BindSession(k) ==
  /\ task[k].pc = "sessionCommand"
  /\ Persist(k, BindSessionToTarget(memory[task[k].at], task[k].target, task[k].project, task[k].session))
  /\ UNCHANGED <<stored, memory, live, listed, projects, owner, bindingOps, unreadable, used>>

-----------------------------------------------------------------------------
\* persistRuntimeConfig: the database, then the memory of the handler's own runtime.

Store(k) ==
  /\ task[k].pc = "store"
  /\ stored' = task[k].next
  /\ TaskStep(k, "remember")
  /\ UNCHANGED <<memory, live, listed, projects, owner, bindingOps, unreadable, used>>

Remember(k) ==
  /\ task[k].pc = "remember"
  /\ memory' = [memory EXCEPT ![task[k].at] = task[k].next]
  /\ task' = [task EXCEPT ![k] = NoTask]
  /\ UNCHANGED <<stored, live, listed, projects, owner, bindingOps, unreadable, used>>

\* reconcileRuntimes: the rows are read, then compared with memory.
ReconcileList ==
  /\ listed = Nothing
  /\ listed' = stored
  /\ UNCHANGED <<stored, memory, live, task, projects, owner, bindingOps, unreadable, used>>

HasSameRuntimeIdentity_TokenOnly(config) == TRUE
HasSameRuntimeIdentity(config) == config = memory[live]

ReconcileApply ==
  /\ listed # Nothing
  /\ listed' = Nothing
  /\ IF HasSameRuntimeIdentity(listed)
     THEN UNCHANGED <<live, memory>>
     ELSE /\ live + 1 \in Runtimes
          /\ live' = live + 1
          /\ memory' = [memory EXCEPT ![live + 1] = listed]
  /\ UNCHANGED <<stored, task, projects, owner, bindingOps, unreadable, used>>

\* A user deletes a session (its project is deleted likewise, with all of them).
DeleteSession(s) ==
  /\ owner[s] # Nothing
  /\ bindingOps < MaxBindingOps /\ bindingOps' = bindingOps + 1
  /\ owner' = [owner EXCEPT ![s] = Nothing]
  /\ UNCHANGED <<stored, memory, live, task, listed, projects, unreadable, used>>

-----------------------------------------------------------------------------
TaskMoves(k) ==
  \/ SessionFound(k) \/ SessionMissing(k) \/ ReadProject(k) \/ CreateProject(k) \/ CreateSession(k)
  \/ BindProject(k) \/ BindSession(k) \/ Store(k) \/ Remember(k)

BindingsNext ==
  \/ \E k \in Tasks :
       \/ TaskMoves(k)
       \/ \E t \in BindTargets : ReceiveMessage(k, t) \/ SessionCreateCommand(k, t) \/ SessionBindCommand(k, t)
       \/ \E c \in Channels :
            ProjectCreateCommand(k, c) \/ ProjectBindCommand(k, c) \/ ProjectChangeCommand(k, c)
  \/ ReconcileList \/ ReconcileApply
  \/ \E s \in Sessions : DeleteSession(s)

BindingsSpec == BindingsInit /\ [][BindingsNext]_bindingVars

-----------------------------------------------------------------------------
AllConfigs == {stored} \cup {memory[r] : r \in Runtimes} \cup {task[k].next : k \in {x \in Tasks : "next" \in DOMAIN task[x]}}

\* In every configuration a target has at most one session, whichever handlers overlap and
\* overwrite each other: a message is acted on in one session (discord.plugin.ts:3841).
OneSessionPerTarget ==
  \A config \in AllConfigs : \A t \in BindTargets : Cardinality(SessionsAt(config, t)) <= 1

\* When handlers overlap each other and a reconciliation, the memory of the live runtime comes to
\* agree with the database again.
MemoryCatchesUp == <>[](memory[live] = stored)
=============================================================================

--------------------------- MODULE DiscordRuntime ---------------------------
(***************************************************************************)
(* The connection of one Discord integration: the reconciliation that      *)
(* creates and stops its runtime, logins that wait for the network, the    *)
(* recovery by timer with a limited number of attempts, and the health     *)
(* written to the integration's row. (discord.plugin.ts)                   *)
(***************************************************************************)
EXTENDS Naturals, Sequences

CONSTANTS
  MaxAttempts,  \* DISCORD_RECONNECT_MAX_ATTEMPTS
  MaxVersions,  \* bound on changes of the integration by its owner
  MaxHealth     \* bound on health writes that wait

ASSUME RuntimeAssumption == MaxAttempts \in Nat \ {0} /\ MaxVersions \in Nat /\ MaxHealth \in Nat \ {0}

VARIABLES
  wanted,      \* the row: 0 while it is not active, otherwise its token and configuration
  versions,    \* changes so far
  reconcile,   \* the reconciliation: [pc, seen]
  runtime,     \* the version the runtime in the map was made for, 0 if there is none
  dead,        \* runtime.stopped
  loggingIn,   \* loginInFlight
  recovering,  \* recoveryInFlight and where it stands: "no", "destroy", "login"
  timer,       \* reconnectTimer is armed
  attempt,     \* reconnectAttempt
  online,      \* the gateway connection is up (external)
  strays,      \* logins of stopped runtimes that a successor has replaced, still waited for
  health,      \* lastErrorAt of the row: "ok" or "error"
  writing,     \* health writes that wait for their turn; one is late if its runtime was stopped before
  amiss        \* history: the last health write that ran failed, or was late

runtimeVars == <<wanted, versions, reconcile, runtime, dead, loggingIn, recovering, timer, attempt,
                 online, strays, health, writing, amiss>>
client == <<runtime, dead, loggingIn, recovering, timer, attempt, online>>
healthRow == <<health, amiss>>
HealthWrites == [shows : {"ok", "error"}, late : BOOLEAN]

Resting == [pc |-> "idle", seen |-> 0]

RuntimeTypeOK ==
  /\ wanted \in 0..MaxVersions + 1 /\ versions \in 0..MaxVersions
  /\ reconcile \in [pc : {"idle", "compare", "create", "login"}, seen : 0..MaxVersions + 1]
  /\ runtime \in 0..MaxVersions + 1 /\ dead \in BOOLEAN /\ loggingIn \in BOOLEAN
  /\ recovering \in {"no", "destroy", "login"} /\ timer \in BOOLEAN
  /\ attempt \in 0..MaxAttempts + 1
  /\ online \in BOOLEAN /\ strays \in Nat
  /\ health \in {"ok", "error"} /\ writing \in Seq(HealthWrites) /\ amiss \in BOOLEAN

RuntimeInit ==
  /\ wanted = 1 /\ versions = 0 /\ reconcile = Resting
  /\ runtime = 0 /\ dead = FALSE /\ loggingIn = FALSE /\ recovering = "no"
  /\ timer = FALSE /\ attempt = 0 /\ online = FALSE /\ strays = 0
  /\ health = "ok" /\ writing = <<>> /\ amiss = FALSE

-----------------------------------------------------------------------------
\* markRuntimeHealthy and markRuntimeError: enqueueHealthWrite runs the writes one after the other.

EnqueueHealthWrite(h, late) == writing' = Append(writing, [shows |-> h, late |-> late])

WriteHealth_AnyOrder ==
  \E i \in DOMAIN writing :
    /\ \/ health' = writing[i].shows /\ amiss' = writing[i].late
       \/ amiss' = TRUE /\ UNCHANGED health
    /\ writing' = SubSeq(writing, 1, i - 1) \o SubSeq(writing, i + 1, Len(writing))
    /\ UNCHANGED <<wanted, versions, reconcile, client, strays>>

\* A write that fails is logged and forgotten: the row keeps what it showed.
WriteHealth ==
  /\ writing # <<>> /\ writing' = Tail(writing)
  /\ \/ health' = Head(writing).shows /\ amiss' = Head(writing).late
     \/ amiss' = TRUE /\ UNCHANGED health
  /\ UNCHANGED <<wanted, versions, reconcile, client, strays>>

-----------------------------------------------------------------------------
\* scheduleRuntimeRecovery: an armed timer is kept; after the last attempt the runtime is stopped
\* and stays in the map.
ScheduleRuntimeRecovery_NoLimit ==
  IF dead \/ timer
  THEN UNCHANGED <<dead, timer, attempt, writing>>
  ELSE attempt' = attempt + 1 /\ timer' = TRUE /\ EnqueueHealthWrite("error", FALSE) /\ UNCHANGED dead

ScheduleRuntimeRecovery ==
  IF dead \/ timer
  THEN UNCHANGED <<dead, timer, attempt, writing>>
  ELSE /\ attempt' = attempt + 1
       /\ timer' = (attempt < MaxAttempts)
       /\ dead' = (attempt >= MaxAttempts)
       /\ EnqueueHealthWrite("error", FALSE)

\* An error or disconnect of the client; the process guard finds the runtime by its integration, so
\* that the end of an old client is taken for an error of its successor.
ClientError ==
  /\ runtime # 0 /\ Len(writing) < MaxHealth
  /\ online' \in {FALSE, online}
  /\ ScheduleRuntimeRecovery
  /\ IF dead' /\ ~dead THEN online' = FALSE ELSE TRUE
  /\ UNCHANGED <<wanted, versions, reconcile, runtime, loggingIn, recovering, strays, healthRow>>

ReconnectTimer_KeepsHandle ==
  /\ timer
  /\ timer' = TRUE
  /\ recovering' = IF dead \/ recovering # "no" THEN recovering ELSE "destroy"
  /\ UNCHANGED <<wanted, versions, reconcile, runtime, dead, loggingIn, attempt, online, strays, healthRow, writing>>

\* The timer forgets its handle before anything else.
ReconnectTimer ==
  /\ timer
  /\ timer' = FALSE
  /\ recovering' = IF dead \/ recovering # "no" THEN recovering ELSE "destroy"
  /\ UNCHANGED <<wanted, versions, reconcile, runtime, dead, loggingIn, attempt, online, strays, healthRow, writing>>

\* reconnectRuntime: the client is destroyed; a login in progress goes on as it can.
Reconnect ==
  /\ recovering = "destroy"
  /\ online' = FALSE
  /\ IF dead \/ loggingIn
     THEN recovering' = "no" /\ UNCHANGED loggingIn
     ELSE recovering' = "login" /\ loggingIn' = TRUE
  /\ UNCHANGED <<wanted, versions, reconcile, runtime, dead, timer, attempt, strays, healthRow, writing>>

-----------------------------------------------------------------------------
\* startRuntime, after the await.

AfterLogin ==
  /\ loggingIn' = FALSE
  /\ recovering' = IF recovering = "login" THEN "no" ELSE recovering
  /\ reconcile' = IF reconcile.pc = "login" THEN Resting ELSE reconcile

\* Nothing is asked of a runtime stopped meanwhile: its success is written too.
LoginSucceeds ==
  /\ loggingIn
  /\ AfterLogin
  /\ online' \in {TRUE} \cup {up \in {FALSE} : dead}
  /\ attempt' = 0 /\ timer' = FALSE
  /\ EnqueueHealthWrite("ok", dead)
  /\ UNCHANGED <<wanted, versions, runtime, dead, strays, healthRow>>

\* Refused, timed out after 20 s, or destroyed meanwhile.
LoginFails ==
  /\ loggingIn
  /\ AfterLogin
  /\ ScheduleRuntimeRecovery
  /\ online' = FALSE
  /\ UNCHANGED <<wanted, versions, runtime, strays, healthRow>>

\* The same of a runtime that a successor replaced: what it writes goes by the integration, the rest
\* is its own.
StrayLoginReturns ==
  /\ strays # 0 /\ strays' = strays - 1
  /\ EnqueueHealthWrite("ok", TRUE) \/ UNCHANGED writing
  /\ UNCHANGED <<wanted, versions, reconcile, client, healthRow>>

-----------------------------------------------------------------------------
\* reconcileRuntimes, every 10 s unless one is in progress.

ReconcileStart ==
  /\ reconcile = Resting
  /\ reconcile' = [pc |-> "compare", seen |-> wanted]
  /\ UNCHANGED <<wanted, versions, client, strays, healthRow, writing>>

\* A runtime that is not wanted as it is leaves the map and is stopped.
ReconcileCompare ==
  /\ reconcile.pc = "compare"
  /\ IF runtime # 0 /\ runtime # reconcile.seen
     THEN /\ runtime' = 0 /\ dead' = TRUE /\ timer' = FALSE /\ online' = FALSE
          /\ UNCHANGED <<loggingIn, recovering, attempt>>
     ELSE UNCHANGED client
  /\ reconcile' = [reconcile EXCEPT !.pc = "create"]
  /\ UNCHANGED <<wanted, versions, strays, healthRow, writing>>

\* createRuntime and startRuntime; the login an old instance still awaits goes on beside the new one.
ReconcileCreate ==
  /\ reconcile.pc = "create"
  /\ IF reconcile.seen # 0 /\ runtime = 0
     THEN /\ runtime' = reconcile.seen
          /\ dead' = FALSE /\ loggingIn' = TRUE /\ recovering' = "no"
          /\ timer' = FALSE /\ attempt' = 0 /\ online' = FALSE
          /\ strays' = IF loggingIn THEN strays + 1 ELSE strays
          /\ reconcile' = [reconcile EXCEPT !.pc = "login"]
     ELSE reconcile' = Resting /\ UNCHANGED <<client, strays>>
  /\ UNCHANGED <<wanted, versions, healthRow, writing>>

\* The owner changes, disables or enables the integration.
OwnerChanges ==
  /\ versions < MaxVersions
  /\ versions' = versions + 1
  /\ wanted' \in {0, versions + 2}
  /\ UNCHANGED <<reconcile, client, strays, healthRow, writing>>

-----------------------------------------------------------------------------
RuntimeNext ==
  \/ WriteHealth \/ ClientError \/ ReconnectTimer \/ Reconnect
  \/ LoginSucceeds \/ LoginFails \/ StrayLoginReturns
  \/ ReconcileStart \/ ReconcileCompare \/ ReconcileCreate \/ OwnerChanges

RuntimeSpec == RuntimeInit /\ [][RuntimeNext]_runtimeVars

-----------------------------------------------------------------------------
\* When nothing is under way, the row of an integration that is connected shows no error, and that
\* of one given up shows one, however the writes were issued and whichever of them failed; only the
\* last of them must not have failed, nor come from a runtime that was already stopped
\* (enqueueHealthWrite, startRuntime).
HealthIsTrue ==
  runtime # 0 /\ writing = <<>> /\ ~amiss /\ ~loggingIn /\ ~timer /\ recovering = "no" =>
    health = IF dead THEN "error" ELSE "ok"

\* Once the owner changes the integration no more, and while reconciliations come round, it ends up
\* as the owner wants it: connected or given up, or stopped (discord.plugin.ts:300, 498, 544).
RuntimeSettles ==
  []<>(reconcile.pc = "compare") =>
    []<>(versions = MaxVersions => runtime = wanted /\ (wanted = 0 \/ online \/ dead))
=============================================================================

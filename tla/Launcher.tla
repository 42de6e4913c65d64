------------------------------ MODULE Launcher ------------------------------
(***************************************************************************)
(* The command line that starts and stops AgentWaypoint on one machine:    *)
(* the PID file, the clean-shutdown marker, the first-run bootstrap, the   *)
(* database and its backups, and the two processes it leaves behind. One    *)
(* command runs at a time; it can be killed, processes can die, and the    *)
(* machine can lose power. (agent-waypoint.mjs, local-bootstrap.ts)        *)
(***************************************************************************)
EXTENDS Naturals, FiniteSets

CONSTANTS
  MaxStarts, \* bound on the process pairs spawned
  MaxFaults  \* bound on kills, crashes and power losses

ASSUME LauncherAssumption == MaxStarts \in Nat \ {0} /\ MaxFaults \in Nat

VARIABLES
  config,   \* config.json exists
  marker,   \* the clean-shutdown marker exists
  pid,      \* the pair named by the PID file, 0 for none
  backups,  \* backups in place: the last cleanup's "own", those of "earlier" ones
  admin,    \* the administrator exists
  database, \* "absent", "clean", "wal" (pages not checkpointed), "damaged", or
            \* "spoiled" by a cleanup
  cmd,      \* the command that runs: [op, pc]
  spawned,  \* pairs spawned so far
  apis,     \* pairs whose API process is alive, and with it its process group
  wrappers, \* those of them whose pnpm wrapper, the process that started the group, is alive as well
  webs,     \* pairs whose web process is alive
  port,     \* the pair whose API has the port, 0 for none
  faults,
  orphaned, \* history: a command took for gone, or left unnamed, an API that was alive
  lost,     \* history: since the database was last checked, power was lost or a cleanup failed
  blind,    \* history: a stop wrote the marker over such a loss
  halfway   \* history: a first bootstrap ended between config.json and the administrator

launcherVars == <<config, marker, pid, backups, admin, database, cmd, spawned, apis, wrappers, webs,
                  port, faults, orphaned, lost, blind, halfway>>
files == <<config, marker, pid, backups, admin>>
procs == <<spawned, apis, wrappers, webs, port>>
histories == <<faults, orphaned, lost, blind, halfway>>

Idle == [op |-> "none", pc |-> "idle"]
Doing(op, pc) == cmd.op = op /\ cmd.pc = pc
GoTo(pc) == cmd' = [cmd EXCEPT !.pc = pc]
Damaged == database \in {"damaged", "spoiled"}
Fault == faults < MaxFaults /\ faults' = faults + 1

\* An API that ends takes its wrapper with it; the wrapper can go before it.
ApiEnds(a) ==
  /\ apis' = apis \ {a} /\ wrappers' = wrappers \ {a}
  /\ port' = IF port = a THEN 0 ELSE port

LauncherTypeOK ==
  /\ config \in BOOLEAN /\ marker \in BOOLEAN /\ backups \subseteq {"own", "earlier"} /\ admin \in BOOLEAN
  /\ database \in {"absent", "clean", "wal", "damaged", "spoiled"}
  /\ cmd \in [op : {"none", "start", "stop", "cleanup"},
              pc : {"idle", "verify", "config", "migrate", "admin", "build", "spawn", "record", "wait",
                    "term", "kill", "verdict", "backup", "vacuum", "check", "finish"}]
  /\ spawned \in 0..MaxStarts /\ pid \in 0..MaxStarts /\ port \in 0..MaxStarts
  /\ apis \subseteq 1..MaxStarts /\ wrappers \subseteq apis /\ webs \subseteq 1..MaxStarts
  /\ faults \in 0..MaxFaults /\ orphaned \in BOOLEAN
  /\ lost \in BOOLEAN /\ blind \in BOOLEAN /\ halfway \in BOOLEAN

LauncherInit ==
  /\ config = FALSE /\ marker = FALSE /\ pid = 0 /\ backups = {} /\ admin = FALSE
  /\ database = "absent" /\ cmd = Idle /\ spawned = 0
  /\ apis = {} /\ wrappers = {} /\ webs = {} /\ port = 0
  /\ faults = 0 /\ orphaned = FALSE /\ lost = FALSE /\ blind = FALSE /\ halfway = FALSE

-----------------------------------------------------------------------------
\* start

\* A record of which one process is gone is dropped, with the other still alive; of the API only
\* its wrapper is looked at.
CmdStart ==
  /\ cmd = Idle /\ spawned < MaxStarts
  /\ ~(pid \in wrappers /\ pid \in webs)
  /\ pid' = 0 /\ orphaned' = (orphaned \/ pid \in apis)
  /\ cmd' = [op |-> "start", pc |-> "verify"]
  /\ UNCHANGED <<config, marker, backups, admin, database, procs, faults, lost, blind, halfway>>

\* verifyExistingDatabaseBeforeBootstrap. After a clean shutdown the database is only
\* opened; otherwise it is recovered and checked, which fails if it is damaged or busy.
Opens == marker /\ database # "absent"
Recovers == ~Damaged /\ (database = "wal" => apis = {})

VerifyDatabase_KeepsMarker ==
  /\ Doing("start", "verify")
  /\ IF Opens \/ Recovers
     THEN /\ GoTo("config")
          /\ database' = IF ~Opens /\ database = "wal" THEN "clean" ELSE database
     ELSE cmd' = Idle /\ UNCHANGED database
  /\ lost' = (lost /\ Opens)
  /\ UNCHANGED <<files, procs, faults, orphaned, blind, halfway>>

VerifyDatabase ==
  /\ Doing("start", "verify")
  /\ IF Opens \/ Recovers
     THEN /\ GoTo("config") /\ marker' = FALSE
          /\ database' = IF ~Opens /\ database = "wal" THEN "clean" ELSE database
     ELSE cmd' = Idle /\ UNCHANGED <<marker, database>>
  /\ lost' = (lost /\ Opens)
  /\ UNCHANGED <<config, pid, backups, admin, procs, faults, orphaned, blind, halfway>>

\* ensureBootstrap: with a config only the migrations run; without one the first run asks
\* for it, writes it, and creates the administrator last.
ResolveConfig ==
  /\ Doing("start", "config")
  /\ IF config THEN GoTo("migrate") /\ UNCHANGED config
     ELSE \E answered \in BOOLEAN :
            IF answered THEN GoTo("migrate") /\ config' = TRUE ELSE cmd' = Idle /\ UNCHANGED config
  /\ UNCHANGED <<marker, pid, backups, admin, database, procs, histories>>

FirstRun == ~admin /\ ~halfway

RunPrismaMigrations ==
  /\ Doing("start", "migrate")
  /\ \E migrated \in BOOLEAN :
       /\ IF migrated THEN GoTo(IF FirstRun THEN "admin" ELSE "build") ELSE cmd' = Idle
       /\ database' = IF migrated /\ database \in {"absent", "clean"} THEN "wal" ELSE database
       /\ halfway' = (halfway \/ (FirstRun /\ ~migrated))
  /\ UNCHANGED <<files, procs, faults, orphaned, lost, blind>>

CreateAdminUser ==
  /\ Doing("start", "admin")
  /\ \E created \in BOOLEAN :
       /\ admin' = created /\ halfway' = ~created
       /\ IF created THEN GoTo("build") ELSE cmd' = Idle
  /\ UNCHANGED <<config, marker, pid, backups, database, procs, faults, orphaned, lost, blind>>

EnsureWebBuild ==
  /\ Doing("start", "build") /\ cmd' \in {Idle, [cmd EXCEPT !.pc = "spawn"]}
  /\ UNCHANGED <<files, database, procs, histories>>

SpawnDetached ==
  /\ Doing("start", "spawn") /\ GoTo("record") /\ spawned' = spawned + 1
  /\ apis' = apis \cup {spawned'} /\ wrappers' = wrappers \cup {spawned'} /\ webs' = webs \cup {spawned'}
  /\ UNCHANGED <<files, database, port, histories>>

WritePidFile ==
  /\ Doing("start", "record") /\ GoTo("wait") /\ pid' = spawned
  /\ UNCHANGED <<config, marker, backups, admin, database, procs, histories>>

\* Whoever answers on the port counts; a start that gives up leaves what it spawned.
WaitForStartup ==
  /\ Doing("start", "wait") /\ cmd' = Idle
  /\ UNCHANGED <<files, database, procs, histories>>

-----------------------------------------------------------------------------
\* stop

CmdStop ==
  /\ cmd = Idle /\ pid # 0 /\ cmd' = [op |-> "stop", pc |-> "term"]
  /\ UNCHANGED <<files, database, procs, histories>>

\* Both process groups are told to end; the API closes the database or is killed.
GroupExits ==
  /\ \E pc \in {"term", "kill"} : Doing("stop", pc)
  /\ \/ pid \in apis /\ ApiEnds(pid) /\ UNCHANGED webs
     \/ pid \in wrappers /\ wrappers' = wrappers \ {pid} /\ UNCHANGED <<apis, webs, port>>
     \/ pid \in webs /\ webs' = webs \ {pid} /\ UNCHANGED <<apis, wrappers, port>>
  /\ database' \in {database} \cup {d \in {"clean"} : database = "wal" /\ pid \notin apis' /\ Doing("stop", "term")}
  /\ UNCHANGED <<files, cmd, spawned, histories>>

StopTimesOut ==
  /\ \/ Doing("stop", "term") /\ GoTo("kill")
     \/ Doing("stop", "kill") /\ cmd' = Idle
  /\ pid \in apis \cup webs
  /\ UNCHANGED <<files, database, procs, histories>>

StopWaited ==
  /\ \E pc \in {"term", "kill"} : Doing("stop", pc)
  /\ pid \notin apis \cup webs /\ GoTo("verdict") /\ pid' = 0
  /\ UNCHANGED <<config, marker, backups, admin, database, procs, histories>>

\* verifyDatabaseAfterStop: no marker unless the checkpoint was complete.
VerifyDatabaseAfterStop ==
  /\ Doing("stop", "verdict") /\ cmd' = Idle
  /\ IF database = "absent" THEN marker' = FALSE /\ UNCHANGED <<database, blind>>
     ELSE \E complete \in {TRUE} \cup {b \in {FALSE} : database # "clean"} :
            /\ marker' = (marker \/ complete) /\ blind' = (blind \/ (complete /\ lost))
            /\ database' = IF complete /\ database = "wal" THEN "clean" ELSE database
  /\ UNCHANGED <<config, pid, backups, admin, procs, faults, orphaned, lost, halfway>>

-----------------------------------------------------------------------------
\* cleanup-db

\* Refused while a process of the PID file lives; of the API only its wrapper is looked at.
CmdCleanupDb ==
  /\ cmd = Idle /\ pid \notin wrappers \cup webs /\ database # "absent"
  /\ marker' = FALSE /\ cmd' = [op |-> "cleanup", pc |-> "backup"]
  /\ backups' = {b \in {"earlier"} : backups # {}}
  /\ orphaned' = (orphaned \/ pid \in apis)
  /\ UNCHANGED <<config, pid, admin, database, procs, faults, lost, blind, halfway>>

\* The backup and the database are checked before anything is rewritten.
BackUp ==
  /\ Doing("cleanup", "backup") /\ backups' = backups \cup {"own"}
  /\ \/ cmd' = Idle /\ UNCHANGED lost
     \/ ~Damaged /\ GoTo("vacuum") /\ lost' = FALSE
  /\ UNCHANGED <<config, marker, pid, admin, database, procs, faults, orphaned, blind, halfway>>

\* Written back as the last connection is closed, which it is not beside an API.
Vacuumed == IF apis = {} THEN "clean" ELSE "wal"

Vacuum ==
  /\ Doing("cleanup", "vacuum") /\ cmd' \in {Idle, [cmd EXCEPT !.pc = "check"]}
  /\ database' \in {d \in {Vacuumed, "spoiled"} : cmd' # Idle} \cup {d \in {database} : cmd' = Idle}
  /\ lost' = (database' = "spoiled")
  /\ UNCHANGED <<files, procs, faults, orphaned, blind, halfway>>

CheckAfterVacuum ==
  /\ Doing("cleanup", "check")
  /\ IF Damaged THEN cmd' = Idle ELSE GoTo("finish")
  /\ UNCHANGED <<files, database, procs, histories>>

DeleteBackup ==
  /\ Doing("cleanup", "finish") /\ cmd' = Idle /\ backups' = backups \ {"own"} /\ marker' = TRUE
  /\ UNCHANGED <<config, pid, admin, database, procs, histories>>

-----------------------------------------------------------------------------
\* The processes and the machine.

\* The API runs the migrations, recovers what was in flight, then listens; it dies if
\* another API has the port.
ApiListens(a) ==
  /\ a \in apis /\ port # a
  /\ IF port = 0 THEN port' = a /\ UNCHANGED <<apis, wrappers>> ELSE ApiEnds(a)
  /\ database' = IF database = "clean" THEN "wal" ELSE database
  /\ UNCHANGED <<files, cmd, spawned, webs, histories>>

ApiWrites ==
  /\ port # 0 /\ database = "clean" /\ database' = "wal"
  /\ UNCHANGED <<files, cmd, procs, histories>>

\* A process dies by itself.
ProcessDies ==
  /\ Fault
  /\ \/ \E a \in apis : ApiEnds(a) /\ UNCHANGED webs
     \/ \E a \in wrappers : wrappers' = wrappers \ {a} /\ UNCHANGED <<apis, webs, port>>
     \/ \E w \in webs : webs' = webs \ {w} /\ UNCHANGED <<apis, wrappers, port>>
  /\ UNCHANGED <<files, database, cmd, spawned, orphaned, lost, blind, halfway>>

\* The command is interrupted: between two of its steps.
CommandKilled ==
  /\ cmd # Idle /\ Fault /\ cmd' = Idle
  /\ orphaned' = (orphaned \/ Doing("start", "record"))
  /\ halfway' = (halfway \/ (config /\ FirstRun))
  /\ UNCHANGED <<files, database, procs, lost, blind>>

\* What was being written may be damaged.
PowerLoss ==
  /\ Fault /\ apis' = {} /\ wrappers' = {} /\ webs' = {} /\ port' = 0 /\ cmd' = Idle
  /\ halfway' = (halfway \/ (config /\ FirstRun))
  /\ database' \in {database} \cup {d \in {"damaged"} : apis # {}}
                                \cup {d \in {"spoiled"} : Doing("cleanup", "vacuum")}
  /\ lost' = TRUE
  /\ UNCHANGED <<files, spawned, orphaned, blind>>

-----------------------------------------------------------------------------
LauncherNext ==
  \/ CmdStart \/ VerifyDatabase \/ ResolveConfig \/ RunPrismaMigrations \/ CreateAdminUser
  \/ EnsureWebBuild \/ SpawnDetached \/ WritePidFile \/ WaitForStartup
  \/ CmdStop \/ GroupExits \/ StopTimesOut \/ StopWaited \/ VerifyDatabaseAfterStop
  \/ CmdCleanupDb \/ BackUp \/ Vacuum \/ CheckAfterVacuum \/ DeleteBackup
  \/ (\E a \in apis : ApiListens(a)) \/ ApiWrites \/ ProcessDies \/ CommandKilled \/ PowerLoss

LauncherSpec == LauncherInit /\ [][LauncherNext]_launcherVars

-----------------------------------------------------------------------------
\* The marker means that nothing runs and the database was written back, so that the start
\* which trusts it does not open a damaged one: no API serves a damaged database. Excepted
\* are an API left running that a command did not find by the PID file, and a stop after a
\* loss of power or a failed cleanup, which writes the marker without a check.
MarkerIsTrue == ~orphaned /\ ~blind =>
  /\ marker => apis = {} /\ database \in {"absent", "clean"}
  /\ port # 0 => ~Damaged

\* A database spoiled by a cleanup has a backup.
BackupIsKept == database = "spoiled" => backups # {}

\* Whoever serves has an administrator, unless the first bootstrap was cut short.
AdminExists == port # 0 /\ ~halfway => admin

LauncherSafe == MarkerIsTrue /\ BackupIsKept /\ AdminExists
=============================================================================

--------------------------- MODULE ProviderSwitch ---------------------------
(***************************************************************************)
(* The switch of the AI providers of the whole host: a lease in the        *)
(* database keeps turns out while cc-switch rewrites the configuration of  *)
(* both backends.  Several API processes may share the database.           *)
(* (settings.service.ts, cc-switch.client.ts, turns.service.ts)            *)
(***************************************************************************)
EXTENDS Naturals, Sequences, SequencesExt

CONSTANTS
  Instances,      \* API processes
  Nobody,
  MaxSwitchFaults,\* bound on failed commands and database calls, stalls and crashes
  MaxNewTurns     \* bound on turns created

ASSUME ProviderAssumption ==
  Nobody \notin Instances /\ MaxSwitchFaults \in Nat /\ MaxNewTurns \in Nat

VARIABLES
  lease,        \* RuntimeControl: [owner, held, expired]
  provider,     \* the current provider of each backend
  switch,       \* per instance, where updateCcSwitchProviders stands
  turnActive,   \* some turn is active
  turns, switchFaults,
  disturbed     \* history: a fault could have left the providers apart

switchVars == <<lease, provider, switch, turnActive, turns, switchFaults, disturbed>>

Apps == {"codex", "claude"}
NoSwitch == [pc |-> "idle", done |-> <<>>, before |-> [codex |-> "old", claude |-> "old"], lost |-> FALSE]
NoLease == [owner |-> Nobody, held |-> FALSE, expired |-> FALSE]
LeaseActive == lease.held /\ ~lease.expired

ProviderTypeOK ==
  /\ lease \in [owner : Instances \cup {Nobody}, held : BOOLEAN, expired : BOOLEAN]
  /\ provider \in [codex : {"old", "new"}, claude : {"old", "new"}]
  /\ switch \in [Instances ->
       [pc : {"idle", "discover", "renew", "command", "rollback", "reset", "release"},
        done : Seq({"codex", "claude"}),
        before : [codex : {"old", "new"}, claude : {"old", "new"}], lost : BOOLEAN]]
  /\ turnActive \in BOOLEAN /\ disturbed \in BOOLEAN
  /\ turns \in 0..MaxNewTurns /\ switchFaults \in 0..MaxSwitchFaults

ProviderInit ==
  /\ lease = NoLease /\ provider = [codex |-> "old", claude |-> "old"]
  /\ switch = [i \in Instances |-> NoSwitch]
  /\ turnActive = FALSE /\ turns = 0 /\ switchFaults = 0 /\ disturbed = FALSE

SwitchFault == switchFaults < MaxSwitchFaults /\ switchFaults' = switchFaults + 1
At(i, pc) == switch' = [switch EXCEPT ![i].pc = pc]

-----------------------------------------------------------------------------
\* Turns.

\* assertProviderSwitchAllowsTurn and the insertion, in one transaction: an active lease
\* refuses the turn, an expired one is cleared.
AdmitTurn ==
  /\ turns < MaxNewTurns /\ ~turnActive /\ ~LeaseActive
  /\ lease' = IF lease.held THEN NoLease ELSE lease
  /\ turnActive' = TRUE /\ turns' = turns + 1
  /\ UNCHANGED <<provider, switch, switchFaults, disturbed>>

EndTurn ==
  /\ turnActive /\ turnActive' = FALSE
  /\ UNCHANGED <<lease, provider, switch, turns, switchFaults, disturbed>>

-----------------------------------------------------------------------------
\* updateCcSwitchProviders; one at a time in a process.

Acquire_IgnoresTurns(i) ==
  /\ switch[i].pc = "idle" /\ ~LeaseActive
  /\ lease' = [owner |-> i, held |-> TRUE, expired |-> FALSE]
  /\ switch' = [switch EXCEPT ![i] = [NoSwitch EXCEPT !.pc = "discover"]]
  /\ UNCHANGED <<provider, turnActive, turns, switchFaults, disturbed>>

\* acquireProviderSwitchLease: one transaction. A lease that a living owner let expire passes.
Acquire(i) ==
  /\ switch[i].pc = "idle" /\ ~LeaseActive /\ ~turnActive
  /\ provider # [codex |-> "new", claude |-> "new"]
  /\ lease' = [owner |-> i, held |-> TRUE, expired |-> FALSE]
  /\ switch' = [switch EXCEPT ![i] = [NoSwitch EXCEPT !.pc = "discover"]]
  /\ UNCHANGED <<provider, turnActive, turns, switchFaults, disturbed>>

\* The providers are listed; a refusal of any kind ends the request.
Discover(i) ==
  /\ switch[i].pc = "discover"
  /\ switch' = [switch EXCEPT ![i].before = provider,
                              ![i].pc = IF switch[i].lost THEN "release" ELSE "renew"]
  /\ UNCHANGED <<lease, provider, turnActive, turns, switchFaults, disturbed>>

Refuse(i) ==
  /\ switch[i].pc = "discover"
  /\ At(i, "release")
  /\ UNCHANGED <<lease, provider, turnActive, turns, switchFaults, disturbed>>

\* One UPDATE that finds the lease only while it is this owner's.
Renewed(i) == lease.held /\ lease.owner = i
RenewLease(i) == lease' = IF Renewed(i) THEN [lease EXCEPT !.expired = FALSE] ELSE lease

\* What is left to switch, Codex first.
Left(i) == {a \in Apps : switch[i].before[a] = "old" /\ ~Contains(switch[i].done, a)}
NextApp(i) == IF "codex" \in Left(i) THEN "codex" ELSE "claude"

\* The renewal before each command, and before the workers are reset.
Renew(i) ==
  /\ switch[i].pc = "renew"
  /\ RenewLease(i)
  /\ switch' = [switch EXCEPT ![i].lost = @ \/ ~Renewed(i),
                              ![i].pc = IF switch[i].lost \/ ~Renewed(i)
                                        THEN (IF Left(i) = {} THEN "release" ELSE "rollback")
                                        ELSE IF Left(i) = {} THEN "reset" ELSE "command"]
  /\ UNCHANGED <<provider, turnActive, turns, switchFaults, disturbed>>

\* The timer that renews while the switch goes on.
Heartbeat(i) ==
  /\ switch[i].pc \in {"discover", "command", "rollback", "reset", "release"} /\ ~switch[i].lost
  /\ RenewLease(i)
  /\ switch' = [switch EXCEPT ![i].lost = ~Renewed(i)]
  /\ UNCHANGED <<provider, turnActive, turns, switchFaults, disturbed>>

RenewalFails(i) ==
  /\ switch[i].pc \in {"discover", "renew", "command", "reset"} /\ ~switch[i].lost /\ SwitchFault
  /\ switch' = [switch EXCEPT ![i].lost = TRUE]
  /\ UNCHANGED <<lease, provider, turnActive, turns, disturbed>>

\* switchProvider has run; the next command, the rollback, or the end.
Command(i) ==
  LET a == NextApp(i) IN
  /\ switch[i].pc = "command"
  /\ provider' = [provider EXCEPT ![a] = "new"]
  /\ switch' = [switch EXCEPT ![i].done = Append(@, a),
                              ![i].pc = IF switch[i].lost THEN "rollback"
                                        ELSE IF Left(i) = {a} /\ switch[i].before.codex = "new"
                                             THEN "release" ELSE "renew"]
  /\ UNCHANGED <<lease, turnActive, turns, switchFaults, disturbed>>

\* It failed, before or after cc-switch took effect (the model catalogue is written last).
CommandFails(i) ==
  LET a == NextApp(i) IN
  /\ switch[i].pc = "command" /\ SwitchFault
  /\ \E v \in {provider[a], "new"} :
       /\ provider' = [provider EXCEPT ![a] = v]
       /\ disturbed' = (disturbed \/ v # provider[a])
  /\ At(i, "rollback")
  /\ UNCHANGED <<lease, turnActive, turns>>

\* One command of the rollback, the last switched first; an error of it is only logged.
Rollback(i) ==
  /\ switch[i].pc = "rollback"
  /\ IF switch[i].done = <<>> THEN At(i, "release") /\ UNCHANGED provider
     ELSE LET a == Last(switch[i].done) IN
          /\ provider' = [provider EXCEPT ![a] = switch[i].before[a]]
          /\ switch' = [switch EXCEPT ![i].done = Front(@)]
  /\ UNCHANGED <<lease, turnActive, turns, switchFaults, disturbed>>

RollbackFails(i) ==
  /\ switch[i].pc = "rollback" /\ switch[i].done # <<>> /\ SwitchFault
  /\ switch' = [switch EXCEPT ![i].done = Front(@)]
  /\ disturbed' = TRUE
  /\ UNCHANGED <<lease, provider, turnActive, turns>>

\* resetWorkers, for the Codex workers; its failure is an error of the request, which ends
\* with the providers switched.
ResetWorkers(i) ==
  /\ switch[i].pc = "reset"
  /\ At(i, "release")
  /\ UNCHANGED <<lease, provider, turnActive, turns, switchFaults, disturbed>>

\* The finally block: the lease of this owner only.
Release(i) ==
  /\ switch[i].pc = "release"
  /\ lease' = IF lease.owner = i THEN NoLease ELSE lease
  /\ switch' = [switch EXCEPT ![i] = NoSwitch]
  /\ UNCHANGED <<provider, turnActive, turns, switchFaults, disturbed>>

ReleaseFails(i) ==
  /\ switch[i].pc = "release" /\ SwitchFault
  /\ switch' = [switch EXCEPT ![i] = NoSwitch]
  /\ UNCHANGED <<lease, provider, turnActive, turns, disturbed>>

-----------------------------------------------------------------------------
\* A process dies in the middle of a switch.
SwitchCrash(i) ==
  /\ switch[i].pc # "idle" /\ SwitchFault
  /\ switch' = [switch EXCEPT ![i] = NoSwitch]
  /\ disturbed' = TRUE
  /\ UNCHANGED <<lease, provider, turnActive, turns>>

Beating(i) == switch[i].pc # "idle" /\ ~switch[i].lost

\* 2 min without a renewal: nobody renews any more, or the owner's process was stalled.
Expire ==
  /\ LeaseActive
  /\ lease' = [lease EXCEPT !.expired = TRUE]
  /\ IF Beating(lease.owner) THEN SwitchFault /\ disturbed' = TRUE
     ELSE /\ UNCHANGED switchFaults
          /\ disturbed' = (disturbed \/ switch[lease.owner].pc # "idle")
  /\ UNCHANGED <<provider, switch, turnActive, turns>>

\* Its awaited calls return.
SwitchMoves(i) ==
  Discover(i) \/ Renew(i) \/ Command(i) \/ Rollback(i) \/ ResetWorkers(i) \/ Release(i)

ProviderNext ==
  \/ AdmitTurn \/ EndTurn \/ Expire
  \/ \E i \in Instances :
       \/ Acquire(i) \/ SwitchMoves(i) \/ Refuse(i) \/ Heartbeat(i) \/ RenewalFails(i)
       \/ CommandFails(i) \/ RollbackFails(i) \/ ReleaseFails(i) \/ SwitchCrash(i)

ProviderSpec == ProviderInit /\ [][ProviderNext]_switchVars

-----------------------------------------------------------------------------
\* No turn is active while the holder of a live lease runs a command of the switch
\* (acquireProviderSwitchLease, assertProviderSwitchAllowsTurn).
SwitchKeepsTurnsOut ==
  \A i \in Instances :
    switch[i].pc = "command" /\ LeaseActive /\ lease.owner = i => ~turnActive

\* When no switch goes on, both backends are on the same side of it, unless a command failed
\* half way, a rollback failed, a process died or a lease was lost (updateCcSwitchProviders).
NeverHalfSwitched ==
  (\A i \in Instances : switch[i].pc = "idle") /\ ~disturbed => provider.codex = provider.claude

SwitchSafe == SwitchKeepsTurnsOut /\ NeverHalfSwitched
=============================================================================

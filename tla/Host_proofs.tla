----------------------------- MODULE Host_proofs -----------------------------
(***************************************************************************)
(* The safety of what the host runs beside the turns, for any number of    *)
(* processes, connections, starts and faults: the switch of the providers  *)
(* (SwitchSafe), a terminal (TerminalSafe), the browsers that show one     *)
(* (ViewSafe), the launcher, which keeps its files true to what runs and   *)
(* to the database (LauncherSafe), and the accounts with their logins      *)
(* (AccountsSafe).                                                         *)
(***************************************************************************)
EXTENDS ProviderSwitch, Terminals, TerminalViews, Launcher, Accounts, SequenceTheorems, TLAPS

-----------------------------------------------------------------------------
\* The switch of the providers (ProviderSwitch).

Pair == [codex : {"old", "new"}, claude : {"old", "new"}]
Old == [codex |-> "old", claude |-> "old"]
SwitchPcs == {"idle", "discover", "renew", "command", "rollback", "reset", "release"}
Switches == [pc : SwitchPcs, done : Seq({"codex", "claude"}), before : Pair, lost : BOOLEAN]
Orderly(done) ==
  Len(done) \in 0..2 /\ (Len(done) >= 1 => done[1] = "codex") /\ (Len(done) = 2 => done[2] = "claude")
After(n) == [codex |-> IF n = 0 THEN "old" ELSE "new", claude |-> IF n = 2 THEN "new" ELSE "old"]

\* A switch that nothing disturbed has switched the providers it says it has.
Consistent(s, p) ==
  /\ s.pc \in {"idle", "discover", "release"} => p.codex = p.claude
  /\ s.pc = "discover" => p = Old
  /\ s.pc = "reset" => p = After(2)
  /\ s.pc \in {"renew", "command", "rollback"} => s.before = Old /\ Orderly(s.done) /\ p = After(Len(s.done))
  /\ s.pc = "command" => Len(s.done) < 2
  /\ s.pc = "discover" => s.done = <<>>

\* Nobody is admitted while a lease is held; an undisturbed switch has a live one of its own,
\* so that there is one at a time.
SwitchInv ==
  /\ ProviderTypeOK
  /\ lease.held => ~turnActive
  /\ ~disturbed =>
       /\ \A i \in Instances : switch[i].pc # "idle" => lease.held /\ ~lease.expired /\ lease.owner = i
       /\ \A i \in Instances : switch[i].pc # "idle" => Consistent(switch[i], provider)
       /\ (\A i \in Instances : switch[i].pc = "idle") => provider.codex = provider.claude

LEMMA SwitchInit == ProviderInit => SwitchInv
<1> SUFFICES ASSUME ProviderInit PROVE SwitchInv
  OBVIOUS
<1>1. ProviderTypeOK
  <2>1. <<>> \in Seq({"codex", "claude"})
    OBVIOUS
  <2>2. NoSwitch \in Switches
    BY <2>1 DEF NoSwitch, Switches, SwitchPcs, Pair
  <2>3. switch \in [Instances -> Switches]
    BY <2>2 DEF ProviderInit
  <2>4. lease \in [owner : Instances \cup {Nobody}, held : BOOLEAN, expired : BOOLEAN]
    BY DEF ProviderInit, NoLease
  <2>5. turns \in 0..MaxNewTurns /\ switchFaults \in 0..MaxSwitchFaults
    BY ProviderAssumption DEF ProviderInit
  <2> QED
    BY <2>3, <2>4, <2>5 DEF ProviderInit, ProviderTypeOK, Switches, SwitchPcs, Pair
<1>2. \A i \in Instances : switch[i].pc = "idle"
  BY DEF ProviderInit, NoSwitch
<1>3. ~lease.held /\ provider.codex = provider.claude
  BY DEF ProviderInit, NoLease
<1> QED
  BY <1>1, <1>2, <1>3 DEF SwitchInv

\* A step of a switch that leaves the lease as it is.
LEMMA SwitchStays ==
  ASSUME SwitchInv, NEW i \in Instances, NEW s \in Switches, NEW p \in Pair, switch[i].pc # "idle",
         switch' = [switch EXCEPT ![i] = s], provider' = p, UNCHANGED <<lease, turnActive, turns>>,
         switchFaults' \in 0..MaxSwitchFaults, disturbed' \in BOOLEAN, disturbed => disturbed',
         ~disturbed' => s.pc # "idle" /\ Consistent(s, p)
  PROVE  SwitchInv'
<1>1. ProviderTypeOK'
  BY DEF SwitchInv, ProviderTypeOK, Switches, SwitchPcs, Pair
<1>2. ASSUME ~disturbed' PROVE \A j \in Instances : j # i => switch[j].pc = "idle"
  BY <1>2 DEF SwitchInv, ProviderTypeOK
<1>3. \A j \in Instances : switch'[j] = IF j = i THEN s ELSE switch[j]
  BY DEF SwitchInv, ProviderTypeOK
<1> QED
  BY <1>1, <1>2, <1>3 DEF SwitchInv

\* What is left of a switch that has done one after the other.
LEMMA LeftOfOrder ==
  ASSUME NEW i \in Instances, switch[i].before = Old, switch[i].done \in Seq({"codex", "claude"}),
         Orderly(switch[i].done)
  PROVE  /\ Len(switch[i].done) = 0 => Left(i) = {"codex", "claude"} /\ NextApp(i) = "codex"
         /\ Len(switch[i].done) = 1 => Left(i) = {"claude"} /\ NextApp(i) = "claude"
         /\ Len(switch[i].done) = 2 => Left(i) = {}
<1> DEFINE d == switch[i].done
<1>1. Contains(d, "codex") <=> Len(d) >= 1
  BY DEF Contains, Orderly
<1>2. Contains(d, "claude") <=> Len(d) = 2
  BY DEF Contains, Orderly
<1>3. Left(i) = {a \in {"codex", "claude"} : ~Contains(d, a)}
  BY DEF Left, Apps, Old
<1>4. Len(d) = 0 => Left(i) = {"codex", "claude"}
  BY <1>1, <1>2, <1>3
<1>5. Len(d) = 1 => Left(i) = {"claude"}
  BY <1>1, <1>2, <1>3
<1>6. Len(d) = 2 => Left(i) = {}
  BY <1>1, <1>2, <1>3
<1> QED
  BY <1>4, <1>5, <1>6 DEF NextApp

LEMMA OrderGrows ==
  ASSUME NEW d \in Seq({"codex", "claude"}), Orderly(d)
  PROVE  /\ Len(d) = 0 => Orderly(Append(d, "codex")) /\ Len(Append(d, "codex")) = 1
         /\ Len(d) = 1 => Orderly(Append(d, "claude")) /\ Len(Append(d, "claude")) = 2
         /\ d # <<>> => /\ Front(d) \in Seq({"codex", "claude"})
                        /\ Orderly(Front(d)) /\ Len(Front(d)) = Len(d) - 1
                        /\ Last(d) = IF Len(d) = 1 THEN "codex" ELSE "claude"
<1>1. ASSUME Len(d) = 0 PROVE Orderly(Append(d, "codex")) /\ Len(Append(d, "codex")) = 1
  BY <1>1 DEF Orderly
<1>2. ASSUME Len(d) = 1 PROVE Orderly(Append(d, "claude")) /\ Len(Append(d, "claude")) = 2
  BY <1>2 DEF Orderly
<1>3. ASSUME d # <<>>
      PROVE /\ Front(d) \in Seq({"codex", "claude"})
            /\ Orderly(Front(d)) /\ Len(Front(d)) = Len(d) - 1
            /\ Last(d) = IF Len(d) = 1 THEN "codex" ELSE "claude"
  <2>1. Len(d) \in 1..2
    BY <1>3 DEF Orderly
  <2>2. /\ Front(d) \in Seq({"codex", "claude"}) /\ Len(Front(d)) = Len(d) - 1
        /\ \A k \in 1..(Len(d) - 1) : Front(d)[k] = d[k]
    BY <2>1 DEF Front
  <2> QED
    BY <2>1, <2>2 DEF Orderly, Last
<1> QED
  BY <1>1, <1>2, <1>3

LEMMA SwitchKept == SwitchInv /\ [ProviderNext]_switchVars => SwitchInv'
<1> SUFFICES ASSUME SwitchInv, [ProviderNext]_switchVars PROVE SwitchInv'
  OBVIOUS
<1>t. /\ switch \in [Instances -> Switches] /\ provider \in Pair
      /\ lease \in [owner : Instances \cup {Nobody}, held : BOOLEAN, expired : BOOLEAN]
      /\ turns \in 0..MaxNewTurns /\ switchFaults \in 0..MaxSwitchFaults
      /\ turnActive \in BOOLEAN /\ disturbed \in BOOLEAN
  BY DEF SwitchInv, ProviderTypeOK, Switches, SwitchPcs, Pair
<1>f. ASSUME SwitchFault PROVE switchFaults' \in 0..MaxSwitchFaults
  BY <1>t, <1>f, ProviderAssumption DEF SwitchFault
<1>i. NoSwitch \in Switches
  BY DEF NoSwitch, Switches, SwitchPcs, Pair
<1>1. CASE UNCHANGED switchVars
  BY <1>1 DEF switchVars, SwitchInv, ProviderTypeOK, Consistent
<1>2. CASE AdmitTurn
  <2>1. ~lease'.held /\ turnActive' = TRUE
    BY <1>2, <1>t DEF AdmitTurn, NoLease
  <2>2. ProviderTypeOK'
    BY <1>2, <1>t, ProviderAssumption DEF AdmitTurn, NoLease, ProviderTypeOK, Switches, SwitchPcs, Pair
  <2>3. ~disturbed => \A i \in Instances : switch[i].pc = "idle"
    BY <1>2 DEF AdmitTurn, LeaseActive, SwitchInv
  <2> QED
    BY <1>2, <2>1, <2>2, <2>3 DEF AdmitTurn, SwitchInv
<1>3. CASE EndTurn
  BY <1>3, <1>t DEF EndTurn, SwitchInv, ProviderTypeOK, Consistent
<1>4. CASE Expire
  <2>1. lease.owner \in Instances => (~disturbed' => switch[lease.owner].pc = "idle")
    BY <1>4, <1>t DEF Expire, Beating
  <2>2. ProviderTypeOK'
    BY <1>4, <1>t, <1>f DEF Expire, ProviderTypeOK, Switches, SwitchPcs, Pair
  <2>3. lease'.held /\ lease.held
    BY <1>4, <1>t DEF Expire, LeaseActive
  <2>4. ~disturbed' => ~disturbed /\ \A i \in Instances : switch[i].pc = "idle"
    BY <1>4, <1>t, <2>1 DEF Expire, SwitchInv
  <2> QED
    BY <1>4, <2>2, <2>3, <2>4 DEF Expire, SwitchInv
<1>5. ASSUME NEW i \in Instances, Acquire(i) PROVE SwitchInv'
  <2>1. ~disturbed => (\A j \in Instances : switch[j].pc = "idle") /\ provider = Old
    BY <1>5, <1>t DEF Acquire, LeaseActive, SwitchInv, Pair, Old
  <2>2. [NoSwitch EXCEPT !.pc = "discover"] \in Switches
    BY <1>i DEF Switches, SwitchPcs
  <2>3. \A j \in Instances : switch'[j] = IF j = i THEN [NoSwitch EXCEPT !.pc = "discover"] ELSE switch[j]
    BY <1>5, <1>t DEF Acquire
  <2>4. ProviderTypeOK'
    BY <1>5, <1>t, <2>2 DEF Acquire, ProviderTypeOK, Switches, SwitchPcs, Pair
  <2>5. Consistent([NoSwitch EXCEPT !.pc = "discover"], Old)
    BY DEF Consistent, NoSwitch, Old
  <2> QED
    BY <1>5, <2>1, <2>3, <2>4, <2>5, <1>t DEF Acquire, SwitchInv, NoSwitch
<1>6. ASSUME NEW i \in Instances, switch[i].pc # "idle", switch' = [switch EXCEPT ![i] = NoSwitch],
             UNCHANGED <<provider, turnActive, turns>>, switchFaults' \in 0..MaxSwitchFaults,
             disturbed' \in BOOLEAN, disturbed => disturbed', switch[i].pc # "release" => disturbed',
             lease' \in {lease, NoLease}
      PROVE  SwitchInv'
  <2>1. \A j \in Instances : switch'[j] = IF j = i THEN NoSwitch ELSE switch[j]
    BY <1>6, <1>t
  <2>2. ProviderTypeOK'
    <3>1. lease' \in [owner : Instances \cup {Nobody}, held : BOOLEAN, expired : BOOLEAN]
      <4>1. NoLease \in [owner : Instances \cup {Nobody}, held : BOOLEAN, expired : BOOLEAN]
        BY DEF NoLease
      <4> QED
        BY <4>1, <1>6, <1>t
    <3>2. switch' \in [Instances -> Switches]
      BY <1>6, <1>t, <1>i
    <3>3. turns' \in 0..MaxNewTurns /\ provider' \in Pair /\ turnActive' \in BOOLEAN
      BY <1>6, <1>t
    <3> QED
      BY <1>6, <3>1, <3>2, <3>3 DEF ProviderTypeOK, Switches, SwitchPcs, Pair
  <2>3. ~disturbed' => provider.codex = provider.claude /\ \A j \in Instances : switch'[j].pc = "idle"
    BY <1>6, <2>1, <1>t DEF SwitchInv, Consistent, NoSwitch
  <2>4. lease'.held => ~turnActive
    BY <1>6, <1>t DEF SwitchInv, NoLease
  <2> QED
    BY <1>6, <2>2, <2>3, <2>4 DEF SwitchInv
<1>7. ASSUME NEW i \in Instances, Release(i) \/ ReleaseFails(i) \/ SwitchCrash(i) PROVE SwitchInv'
  BY <1>6, <1>7, <1>t, <1>f DEF Release, ReleaseFails, SwitchCrash
<1>8. ASSUME NEW i \in Instances, Discover(i) PROVE SwitchInv'
  <2> DEFINE s == [switch[i] EXCEPT !.before = provider, !.pc = IF switch[i].lost THEN "release" ELSE "renew"]
  <2>1. s \in Switches /\ switch' = [switch EXCEPT ![i] = s]
    BY <1>8, <1>t DEF Discover, Switches, SwitchPcs, Pair
  <2>2. ~disturbed => s.pc # "idle" /\ Consistent(s, provider)
    BY <1>8, <1>t DEF Discover, SwitchInv, Consistent, Orderly, After, Old, Switches, SwitchPcs, Pair
  <2>3. switch[i].pc # "idle" /\ UNCHANGED <<lease, provider, turnActive, turns, switchFaults, disturbed>>
    BY <1>8 DEF Discover
  <2> QED
    BY <1>t, <2>1, <2>2, <2>3, SwitchStays
<1>9. ASSUME NEW i \in Instances, Refuse(i) PROVE SwitchInv'
  <2> DEFINE s == [switch[i] EXCEPT !.pc = "release"]
  <2>1. s \in Switches /\ switch' = [switch EXCEPT ![i] = s]
    BY <1>9, <1>t DEF Refuse, At, Switches, SwitchPcs
  <2>2. ~disturbed => s.pc # "idle" /\ Consistent(s, provider)
    BY <1>9, <1>t DEF Refuse, SwitchInv, Consistent, Switches
  <2> QED
    BY <1>9, <1>t, <2>1, <2>2, SwitchStays DEF Refuse
<1>10. ASSUME NEW i \in Instances, ResetWorkers(i) PROVE SwitchInv'
  <2> DEFINE s == [switch[i] EXCEPT !.pc = "release"]
  <2>1. s \in Switches /\ switch' = [switch EXCEPT ![i] = s]
    BY <1>10, <1>t, ZenonT(60) DEF ResetWorkers, At, Switches, SwitchPcs
  <2>2. ~disturbed => s.pc # "idle" /\ Consistent(s, provider)
    BY <1>10, <1>t DEF ResetWorkers, SwitchInv, Consistent, Switches, After
  <2> QED
    BY <1>10, <1>t, <2>1, <2>2, SwitchStays DEF ResetWorkers
<1>11. ASSUME NEW i \in Instances, NEW b \in BOOLEAN, switch[i].pc # "idle",
              switch' = [switch EXCEPT ![i].lost = b], UNCHANGED <<provider, turnActive, turns, disturbed>>,
              switchFaults' \in 0..MaxSwitchFaults,
              lease' = lease \/ (lease.held /\ lease' = [lease EXCEPT !.expired = FALSE])
       PROVE  SwitchInv'
  <2> DEFINE s == [switch[i] EXCEPT !.lost = b]
  <2>1. s \in Switches /\ switch' = [switch EXCEPT ![i] = s]
    BY <1>11, <1>t DEF Switches
  <2>2. \A j \in Instances : switch'[j] = IF j = i THEN s ELSE switch[j]
    BY <2>1, <1>t
  <2>3. s.pc = switch[i].pc /\ (Consistent(switch[i], provider) => Consistent(s, provider))
    BY <1>t DEF Switches, Consistent
  <2>4. /\ lease' \in [owner : Instances \cup {Nobody}, held : BOOLEAN, expired : BOOLEAN]
        /\ lease'.owner = lease.owner /\ (lease'.held => lease.held)
        /\ lease.held => lease'.held
        /\ ~lease.expired => ~lease'.expired
    BY <1>11, <1>t
  <2>5. switch' \in [Instances -> Switches]
    BY <2>1, <1>t
  <2>6. ProviderTypeOK'
    BY <1>11, <1>t, <2>4, <2>5 DEF ProviderTypeOK, Switches, SwitchPcs, Pair
  <2> QED
    BY <1>11, <2>2, <2>3, <2>4, <2>6 DEF SwitchInv
<1>12. ASSUME NEW i \in Instances, Heartbeat(i) \/ RenewalFails(i) PROVE SwitchInv'
  BY <1>11, <1>12, <1>t, <1>f DEF Heartbeat, RenewalFails, RenewLease, Renewed
<1>13. ASSUME NEW i \in Instances, Renew(i) PROVE SwitchInv'
  <2> DEFINE s == [switch[i] EXCEPT !.lost = @ \/ ~Renewed(i),
                                    !.pc = IF switch[i].lost \/ ~Renewed(i)
                                           THEN (IF Left(i) = {} THEN "release" ELSE "rollback")
                                           ELSE IF Left(i) = {} THEN "reset" ELSE "command"]
  <2>1. switch' = [switch EXCEPT ![i] = s] /\ s \in Switches
    BY <1>13, <1>t DEF Renew, Switches, SwitchPcs
  <2>2. \A j \in Instances : switch'[j] = IF j = i THEN s ELSE switch[j]
    BY <2>1, <1>t
  <2>3. s.pc # "idle" /\ s.pc # "discover" /\ switch[i].pc = "renew"
    BY <1>13, <1>t DEF Renew, Switches
  <2>4. ASSUME ~disturbed PROVE Consistent(s, provider)
    <3>1. switch[i].before = Old /\ Orderly(switch[i].done) /\ provider = After(Len(switch[i].done))
      BY <2>3, <2>4 DEF SwitchInv, Consistent
    <3>d. switch[i].done \in Seq({"codex", "claude"}) /\ Len(switch[i].done) \in 0..2
      BY <1>t, <3>1 DEF Orderly, Switches
    <3>2. (Left(i) = {}) <=> Len(switch[i].done) = 2
      <4>1. Len(switch[i].done) = 0 => "codex" \in Left(i)
        BY <3>1, <3>d, LeftOfOrder
      <4>2. Len(switch[i].done) = 1 => "claude" \in Left(i)
        BY <3>1, <3>d, LeftOfOrder
      <4>3. Len(switch[i].done) = 2 => Left(i) = {}
        BY <3>1, <3>d, LeftOfOrder
      <4> QED
        BY <3>d, <4>1, <4>2, <4>3
    <3>3. s.before = Old /\ s.done = switch[i].done
      BY <3>1, <1>t DEF Switches
    <3>4. s.pc = IF switch[i].lost \/ ~Renewed(i)
                 THEN (IF Left(i) = {} THEN "release" ELSE "rollback")
                 ELSE IF Left(i) = {} THEN "reset" ELSE "command"
      BY <1>t DEF Switches
    <3> HIDE DEF s
    <3>5. s.pc \in {"release", "reset"} => Len(s.done) = 2
      BY <3>2, <3>3, <3>4
    <3>6. s.pc = "command" => Len(s.done) < 2
      <4>1. s.pc = "command" => Left(i) # {}
        BY <3>4
      <4>2. s.pc = "command" => Len(switch[i].done) # 2
        BY <4>1, <3>2
      <4> DEFINE n == Len(switch[i].done)
      <4>0. n \in 0..2
        BY <3>d
      <4> HIDE DEF n
      <4>3. n # 2 => n < 2
        BY <4>0
      <4>4. Len(s.done) = Len(switch[i].done)
        BY <3>3
      <4> QED
        BY <4>2, <4>3, <4>4 DEF n
    <3>7. s.pc \in {"release", "reset"} => provider = After(2)
      BY <3>1, <3>3, <3>5
    <3>8. s.pc = "release" => provider.codex = provider.claude
      BY <3>7 DEF After
    <3> QED
      BY <2>3, <3>1, <3>3, <3>4, <3>6, <3>7, <3>8 DEF Consistent
  <2>5. /\ lease' \in [owner : Instances \cup {Nobody}, held : BOOLEAN, expired : BOOLEAN]
        /\ lease'.owner = lease.owner /\ (lease'.held => lease.held)
        /\ lease.held => lease'.held
        /\ ~lease.expired => ~lease'.expired
    BY <1>13, <1>t DEF Renew, RenewLease, Renewed
  <2>6. switch' \in [Instances -> Switches]
    BY <2>1, <1>t
  <2>7. ProviderTypeOK'
    BY <1>13, <1>t, <2>5, <2>6 DEF Renew, ProviderTypeOK, Switches, SwitchPcs, Pair
  <2>8. UNCHANGED <<provider, turnActive, disturbed>>
    BY <1>13 DEF Renew
  <2>9. switch'[i].pc # "idle"
    BY <2>2, <2>3
  <2> HIDE DEF s
  <2>10. lease'.held => ~turnActive'
    BY <2>5, <2>8 DEF SwitchInv
  <2>11. ASSUME ~disturbed'
         PROVE \A j \in Instances : switch'[j].pc # "idle" =>
                 /\ lease'.held /\ ~lease'.expired /\ lease'.owner = j
                 /\ Consistent(switch'[j], provider')
    BY <2>2, <2>3, <2>4, <2>5, <2>8, <2>11 DEF SwitchInv
  <2> QED
    BY <2>7, <2>9, <2>10, <2>11 DEF SwitchInv
<1>14. ASSUME NEW i \in Instances, switch[i].pc = "command" /\ ~disturbed
       PROVE  /\ Len(switch[i].done) \in 0..1 /\ provider = After(Len(switch[i].done)) /\ switch[i].before = Old
              /\ Orderly(switch[i].done) /\ NextApp(i) = IF Len(switch[i].done) = 0 THEN "codex" ELSE "claude"
              /\ Orderly(Append(switch[i].done, NextApp(i)))
              /\ Len(Append(switch[i].done, NextApp(i))) = Len(switch[i].done) + 1
  <2>1. /\ switch[i].before = Old /\ Orderly(switch[i].done) /\ provider = After(Len(switch[i].done))
        /\ Len(switch[i].done) < 2 /\ switch[i].done \in Seq({"codex", "claude"})
    BY <1>14, <1>t DEF SwitchInv, Consistent, Switches
  <2>2. Len(switch[i].done) \in 0..1
    BY <2>1 DEF Orderly
  <2>3. CASE Len(switch[i].done) = 0
    BY <2>1, <2>3, LeftOfOrder, OrderGrows
  <2>4. CASE Len(switch[i].done) = 1
    BY <2>1, <2>4, LeftOfOrder, OrderGrows
  <2> QED
    BY <2>2, <2>3, <2>4, <2>1
<1>15. ASSUME NEW i \in Instances, Command(i) PROVE SwitchInv'
  <2> DEFINE a == NextApp(i)
             p == [provider EXCEPT ![a] = "new"]
             s == [switch[i] EXCEPT !.done = Append(@, a),
                                    !.pc = IF switch[i].lost THEN "rollback"
                                           ELSE IF Left(i) = {a} /\ switch[i].before.codex = "new"
                                                THEN "release" ELSE "renew"]
  <2>1. a \in {"codex", "claude"}
    BY DEF NextApp
  <2>2. switch' = [switch EXCEPT ![i] = s] /\ provider' = p
    BY <1>15, <1>t DEF Command, Switches
  <2>3. s \in Switches /\ p \in Pair
    <3> HIDE DEF a
    <3>1. Append(switch[i].done, a) \in Seq({"codex", "claude"})
      BY <2>1, <1>t DEF Switches
    <3>2. s \in Switches
      BY <3>1, <1>t, ZenonT(60) DEF Switches, SwitchPcs
    <3>3. p \in Pair
      BY <2>1, <1>t DEF Pair
    <3> QED
      BY <3>2, <3>3
  <2>4. ASSUME ~disturbed PROVE s.pc # "idle" /\ Consistent(s, p)
    <3>1. switch[i].pc = "command"
      BY <1>15 DEF Command
    <3>2. /\ Len(switch[i].done) \in 0..1 /\ provider = After(Len(switch[i].done)) /\ switch[i].before = Old
          /\ a = IF Len(switch[i].done) = 0 THEN "codex" ELSE "claude"
          /\ Orderly(Append(switch[i].done, a)) /\ Len(Append(switch[i].done, a)) = Len(switch[i].done) + 1
      BY <1>14, <2>4, <3>1
    <3>3. p = After(Len(switch[i].done) + 1)
      <4> HIDE DEF a
      <4>1. CASE Len(switch[i].done) = 0
        <5>1. a = "codex" /\ provider = Old
          BY <3>2, <4>1 DEF After, Old
        <5>2. p = [codex |-> "new", claude |-> "old"]
          BY <5>1 DEF Old
        <5> QED
          BY <5>2, <4>1 DEF After
      <4>2. CASE Len(switch[i].done) = 1
        <5>1. a = "claude" /\ provider = [codex |-> "new", claude |-> "old"]
          BY <3>2, <4>2 DEF After
        <5>2. p = [codex |-> "new", claude |-> "new"]
          BY <5>1
        <5> QED
          BY <5>2, <4>2 DEF After
      <4> QED
        BY <3>2, <4>1, <4>2
    <3>4. s.done = Append(switch[i].done, a) /\ s.before = Old /\ s.pc \in {"rollback", "renew"}
      BY <3>2, <1>t DEF Switches, Old
    <3> HIDE DEF s, p, a
    <3> QED
      BY <3>2, <3>3, <3>4 DEF Consistent
  <2>5. /\ switch[i].pc # "idle" /\ UNCHANGED <<lease, turnActive, turns, switchFaults, disturbed>>
    BY <1>15 DEF Command
  <2> HIDE DEF s, p, a
  <2> QED
    BY <1>t, <2>2, <2>3, <2>4, <2>5, SwitchStays
<1>16. ASSUME NEW i \in Instances, CommandFails(i) PROVE SwitchInv'
  <2> DEFINE a == NextApp(i)
             s == [switch[i] EXCEPT !.pc = "rollback"]
  <2>1. a \in {"codex", "claude"}
    BY DEF NextApp
  <2>2. PICK v \in {provider[a], "new"} :
          provider' = [provider EXCEPT ![a] = v] /\ disturbed' = (disturbed \/ v # provider[a])
    BY <1>16 DEF CommandFails
  <2> DEFINE p == [provider EXCEPT ![a] = v]
  <2>3. switch' = [switch EXCEPT ![i] = s] /\ s \in Switches
    BY <1>16, <1>t, SMTT(30) DEF CommandFails, At, Switches, SwitchPcs
  <2> HIDE DEF a
  <2>4. p \in Pair
    BY <2>1, <2>2, <1>t DEF Pair
  <2>5. ASSUME ~disturbed' PROVE s.pc # "idle" /\ Consistent(s, p)
    <3>1. switch[i].pc = "command" /\ ~disturbed /\ p = provider
      BY <1>16, <2>1, <2>2, <2>5, <1>t, ZenonT(60) DEF CommandFails, Pair
    <3>2. provider = After(Len(switch[i].done)) /\ switch[i].before = Old /\ Orderly(switch[i].done)
      BY <1>14, <3>1
    <3>3. s.done = switch[i].done /\ s.before = switch[i].before /\ s.pc = "rollback"
      BY <1>t DEF Switches
    <3> HIDE DEF s, p
    <3> QED
      BY <3>1, <3>2, <3>3 DEF Consistent
  <2>6. /\ switch[i].pc # "idle" /\ UNCHANGED <<lease, turnActive, turns>>
        /\ switchFaults' \in 0..MaxSwitchFaults /\ disturbed' \in BOOLEAN
    BY <1>16, <1>t, <1>f, <2>2 DEF CommandFails
  <2>7. provider' = p /\ (disturbed => disturbed')
    BY <2>2
  <2> HIDE DEF s, p
  <2> QED
    BY <1>t, <2>3, <2>4, <2>5, <2>6, <2>7, SwitchStays
<1>17. ASSUME NEW i \in Instances, switch[i].pc = "rollback"
       PROVE  /\ switch[i].done # <<>> =>
                   Front(switch[i].done) \in Seq({"codex", "claude"}) /\ Last(switch[i].done) \in {"codex", "claude"}
              /\ ~disturbed =>
                   /\ switch[i].before = Old /\ Orderly(switch[i].done) /\ provider = After(Len(switch[i].done))
                   /\ switch[i].done # <<>> =>
                        /\ Orderly(Front(switch[i].done)) /\ Len(Front(switch[i].done)) = Len(switch[i].done) - 1
                        /\ Last(switch[i].done) = IF Len(switch[i].done) = 1 THEN "codex" ELSE "claude"
  <2>1. switch[i].done \in Seq({"codex", "claude"})
    BY <1>t DEF Switches
  <2>2. switch[i].done # <<>> =>
          Front(switch[i].done) \in Seq({"codex", "claude"}) /\ Last(switch[i].done) \in {"codex", "claude"}
    BY <2>1 DEF Front, Last
  <2>3. ~disturbed => switch[i].before = Old /\ Orderly(switch[i].done) /\ provider = After(Len(switch[i].done))
    BY <1>17 DEF SwitchInv, Consistent
  <2> QED
    BY <2>1, <2>2, <2>3, OrderGrows
<1>18. ASSUME NEW i \in Instances, Rollback(i) PROVE SwitchInv'
  <2>0. /\ switch[i].pc = "rollback"
        /\ UNCHANGED <<lease, turnActive, turns, switchFaults, disturbed>>
    BY <1>18 DEF Rollback
  <2>1. CASE switch[i].done = <<>>
    <3> DEFINE s == [switch[i] EXCEPT !.pc = "release"]
    <3>1. switch' = [switch EXCEPT ![i] = s] /\ s \in Switches /\ provider' = provider
      BY <1>18, <2>1, <1>t DEF Rollback, At, Switches, SwitchPcs
    <3>2. ~disturbed => provider = After(0)
      BY <1>17, <2>0, <2>1
    <3>3. s.pc = "release"
      BY <1>t DEF Switches
    <3> HIDE DEF s
    <3>4. ~disturbed => s.pc # "idle" /\ Consistent(s, provider)
      BY <3>2, <3>3 DEF Consistent, After
    <3> QED
      BY <1>t, <2>0, <3>1, <3>4, SwitchStays
  <2>2. CASE switch[i].done # <<>>
    <3> DEFINE a == Last(switch[i].done)
               p == [provider EXCEPT ![a] = switch[i].before[a]]
               s == [switch[i] EXCEPT !.done = Front(@)]
    <3>1. switch' = [switch EXCEPT ![i] = s] /\ provider' = p
      BY <1>18, <2>2 DEF Rollback
    <3>2. a \in {"codex", "claude"} /\ Front(switch[i].done) \in Seq({"codex", "claude"})
      BY <1>17, <2>0, <2>2
    <3>3. s \in Switches
      BY <3>2, <1>t DEF Switches
    <3>4. p \in Pair
      <4>1. switch[i].before \in Pair
        BY <1>t DEF Switches
      <4> HIDE DEF a
      <4> QED
        BY <3>2, <4>1, <1>t DEF Pair
    <3>5. s.pc = "rollback" /\ s.before = switch[i].before /\ s.done = Front(switch[i].done)
      BY <2>0, <1>t DEF Switches
    <3>6. ASSUME ~disturbed PROVE p = After(Len(switch[i].done) - 1)
      <4>1. /\ switch[i].before = Old /\ provider = After(Len(switch[i].done))
            /\ a = IF Len(switch[i].done) = 1 THEN "codex" ELSE "claude"
            /\ Len(switch[i].done) \in 1..2
        BY <1>17, <2>0, <2>2, <3>6 DEF Orderly
      <4> HIDE DEF a
      <4>2. switch[i].before[a] = "old"
        BY <4>1 DEF Old
      <4>3. CASE Len(switch[i].done) = 1
        <5>1. a = "codex" /\ provider = [codex |-> "new", claude |-> "old"]
          BY <4>1, <4>3 DEF After
        <5>2. p = [codex |-> "old", claude |-> "old"]
          BY <5>1, <4>2
        <5> QED
          BY <5>2, <4>3 DEF After
      <4>4. CASE Len(switch[i].done) = 2
        <5>1. a = "claude" /\ provider = [codex |-> "new", claude |-> "new"]
          BY <4>1, <4>4 DEF After
        <5>2. p = [codex |-> "new", claude |-> "old"]
          BY <5>1, <4>2
        <5> QED
          BY <5>2, <4>4 DEF After
      <4> QED
        BY <4>1, <4>3, <4>4
    <3>7. ~disturbed => s.before = Old /\ Orderly(s.done) /\ Len(s.done) = Len(switch[i].done) - 1
      BY <1>17, <2>0, <2>2, <3>5
    <3> HIDE DEF s, p, a
    <3>8. ~disturbed => s.pc # "idle" /\ Consistent(s, p)
      BY <3>5, <3>6, <3>7 DEF Consistent
    <3> QED
      BY <1>t, <2>0, <3>1, <3>3, <3>4, <3>8, SwitchStays
  <2> QED
    BY <2>1, <2>2
<1>19. ASSUME NEW i \in Instances, RollbackFails(i) PROVE SwitchInv'
  <2> DEFINE s == [switch[i] EXCEPT !.done = Front(@)]
  <2>1. switch' = [switch EXCEPT ![i] = s]
    BY <1>19 DEF RollbackFails
  <2>2. s \in Switches
    BY <1>17, <1>19, <1>t, ZenonT(60) DEF RollbackFails, Switches
  <2>3. /\ switch[i].pc # "idle" /\ UNCHANGED <<lease, provider, turnActive, turns>> /\ disturbed' = TRUE
        /\ switchFaults' \in 0..MaxSwitchFaults
    BY <1>19, <1>f DEF RollbackFails
  <2> HIDE DEF s
  <2> QED
    BY <1>t, <2>1, <2>2, <2>3, SwitchStays
<1> QED
  BY <1>1, <1>2, <1>3, <1>4, <1>5, <1>7, <1>8, <1>9, <1>10, <1>12, <1>13, <1>15, <1>16, <1>18, <1>19
     DEF ProviderNext, SwitchMoves

\* While the holder of a live lease runs a command no turn is active, and when no switch goes on both
\* backends are on the same side of it unless a fault came between (updateCcSwitchProviders).
THEOREM SwitchIsSafe == ProviderSpec => []SwitchSafe
<1>1. SwitchInv => SwitchSafe
  BY DEF SwitchInv, SwitchSafe, SwitchKeepsTurnsOut, NeverHalfSwitched, LeaseActive
<1> QED
  BY <1>1, SwitchInit, SwitchKept, PTL DEF ProviderSpec

-----------------------------------------------------------------------------
\* Sequences.

LEMMA RemoveAtFacts ==
  ASSUME NEW S, NEW q \in Seq(S), NEW k \in 1..Len(q)
  PROVE  /\ RemoveAt(q, k) \in Seq(S) /\ Len(RemoveAt(q, k)) = Len(q) - 1
         /\ \A j \in 1..(Len(q) - 1) : RemoveAt(q, k)[j] = IF j < k THEN q[j] ELSE q[j + 1]
<1> DEFINE a == SubSeq(q, 1, k - 1)
           b == SubSeq(q, k + 1, Len(q))
<1>1. a \in Seq(S) /\ Len(a) = k - 1 /\ \A j \in 1..(k - 1) : a[j] = q[j]
  OBVIOUS
<1>2. b \in Seq(S) /\ Len(b) = Len(q) - k /\ \A j \in 1..(Len(q) - k) : b[j] = q[j + k]
  OBVIOUS
<1>3. RemoveAt(q, k) = a \o b
  BY DEF RemoveAt
<1> HIDE DEF a, b
<1>4. a \o b \in Seq(S) /\ Len(a \o b) = Len(q) - 1
  <2>1. a \o b \in Seq(S)
    BY <1>1, <1>2
  <2>2. Len(a \o b) = Len(a) + Len(b)
    BY <1>1, <1>2, ConcatProperties
  <2> QED
    BY <1>1, <1>2, <2>1, <2>2
<1>5. ASSUME NEW j \in 1..(Len(q) - 1) PROVE (a \o b)[j] = IF j < k THEN q[j] ELSE q[j + 1]
  <2>1. CASE j < k
    BY <1>1, <1>2, <2>1
  <2>2. CASE ~(j < k)
    <3>1. j - (k - 1) \in 1..(Len(q) - k) /\ (a \o b)[j] = b[j - (k - 1)]
      BY <1>1, <1>2, <2>2
    <3>2. b[j - (k - 1)] = q[(j - (k - 1)) + k]
      BY <1>2, <3>1
    <3> QED
      BY <2>2, <3>1, <3>2
  <2> QED
    BY <2>1, <2>2
<1> QED
  BY <1>3, <1>4, <1>5

-----------------------------------------------------------------------------
\* The shell of a terminal (Terminals).

Entries == [state : {"none", "starting", "running", "closing", "exited"},
            reason : {"none", "user", "process_exit", "unattached_timeout", "api_shutdown"},
            closing : {"no", "guardian", "tail"}, joined : BOOLEAN, process : BOOLEAN,
            writer : Peers \cup {NoPeer}, idle : BOOLEAN]
Guards == [state : {"up", "stopping", "gone"}, known : {"none", "prepared", "registered"}]
Before == {"none", "asked", "queued", "checked", "directory", "prepare", "prepared"}
Busy == {"checked", "directory", "prepare", "prepared", "gate"}
Live == {"starting", "running", "closing"}
procVars == <<api, session, creator, deleter, lockQueue, entry, proc, guard, leftovers>>

ProcTypes ==
  /\ api \in {"up", "stopping", "down"} /\ session \in {"open", "deleted"}
  /\ creator \in Before \cup {"gate", "done"} /\ deleter \in {"none", "asked", "queued", "checked", "done"}
  /\ lockQueue \in Seq({"creator", "deleter"}) /\ entry \in Entries
  /\ proc \in {"none", "gate", "shell", "dead"} /\ guard \in Guards
  /\ strayed \in BOOLEAN /\ abandoned \in BOOLEAN /\ survived \in BOOLEAN

\* The lock keeps the deletion and the creation apart.
LockInv ==
  /\ creator \in Busy => Holds("creator") /\ session # "deleted"
  /\ deleter = "checked" => Holds("deleter") /\ entry.state \notin Live
  /\ session = "deleted" => entry.state = "none"
  /\ entry.state \in {"none", "starting", "exited"} => entry.closing = "no"

\* While the API lives, a shell is being started, or is known to an entry that has still to close it, or
\* something was lost on the way; and its guardian knows it.
ShellInv ==
  Up => /\ proc = "shell" => \/ creator = "gate" \/ strayed \/ abandoned
                             \/ entry.state \in {"running", "closing"} /\ entry.process /\ entry.closing # "tail"
        /\ proc = "shell" => guard.known = "registered" \/ survived
        /\ proc = "gate" => guard.known = "none" \/ (guard.known = "prepared" /\ (creator = "gate" \/ abandoned))
        /\ creator \in Before => proc = "none" /\ guard.known # "registered"
        /\ guard.state # "stopping"

ProcInv == ProcTypes /\ LockInv /\ ShellInv

LEMMA NoEntryType == NoEntry \in Entries /\ [NoEntry EXCEPT !.state = "starting"] \in Entries
BY DEF NoEntry, Entries

LEMMA ProcInit == TerminalInit => ProcInv
<1> SUFFICES ASSUME TerminalInit PROVE ProcInv
  OBVIOUS
<1>1. ProcTypes
  <2>1. guard \in Guards /\ lockQueue \in Seq({"creator", "deleter"}) /\ entry \in Entries
    BY NoEntryType DEF TerminalInit, Guards
  <2> QED
    BY <2>1 DEF TerminalInit, ProcTypes, Before
<1>2. LockInv
  BY DEF TerminalInit, LockInv, NoEntry, Busy
<1>3. ShellInv
  BY DEF TerminalInit, ShellInv
<1> QED
  BY <1>1, <1>2, <1>3 DEF ProcInv

LEMMA BeginCloseFacts ==
  ASSUME entry \in Entries,
         NEW reason \in {"user", "process_exit", "unattached_timeout", "api_shutdown"}, BeginClose(reason)
  PROVE  /\ entry' \in Entries /\ entry'.state = "closing" /\ entry'.process = entry.process
         /\ entry'.closing = IF entry.process THEN "guardian" ELSE "tail"
BY ZenonT(60) DEF BeginClose, Entries

\* What passes the lock on is not what the next holder waits for.
LEMMA ProcKept == ProcInv /\ [TerminalNext]_terminalVars => ProcInv'
<1> SUFFICES ASSUME ProcInv, [TerminalNext]_terminalVars PROVE ProcInv'
  OBVIOUS
<1> USE DEF requestVars, outputVars, leftovers
<1>t. /\ api \in {"up", "stopping", "down"} /\ session \in {"open", "deleted"}
      /\ creator \in Before \cup {"gate", "done"} /\ deleter \in {"none", "asked", "queued", "checked", "done"}
      /\ lockQueue \in Seq({"creator", "deleter"}) /\ entry \in Entries
      /\ proc \in {"none", "gate", "shell", "dead"} /\ guard \in Guards
      /\ strayed \in BOOLEAN /\ abandoned \in BOOLEAN /\ survived \in BOOLEAN
      /\ LockInv /\ ShellInv
  BY DEF ProcInv, ProcTypes
<1>l. ASSUME NEW r \in {"creator", "deleter"}
      PROVE  /\ Append(lockQueue, r) \in Seq({"creator", "deleter"})
             /\ \A x \in {"creator", "deleter"} : Holds(x) => Append(lockQueue, r) # <<>> /\ Head(Append(lockQueue, r)) = x
  BY <1>t DEF Holds
<1>u. ASSUME lockQueue # <<>> PROVE Tail(lockQueue) \in Seq({"creator", "deleter"})
  BY <1>t, <1>u
<1>h. ~(Holds("creator") /\ Holds("deleter"))
  BY DEF Holds
<1>g. guard \in Guards /\ \A k \in {"none", "prepared", "registered"} :
        LET g == [guard EXCEPT !.known = k] IN g \in Guards /\ g.known = k /\ g.state = guard.state
  BY <1>t DEF Guards
\* Steps that are not about the shell.
<1>1. ASSUME UNCHANGED procVars PROVE ProcInv'
  BY <1>1 DEF procVars, ProcInv, ProcTypes, LockInv, ShellInv, Holds, Up
<1>2. CASE UNCHANGED terminalVars
  BY <1>1, <1>2 DEF terminalVars, procVars
<1>3. CASE ShellWrites \/ RunTask \/ \E p \in Peers : ResizeTerminal(p)
  BY <1>1, <1>3 DEF ShellWrites, RunTask, ResizeTerminal, procVars
<1>4. ASSUME UNCHANGED <<api, session, creator, deleter, lockQueue, proc, guard, leftovers>>, entry' \in Entries,
             entry'.state = entry.state, entry'.process = entry.process, entry'.closing = entry.closing
      PROVE  ProcInv'
  <2>1. ProcTypes'
    BY <1>4, <1>t DEF ProcTypes
  <2>2. LockInv' /\ ShellInv'
    BY <1>4, <1>t DEF LockInv, ShellInv, Holds, Up
  <2> QED
    BY <2>1, <2>2 DEF ProcInv
<1>5. ASSUME NEW p \in Peers, Attach(p) PROVE ProcInv'
  BY <1>4, <1>5, <1>t DEF Attach, Entries
<1>6. ASSUME NEW p \in Peers, Detach(p) PROVE ProcInv'
  <2>1. entry' = [entry EXCEPT !.writer = IF entry.writer = p THEN NoPeer ELSE entry.writer,
                               !.idle = entry.idle \/ (entry.state = "running" /\ \A q \in Peers \ {p} : ~peer[q].on)]
    BY <1>6 DEF Detach
  <2>2. (entry.idle \/ (entry.state = "running" /\ \A q \in Peers \ {p} : ~peer[q].on)) \in BOOLEAN
    OBVIOUS
  <2>3. /\ entry' \in Entries /\ entry'.state = entry.state /\ entry'.process = entry.process
        /\ entry'.closing = entry.closing
    BY <1>t, <2>1, <2>2 DEF Entries
  <2> QED
    BY <1>4, <1>6, <2>3 DEF Detach
<1>7. ASSUME NEW p \in Peers, TakeControl(p) PROVE ProcInv'
  BY <1>4, <1>7, <1>t DEF TakeControl, Entries
<1>8. CASE UserJoinsClose
  BY <1>4, <1>8, <1>t DEF UserJoinsClose, Entries
\* The terminal is created.
<1>9. CASE AskTerminal \/ LockForCreate
  <2>1. ProcTypes'
    BY <1>9, <1>t, <1>l DEF AskTerminal, LockForCreate, ProcTypes, Before
  <2>2. LockInv'
    BY <1>9, <1>t, <1>l DEF AskTerminal, LockForCreate, LockInv, Busy, Holds
  <2>3. ShellInv'
    BY <1>9, <1>t DEF AskTerminal, LockForCreate, ShellInv, Up, Before
  <2> QED
    BY <2>1, <2>2, <2>3 DEF ProcInv
<1>10. CASE CheckSession
  <2>1. ProcTypes'
    BY <1>10, <1>t, <1>u DEF CheckSession, ProcTypes, Before, Unlock, Holds
  <2>2. LockInv'
    BY <1>10, <1>t, <1>h DEF CheckSession, LockInv, Busy, Holds
  <2>3. ShellInv'
    BY <1>10, <1>t DEF CheckSession, ShellInv, Up, Before
  <2> QED
    BY <2>1, <2>2, <2>3 DEF ProcInv
<1>28. CASE CheckStopping
  <2>1. Holds("creator") /\ session # "deleted" /\ deleter # "checked"
    BY <1>28, <1>t, <1>h DEF CheckStopping, LockInv, Busy
  <2>2. ProcTypes'
    BY <1>28, <1>t, <1>u, <2>1 DEF CheckStopping, ProcTypes, Before, Unlock, Holds
  <2>3. LockInv'
    BY <1>28, <1>t, <2>1 DEF CheckStopping, LockInv, Busy, Holds
  <2>4. ShellInv'
    BY <1>28, <1>t DEF CheckStopping, ShellInv, Up, Before
  <2> QED
    BY <2>2, <2>3, <2>4 DEF ProcInv
<1>11. CASE StartEntry
  <2>1. Holds("creator") /\ session # "deleted" /\ deleter # "checked"
    BY <1>11, <1>t, <1>h DEF StartEntry, LockInv, Busy
  <2>2. ProcTypes'
    BY <1>11, <1>t, <1>u, <2>1, NoEntryType DEF StartEntry, ProcTypes, Before, Unlock, Holds
  <2>3. LockInv'
    BY <1>11, <1>t, <2>1 DEF StartEntry, LockInv, Busy, Holds, NoEntry
  <2>4. ShellInv'
    BY <1>11, <1>t DEF StartEntry, ShellInv, Up, Before
  <2> QED
    BY <2>2, <2>3, <2>4 DEF ProcInv
<1>12. CASE Prepare \/ SpawnGate
  <2>1. ProcTypes'
    BY <1>12, <1>t, <1>g DEF Prepare, SpawnGate, ProcTypes, Before
  <2>2. LockInv'
    BY <1>12, <1>t DEF Prepare, SpawnGate, LockInv, Busy, Holds
  <2>3. creator \in Before /\ Up /\ UNCHANGED <<api, entry, leftovers>>
    BY <1>12 DEF Prepare, SpawnGate, Before
  <2>4. /\ proc = "none" /\ guard.known # "registered" /\ guard.state # "stopping"
    BY <1>t, <2>3 DEF ShellInv
  <2>5. ShellInv'
    <3>1. CASE Prepare
      <4>1. guard'.known = "prepared" /\ guard'.state = guard.state
        BY <1>g, <3>1 DEF Prepare
      <4>2. proc' = "none"
        BY <2>4, <3>1 DEF Prepare
      <4> QED
        BY <2>4, <4>1, <4>2 DEF ShellInv
    <3>2. CASE SpawnGate
      <4>1. proc' = "gate" /\ creator' = "gate" /\ guard' = guard
        BY <3>2 DEF SpawnGate
      <4>2. guard.known \in {"none", "prepared"}
        BY <1>t, <2>4 DEF Guards
      <4> QED
        BY <2>4, <4>1, <4>2 DEF ShellInv, Before
    <3> QED
      BY <1>12, <3>1, <3>2
  <2> QED
    BY <2>1, <2>2, <2>5 DEF ProcInv
<1>13. CASE Register \/ GateExits
  <2>1. ProcTypes'
    BY <1>13, <1>t, <1>g DEF Register, GateExits, ProcTypes
  <2>2. LockInv'
    BY <1>13, <1>t DEF Register, GateExits, LockInv, Holds
  <2>3. ShellInv'
    BY <1>13, <1>t, <1>g DEF Register, GateExits, ShellInv, Up, Before
  <2> QED
    BY <2>1, <2>2, <2>3 DEF ProcInv
<1>14. CASE Started
  <2>1. Holds("creator") /\ session # "deleted" /\ deleter # "checked" /\ lockQueue # <<>>
    BY <1>14, <1>t, <1>h DEF Started, LockInv, Busy, Holds
  <2>2. /\ entry' \in Entries /\ entry'.state = IF entry.state = "none" THEN "none" ELSE "running"
        /\ entry'.closing = entry.closing /\ (entry.state = "starting" => entry'.process = TRUE)
    BY <1>14, <1>t DEF Started, Entries
  <2>3. ProcTypes'
    BY <1>14, <1>t, <1>u, <2>1, <2>2 DEF Started, ProcTypes, Unlock
  <2>4. LockInv'
    BY <1>14, <1>t, <2>1, <2>2 DEF Started, LockInv, Busy
  <2>5. ShellInv'
    BY <1>14, <1>t, <2>2 DEF Started, ShellInv, LockInv, Up, Before
  <2> QED
    BY <2>3, <2>4, <2>5 DEF ProcInv
<1>15. CASE StartFails
  <2>1. Holds("creator") /\ session # "deleted" /\ deleter # "checked" /\ lockQueue # <<>>
    BY <1>15, <1>t, <1>h DEF StartFails, LockInv, Busy, Holds
  <2>2. /\ UNCHANGED <<api, session, deleter, strayed, survived>> /\ entry' = NoEntry /\ creator' = "done"
        /\ lockQueue' = Tail(lockQueue) /\ Up /\ creator \in {"prepare", "prepared", "gate"}
    BY <1>15 DEF StartFails, Unlock
  <2>3. LockInv'
    BY <1>t, <2>1, <2>2 DEF LockInv, Busy, NoEntry
  <2>4. CASE GuardianKills /\ UNCHANGED abandoned
    <3>1. /\ guard' \in Guards /\ guard'.known = "none" /\ guard'.state = guard.state
          /\ proc' = IF proc = "shell" THEN "dead" ELSE proc
      BY <1>g, <2>4 DEF GuardianKills
    <3>2. ProcTypes'
      BY <1>t, <1>u, <2>1, <2>2, <2>4, <3>1, NoEntryType DEF ProcTypes
    <3>3. ShellInv'
      BY <1>t, <2>2, <3>1 DEF ShellInv, Up, Before
    <3> QED
      BY <2>3, <3>2, <3>3 DEF ProcInv
  <2>5. CASE abandoned' = (abandoned \/ proc \in {"gate", "shell"}) /\ UNCHANGED <<proc, guard>>
    <3>1. ProcTypes'
      BY <1>t, <1>u, <2>1, <2>2, <2>5, NoEntryType DEF ProcTypes
    <3>2. ShellInv'
      BY <1>t, <2>2, <2>5 DEF ShellInv, Up, Before
    <3> QED
      BY <2>3, <3>1, <3>2 DEF ProcInv
  <2> QED
    BY <1>15, <2>4, <2>5 DEF StartFails
\* The terminal is closed.
<1>16. ASSUME NEW reason \in {"user", "process_exit", "unattached_timeout", "api_shutdown"},
              entry.state \in Live, BeginClose(reason),
              UNCHANGED <<session, creator, deleter, lockQueue, proc, guard, leftovers>>,
              Up, api' \in {api, "stopping"}
       PROVE  ProcInv'
  <2>1. /\ entry' \in Entries /\ entry'.state = "closing" /\ entry'.process = entry.process
        /\ entry'.closing = IF entry.process THEN "guardian" ELSE "tail"
    BY <1>16, <1>t, BeginCloseFacts
  <2>2. ProcTypes'
    BY <1>16, <1>t, <2>1 DEF ProcTypes
  <2>3. LockInv'
    BY <1>16, <1>t, <2>1 DEF LockInv, Holds, Live
  <2>4. ShellInv'
    BY <1>16, <1>t, <2>1 DEF ShellInv, Up
  <2> QED
    BY <2>2, <2>3, <2>4 DEF ProcInv
<1>17. CASE UserCloses \/ Sweep \/ ProcessExit
  BY <1>16, <1>17 DEF UserCloses, Sweep, ProcessExit, Live, Up
<1>18. CASE Shutdown
  <2>1. CASE UNCHANGED entry
    <3>1. ProcTypes' /\ LockInv' /\ ShellInv'
      BY <1>18, <1>t, <2>1 DEF Shutdown, ProcTypes, LockInv, ShellInv, Holds, Up
    <3> QED
      BY <3>1 DEF ProcInv
  <2>2. CASE ~UNCHANGED entry
    BY <1>16, <1>18, <2>2 DEF Shutdown, Live, Up
  <2> QED
    BY <2>1, <2>2
<1>19. CASE UserDropsExited
  <2>1. entry' = NoEntry
    BY <1>19 DEF UserDropsExited, Dispose
  <2>2. ProcTypes' /\ LockInv' /\ ShellInv'
    BY <1>19, <1>t, <2>1, NoEntryType
       DEF UserDropsExited, ProcTypes, LockInv, ShellInv, Holds, Up, NoEntry, Live
  <2> QED
    BY <2>2 DEF ProcInv
<1>20. CASE ShellExits
  <2>1. ProcTypes' /\ LockInv' /\ ShellInv'
    BY <1>20, <1>t DEF ShellExits, ProcTypes, LockInv, ShellInv, Holds, Up
  <2> QED
    BY <2>1 DEF ProcInv
<1>21. CASE GuardianClosed \/ CloseFails
  <2>1. /\ entry' \in Entries /\ entry'.state = entry.state /\ entry'.process = entry.process
        /\ entry.closing = "guardian" /\ (CloseFails => entry'.closing = "no")
    BY <1>21, <1>t DEF GuardianClosed, CloseFails, Entries
  <2>2. ProcTypes'
    BY <1>21, <1>t, <1>g, <2>1 DEF GuardianClosed, GuardianKills, CloseFails, ProcTypes
  <2>3. LockInv'
    BY <1>21, <1>t, <2>1 DEF GuardianClosed, CloseFails, LockInv, Holds
  <2>4. ShellInv'
    BY <1>21, <1>t, <1>g, <2>1, ZenonT(60) DEF GuardianClosed, GuardianKills, CloseFails, ShellInv, Up
  <2> QED
    BY <2>2, <2>3, <2>4 DEF ProcInv
<1>22. CASE Exited
  <2>1. /\ entry' \in Entries /\ entry'.state \in {"none", "exited"} /\ entry'.closing = "no"
        /\ entry.closing = "tail" /\ entry.state \in Live
    BY <1>22, <1>t, NoEntryType DEF Exited, Entries, LockInv, Live, NoEntry
  <2>2. ProcTypes'
    BY <1>22, <1>t, <2>1 DEF Exited, ProcTypes
  <2>3. LockInv'
    BY <1>22, <1>t, <2>1 DEF Exited, LockInv, Holds, Live
  <2>4. ShellInv'
    BY <1>22, <1>t, <2>1 DEF Exited, ShellInv, Up
  <2> QED
    BY <2>2, <2>3, <2>4 DEF ProcInv
\* The session is deleted.
<1>23. CASE AskDelete
  <2>1. ProcTypes' /\ LockInv' /\ ShellInv'
    BY <1>23, <1>t, <1>l DEF AskDelete, ProcTypes, LockInv, ShellInv, Holds, Up
  <2> QED
    BY <2>1 DEF ProcInv
<1>24. CASE CheckDelete
  <2>1. ProcTypes'
    BY <1>24, <1>t, <1>u DEF CheckDelete, ProcTypes, Unlock, Holds
  <2>2. LockInv'
    BY <1>24, <1>t, <1>h DEF CheckDelete, LockInv, Holds, Live
  <2>3. ShellInv'
    BY <1>24, <1>t DEF CheckDelete, ShellInv, Up
  <2> QED
    BY <2>1, <2>2, <2>3 DEF ProcInv
<1>25. CASE Delete
  <2>1. Holds("deleter") /\ creator \notin Busy /\ lockQueue # <<>> /\ entry.state \notin Live /\ entry' = NoEntry
    BY <1>25, <1>t, <1>h DEF Delete, Dispose, LockInv, Holds
  <2>2. ProcTypes'
    BY <1>25, <1>t, <1>u, <2>1, NoEntryType DEF Delete, ProcTypes, Unlock
  <2>3. LockInv'
    BY <1>25, <1>t, <2>1 DEF Delete, LockInv, NoEntry, Live
  <2>4. ShellInv'
    BY <1>25, <1>t, <2>1 DEF Delete, ShellInv, Up, Busy, Live
  <2> QED
    BY <2>2, <2>3, <2>4 DEF ProcInv
\* The API goes, and the guardian after it.
<1>26. CASE ShutdownEnds \/ ApiCrash
  <2>1. api' = "down" /\ entry' = NoEntry /\ lockQueue' = <<>> /\ creator' = "done" /\ deleter' = "done"
        /\ UNCHANGED <<session, proc, guard, leftovers>>
    BY <1>26 DEF ShutdownEnds, ApiCrash, Down
  <2>2. ProcTypes'
    BY <1>t, <2>1, NoEntryType DEF ProcTypes
  <2>3. LockInv' /\ ShellInv'
    BY <2>1 DEF LockInv, ShellInv, Up, Busy, NoEntry
  <2> QED
    BY <2>2, <2>3 DEF ProcInv
<1>27. CASE GuardianStops \/ GuardianCleans
  <2>1. ProcTypes'
    <3>1. /\ proc' \in {proc, "dead"} /\ survived' \in BOOLEAN
          /\ UNCHANGED <<api, session, creator, deleter, lockQueue, entry, strayed, abandoned>>
      BY <1>27, <1>t DEF GuardianStops, GuardianCleans
    <3>2. guard' \in Guards
      BY <1>27, <1>t DEF GuardianStops, GuardianCleans, Guards
    <3> QED
      BY <1>t, <3>1, <3>2 DEF ProcTypes
  <2>2. LockInv'
    BY <1>27, <1>t DEF GuardianStops, GuardianCleans, LockInv, Holds
  <2>3. ShellInv'
    <3>1. GuardianStops => ~Up'
      BY <1>t DEF GuardianStops, Up
    <3>2. GuardianCleans => ~Up'
      BY <1>t DEF GuardianCleans, ShellInv, Up
    <3> QED
      BY <1>27, <3>1, <3>2 DEF ShellInv
  <2> QED
    BY <2>1, <2>2, <2>3 DEF ProcInv
<1>29. CASE GuardianFails
  <2>1. /\ guard' = [state |-> "gone", known |-> "none"] /\ guard' \in Guards
        /\ guard'.state = "gone" /\ guard'.known = "none"
        /\ proc' = proc \/ (proc' = "dead" /\ proc \in {"gate", "shell"})
        /\ survived' = (survived \/ proc' = "shell")
        /\ UNCHANGED <<api, session, creator, deleter, lockQueue, entry, strayed, abandoned>>
    BY <1>29 DEF GuardianFails, Guards
  <2>2. ProcTypes'
    BY <1>t, <2>1 DEF ProcTypes
  <2>3. LockInv'
    BY <1>t, <2>1 DEF LockInv, Holds
  <2>4. ShellInv'
    BY <1>t, <2>1 DEF ShellInv, Up, Before
  <2> QED
    BY <2>2, <2>3, <2>4 DEF ProcInv
<1> QED
  BY <1>2, <1>3, <1>5, <1>6, <1>7, <1>8, <1>9, <1>10, <1>11, <1>12, <1>13, <1>14, <1>15, <1>17, <1>18,
     <1>19, <1>20, <1>21, <1>22, <1>23, <1>24, <1>25, <1>26, <1>27, <1>28, <1>29 DEF TerminalNext

-----------------------------------------------------------------------------
\* What the browsers of a terminal see (Terminals).

Task == [op : {"output", "snapshot", "resize"}, of : Peers \cup {NoPeer}]
Conn == [on : BOOLEAN, live : BOOLEAN, got : Seq(Nat)]

\* What one connection got is consecutive, and ends with what the terminal has taken last.
UpToDate(c, w) ==
  /\ c.live => c.on /\ c.got # <<>> /\ c.got[Len(c.got)] = w
  /\ ~c.live => c.got = <<>>
  /\ \A i \in 1..(Len(c.got) - 1) : c.got[i + 1] = c.got[i] + 1

\* There is one snapshot at most on its way to a connection, which is not live yet.
ScreenInv ==
  /\ peer \in [Peers -> Conn] /\ tail \in Seq(Task) /\ written \in Nat
  /\ \A p \in Peers : UpToDate(peer[p], written)
  /\ \A j \in DOMAIN tail : tail[j].op = "snapshot" => tail[j].of \in Peers /\ ~peer[tail[j].of].live
  /\ \A j, k \in DOMAIN tail : tail[j].op = "snapshot" /\ tail[k].op = "snapshot" /\ tail[j].of = tail[k].of => j = k

LEMMA AwayFacts == Away \in Conn /\ ~Away.live /\ \A w : UpToDate(Away, w)
<1>1. <<>> \in Seq(Nat) /\ Len(<<>>) = 0
  OBVIOUS
<1>2. Away \in Conn /\ ~Away.live /\ ~Away.on /\ Away.got = <<>>
  BY <1>1 DEF Away, Conn
<1>3. \A i \in 1..(Len(Away.got) - 1) : Away.got[i + 1] = Away.got[i] + 1
  BY <1>1, <1>2
<1> QED
  BY <1>2, <1>3 DEF UpToDate

LEMMA ScreenInit == TerminalInit => ScreenInv
<1> SUFFICES ASSUME TerminalInit PROVE ScreenInv
  OBVIOUS
<1>1. tail \in Seq(Task) /\ DOMAIN tail = {} /\ written \in Nat
  BY DEF TerminalInit
<1>2. peer = [p \in Peers |-> Away]
  BY DEF TerminalInit
<1> QED
  BY <1>1, <1>2, AwayFacts DEF ScreenInv

\* One number more for a connection that is live.
LEMMA OneMore ==
  ASSUME NEW c \in Conn, NEW w \in Nat, UpToDate(c, w), c.live
  PROVE  /\ [c EXCEPT !.got = Append(@, w + 1)] \in Conn /\ [c EXCEPT !.got = Append(@, w + 1)].live
         /\ UpToDate([c EXCEPT !.got = Append(@, w + 1)], w + 1)
<1> DEFINE g == Append(c.got, w + 1)
           d == [c EXCEPT !.got = g]
<1>1. c.got \in Seq(Nat) /\ c.on \in BOOLEAN /\ c.live \in BOOLEAN
  BY DEF Conn
<1>2. /\ g \in Seq(Nat) /\ Len(g) = Len(c.got) + 1 /\ g[Len(c.got) + 1] = w + 1
      /\ \A i \in 1..Len(c.got) : g[i] = c.got[i]
  BY <1>1
<1>3. c.got # <<>> /\ c.got[Len(c.got)] = w /\ Len(c.got) \in Nat \ {0}
      /\ \A i \in 1..(Len(c.got) - 1) : c.got[i + 1] = c.got[i] + 1
  BY <1>1 DEF UpToDate
<1> HIDE DEF g
<1>4. d \in Conn /\ d.live = c.live /\ d.on = c.on /\ d.got = g
  BY <1>1, <1>2 DEF Conn
<1>5. \A i \in 1..(Len(g) - 1) : g[i + 1] = g[i] + 1
  <2> SUFFICES ASSUME NEW i \in 1..(Len(g) - 1) PROVE g[i + 1] = g[i] + 1
    OBVIOUS
  <2>1. i \in 1..Len(c.got) /\ g[i] = c.got[i]
    BY <1>2, <1>3
  <2>2. CASE i = Len(c.got)
    BY <1>2, <1>3, <2>1, <2>2
  <2>3. CASE i # Len(c.got)
    <3>1. i \in 1..(Len(c.got) - 1) /\ i + 1 \in 1..Len(c.got)
      BY <1>3, <2>1, <2>3
    <3> QED
      BY <1>2, <1>3, <2>1, <3>1
  <2> QED
    BY <2>2, <2>3
<1>6. g # <<>> /\ g[Len(g)] = w + 1
  BY <1>2, <1>3
<1> HIDE DEF d
<1>7. UpToDate(d, w + 1)
  BY <1>4, <1>5, <1>6 DEF UpToDate, Conn
<1> QED
  BY <1>4, <1>7 DEF d, g

\* The snapshot of a connection that had nothing before it.
LEMMA FirstScreen ==
  ASSUME NEW c \in Conn, NEW w \in Nat, UpToDate(c, w), ~c.live, c.on
  PROVE  /\ [c EXCEPT !.live = TRUE, !.got = Append(@, w)] \in Conn
         /\ UpToDate([c EXCEPT !.live = TRUE, !.got = Append(@, w)], w)
<1> DEFINE g == Append(c.got, w)
           d == [c EXCEPT !.live = TRUE, !.got = g]
<1>1. c.got = <<>> /\ c.got \in Seq(Nat)
  BY DEF Conn, UpToDate
<1>2. g \in Seq(Nat) /\ Len(g) = 1 /\ g[1] = w
  BY <1>1
<1> HIDE DEF g
<1>3. d \in Conn /\ d.live = TRUE /\ d.on = c.on /\ d.got = g
  BY <1>2 DEF Conn
<1>4. g # <<>> /\ g[Len(g)] = w /\ \A i \in 1..(Len(g) - 1) : g[i + 1] = g[i] + 1
  BY <1>2
<1> HIDE DEF d
<1>5. UpToDate(d, w)
  BY <1>3, <1>4 DEF UpToDate
<1> QED
  BY <1>3, <1>5 DEF d, g

\* A task of another kind comes after those that wait, or the first one goes.
LEMMA TasksAfter ==
  ASSUME ScreenInv, NEW x \in Task
  PROVE  /\ Append(tail, x) \in Seq(Task)
         /\ \A j \in DOMAIN Append(tail, x) :
              (j \in DOMAIN tail /\ Append(tail, x)[j] = tail[j]) \/ (j = Len(tail) + 1 /\ Append(tail, x)[j] = x)
BY DEF ScreenInv

LEMMA ScreenKept == ScreenInv /\ [TerminalNext]_terminalVars => ScreenInv'
<1> SUFFICES ASSUME ScreenInv, [TerminalNext]_terminalVars PROVE ScreenInv'
  OBVIOUS
<1> USE DEF outputVars
<1>t. /\ peer \in [Peers -> Conn] /\ tail \in Seq(Task) /\ written \in Nat
      /\ \A p \in Peers : UpToDate(peer[p], written)
      /\ \A j \in DOMAIN tail : tail[j].op = "snapshot" => tail[j].of \in Peers /\ ~peer[tail[j].of].live
      /\ \A j, k \in DOMAIN tail : tail[j].op = "snapshot" /\ tail[k].op = "snapshot" /\ tail[j].of = tail[k].of => j = k
  BY DEF ScreenInv
<1>1. ASSUME UNCHANGED <<tail, written, peer>> PROVE ScreenInv'
  BY <1>1 DEF ScreenInv, UpToDate
<1>2. CASE UNCHANGED terminalVars
  BY <1>1, <1>2 DEF terminalVars
<1>3. CASE AskTerminal \/ LockForCreate \/ CheckSession \/ CheckStopping \/ StartEntry \/ Prepare \/ SpawnGate
           \/ Register \/ GateExits \/ Started \/ StartFails
  BY <1>1, <1>3 DEF AskTerminal, LockForCreate, CheckSession, CheckStopping, StartEntry, Prepare, SpawnGate, Register,
                    GateExits, Started, StartFails
<1>4. CASE UserCloses \/ UserJoinsClose \/ Sweep \/ ShellExits \/ ProcessExit \/ GuardianClosed \/ CloseFails
           \/ AskDelete \/ CheckDelete \/ Shutdown \/ GuardianFails \/ GuardianStops \/ GuardianCleans
           \/ \E p \in Peers : TakeControl(p)
  BY <1>1, <1>4 DEF UserCloses, UserJoinsClose, Sweep, ShellExits, ProcessExit, GuardianClosed, CloseFails,
                    AskDelete, CheckDelete, Shutdown, GuardianFails, GuardianStops, GuardianCleans, TakeControl
\* Output and resizes are queued.
<1>5. ASSUME NEW x \in Task, x.op # "snapshot", tail' = Append(tail, x), UNCHANGED <<written, peer>> PROVE ScreenInv'
  <2>1. /\ tail' \in Seq(Task)
        /\ \A j \in DOMAIN tail' : tail'[j].op = "snapshot" => j \in DOMAIN tail /\ tail'[j] = tail[j]
    BY <1>5, TasksAfter
  <2> QED
    BY <1>5, <1>t, <2>1 DEF ScreenInv, UpToDate
<1>6. CASE ShellWrites \/ \E p \in Peers : ResizeTerminal(p)
  <2>1. Output \in Task /\ Output.op # "snapshot"
    BY DEF Output, Task
  <2>2. \A p \in Peers : ResizeBy(p) \in Task /\ ResizeBy(p).op # "snapshot"
    BY DEF ResizeBy, Task
  <2> QED
    BY <1>5, <1>6, <2>1, <2>2 DEF ShellWrites, ResizeTerminal
\* All connections are closed.
<1>7. ASSUME peer' = [p \in Peers |-> Away], written' = written, tail' \in {tail, <<>>} PROVE ScreenInv'
  <2>1. peer' \in [Peers -> Conn] /\ \A p \in Peers : UpToDate(peer'[p], written') /\ ~peer'[p].live
    BY <1>7, AwayFacts
  <2>2. tail' \in Seq(Task) /\ \A j \in DOMAIN tail' : j \in DOMAIN tail /\ tail'[j] = tail[j]
    <3>1. CASE tail' = tail
      BY <1>t, <3>1
    <3>2. CASE tail' = <<>>
      <4>1. <<>> \in Seq(Task) /\ DOMAIN <<>> = {}
        OBVIOUS
      <4> QED
        BY <3>2, <4>1
    <3> QED
      BY <1>7, <3>1, <3>2
  <2> QED
    BY <1>7, <1>t, <2>1, <2>2 DEF ScreenInv, UpToDate
<1>8. CASE UserDropsExited \/ Exited \/ Delete \/ ShutdownEnds \/ ApiCrash
  BY <1>7, <1>8 DEF UserDropsExited, Exited, Delete, ShutdownEnds, ApiCrash, Dispose, Down
\* The first task is run.
<1>9. CASE RunTask
  <2> DEFINE h == Head(tail)
  <2>1. tail # <<>> /\ tail' = Tail(tail)
    BY <1>9 DEF RunTask
  <2>2. /\ h \in Task /\ h = tail[1] /\ 1 \in DOMAIN tail /\ tail' \in Seq(Task)
        /\ \A j \in DOMAIN tail' : j + 1 \in DOMAIN tail /\ tail'[j] = tail[j + 1] /\ j + 1 # 1
    BY <1>t, <2>1
  <2>3. /\ \A j, k \in DOMAIN tail' :
             tail'[j].op = "snapshot" /\ tail'[k].op = "snapshot" /\ tail'[j].of = tail'[k].of => j = k
    <3> SUFFICES ASSUME NEW j \in DOMAIN tail', NEW k \in DOMAIN tail',
                        tail'[j].op = "snapshot" /\ tail'[k].op = "snapshot" /\ tail'[j].of = tail'[k].of
                 PROVE  j = k
      OBVIOUS
    <3>1. j + 1 = k + 1
      BY <1>t, <2>2
    <3>2. j \in Nat /\ k \in Nat
      BY <2>2
    <3> QED
      BY <3>1, <3>2
  <2>4. CASE UNCHANGED <<written, peer>>
    <3>1. \A j \in DOMAIN tail' : tail'[j].op = "snapshot" => tail'[j].of \in Peers /\ ~peer'[tail'[j].of].live
      BY <1>t, <2>2, <2>4
    <3>2. \A p \in Peers : UpToDate(peer'[p], written')
      BY <1>t, <2>4
    <3> QED
      BY <1>t, <2>2, <2>3, <2>4, <3>1, <3>2 DEF ScreenInv, UpToDate
  <2>5. CASE Numbered
    <3>1. \A p \in Peers : peer'[p] = IF peer[p].on /\ peer[p].live
                                      THEN [peer[p] EXCEPT !.got = Append(@, written + 1)] ELSE peer[p]
      BY <2>5 DEF Numbered
    <3>2. written' = written + 1 /\ written' \in Nat
      BY <1>t, <2>5 DEF Numbered
    <3>3. ASSUME NEW p \in Peers
          PROVE  peer'[p] \in Conn /\ UpToDate(peer'[p], written + 1) /\ (peer'[p].live => peer[p].live)
      <4>1. peer[p] \in Conn /\ UpToDate(peer[p], written)
        BY <1>t
      <4>2. CASE peer[p].live
        <5>1. peer[p].on
          BY <4>1, <4>2 DEF UpToDate
        <5>2. peer'[p] = [peer[p] EXCEPT !.got = Append(@, written + 1)]
          BY <3>1, <4>2, <5>1
        <5> QED
          BY <1>t, <4>1, <4>2, <5>2, OneMore, ZenonT(60)
      <4>3. CASE ~peer[p].live
        BY <3>1, <4>1, <4>3 DEF UpToDate
      <4> QED
        BY <4>2, <4>3
    <3>4. peer' \in [Peers -> Conn]
      <4>1. peer' = [p \in Peers |-> peer'[p]]
        BY <2>5 DEF Numbered
      <4> QED
        BY <3>3, <4>1
    <3>5. \A j \in DOMAIN tail' : tail'[j].op = "snapshot" => tail'[j].of \in Peers /\ ~peer'[tail'[j].of].live
      <4> SUFFICES ASSUME NEW j \in DOMAIN tail', tail'[j].op = "snapshot"
                   PROVE  tail'[j].of \in Peers /\ ~peer'[tail'[j].of].live
        OBVIOUS
      <4>1. tail'[j].of \in Peers /\ ~peer[tail'[j].of].live
        BY <1>t, <2>2
      <4> QED
        BY <3>3, <4>1
    <3>6. \A p \in Peers : UpToDate(peer[p], written)'
      BY <3>2, <3>3 DEF UpToDate
    <3> QED
      BY <2>2, <2>3, <3>2, <3>4, <3>5, <3>6 DEF ScreenInv
  <2>6. CASE h.op = "snapshot" /\ written' = written
             /\ peer' = IF peer[h.of].on
                        THEN [peer EXCEPT ![h.of].live = TRUE, ![h.of].got = Append(@, written)] ELSE peer
    <3> DEFINE p == h.of
               c == IF peer[p].on THEN [peer[p] EXCEPT !.live = TRUE, !.got = Append(@, written)] ELSE peer[p]
    <3>1. p \in Peers /\ ~peer[p].live
      BY <1>t, <2>2, <2>6
    <3>2. peer' = [peer EXCEPT ![p] = c]
      <4> HIDE DEF h
      <4> QED
        BY <1>t, <2>6, <3>1
    <3>3. c \in Conn /\ UpToDate(c, written)
      BY <1>t, <3>1, FirstScreen
    <3>4. \A j \in DOMAIN tail' : tail'[j].op = "snapshot" => tail'[j].of \in Peers /\ tail'[j].of # p /\ ~peer[tail'[j].of].live
      BY <1>t, <2>2, <2>6
    <3> HIDE DEF c, p
    <3>5. peer' \in [Peers -> Conn] /\ \A q \in Peers : peer'[q] = IF q = p THEN c ELSE peer[q]
      BY <1>t, <3>1, <3>2, <3>3
    <3>6. \A q \in Peers : UpToDate(peer'[q], written)
      BY <1>t, <3>3, <3>5
    <3>7. \A j \in DOMAIN tail' : tail'[j].op = "snapshot" => tail'[j].of \in Peers /\ ~peer'[tail'[j].of].live
      BY <3>4, <3>5
    <3>8. \A q \in Peers : UpToDate(peer[q], written)'
      BY <2>6, <3>6 DEF UpToDate
    <3> QED
      BY <1>t, <2>2, <2>3, <2>6, <3>5, <3>7, <3>8 DEF ScreenInv
  <2> QED
    BY <1>9, <2>4, <2>5, <2>6 DEF RunTask
\* A connection comes and goes.
<1>10. ASSUME NEW p \in Peers, Attach(p) PROVE ScreenInv'
  <2> DEFINE x == ScreenOf(p)
             c == [peer[p] EXCEPT !.on = TRUE]
  <2>1. x \in Task /\ x.op = "snapshot" /\ x.of = p
    BY DEF ScreenOf, Task
  <2>2. peer[p] = Away /\ tail' = Append(tail, x) /\ peer' = [peer EXCEPT ![p] = c] /\ written' = written
    BY <1>10, <1>t DEF Attach
  <2>3. \A j \in DOMAIN tail : tail[j].op = "snapshot" => tail[j].of # p
    <3> SUFFICES ASSUME NEW j \in DOMAIN tail, tail[j].op = "snapshot", tail[j].of = p PROVE FALSE
      OBVIOUS
    <3>1. tail[j] \in Task
      BY <1>t
    <3>2. tail[j] = x
      BY <3>1 DEF Task, ScreenOf
    <3>3. Contains(tail, x)
      BY <1>t, <3>2 DEF Contains
    <3> QED
      BY <1>10, <3>3 DEF Attach
  <2>4. c \in Conn /\ ~c.live /\ c.got = <<>>
    <3>1. Away \in Conn /\ ~Away.live /\ Away.got = <<>>
      BY AwayFacts DEF Away
    <3> QED
      BY <2>2, <3>1 DEF Conn
  <2>5. UpToDate(c, written)
    <3>1. \A i \in 1..(Len(c.got) - 1) : c.got[i + 1] = c.got[i] + 1
      <4>1. Len(c.got) = 0
        BY <2>4
      <4> QED
        BY <4>1
    <3> QED
      BY <2>4, <3>1 DEF UpToDate
  <2> HIDE DEF x, c
  <2>6. peer' \in [Peers -> Conn] /\ \A q \in Peers : peer'[q] = IF q = p THEN c ELSE peer[q]
    BY <1>t, <2>2, <2>4
  <2>7. /\ tail' \in Seq(Task)
        /\ \A j \in DOMAIN tail' : (j \in DOMAIN tail /\ tail'[j] = tail[j]) \/ (j = Len(tail) + 1 /\ tail'[j] = x)
    BY <2>1, <2>2, TasksAfter
  <2>8. \A j \in DOMAIN tail' : tail'[j].op = "snapshot" => tail'[j].of \in Peers /\ ~peer'[tail'[j].of].live
    BY <1>t, <2>1, <2>4, <2>6, <2>7
  <2>9. \A j, k \in DOMAIN tail' :
          tail'[j].op = "snapshot" /\ tail'[k].op = "snapshot" /\ tail'[j].of = tail'[k].of => j = k
    BY <1>t, <2>1, <2>3, <2>7
  <2>10. \A q \in Peers : UpToDate(peer[q], written)'
    <3>1. \A q \in Peers : UpToDate(peer'[q], written)
      BY <1>t, <2>5, <2>6
    <3> QED
      BY <2>2, <3>1 DEF UpToDate
  <2> QED
    BY <1>t, <2>2, <2>6, <2>7, <2>8, <2>9, <2>10 DEF ScreenInv
<1>11. ASSUME NEW p \in Peers, Detach(p) PROVE ScreenInv'
  <2>1. peer' = [peer EXCEPT ![p] = Away] /\ written' = written
    BY <1>11 DEF Detach
  <2>2. /\ peer' \in [Peers -> Conn] /\ \A q \in Peers : UpToDate(peer'[q], written)
        /\ \A q \in Peers : peer'[q].live => peer[q].live
    BY <1>t, <2>1, AwayFacts
  <2>3. \A q \in Peers : UpToDate(peer[q], written)'
    BY <2>1, <2>2 DEF UpToDate
  <2>4. CASE tail' = tail
    BY <1>t, <2>1, <2>2, <2>3, <2>4 DEF ScreenInv
  <2>5. ASSUME NEW m \in DOMAIN tail, tail' = RemoveAt(tail, m) PROVE ScreenInv'
    <3>1. m \in 1..Len(tail) /\ Len(tail) \in Nat
      BY <1>t
    <3>2. /\ tail' \in Seq(Task) /\ Len(tail') = Len(tail) - 1
          /\ \A j \in 1..(Len(tail) - 1) : tail'[j] = IF j < m THEN tail[j] ELSE tail[j + 1]
      BY <1>t, <2>5, <3>1, RemoveAtFacts
    <3> DEFINE at(j) == IF j < m THEN j ELSE j + 1
    <3>3. \A j \in DOMAIN tail' : j \in Nat /\ at(j) \in DOMAIN tail /\ tail'[j] = tail[at(j)]
      <4> SUFFICES ASSUME NEW j \in DOMAIN tail'
                   PROVE  j \in Nat /\ at(j) \in DOMAIN tail /\ tail'[j] = tail[at(j)]
        OBVIOUS
      <4>1. j \in 1..(Len(tail) - 1) /\ j \in Nat
        BY <3>1, <3>2
      <4>2. CASE j < m
        BY <1>t, <3>1, <3>2, <4>1, <4>2
      <4>3. CASE ~(j < m)
        BY <1>t, <3>1, <3>2, <4>1, <4>3
      <4> QED
        BY <4>2, <4>3
    <3>4. \A j, k \in Nat : at(j) = at(k) => j = k
      BY <3>1
    <3> HIDE DEF at
    <3>5. \A j \in DOMAIN tail' : tail'[j].op = "snapshot" => tail'[j].of \in Peers /\ ~peer'[tail'[j].of].live
      BY <1>t, <2>2, <3>3
    <3>6. \A j, k \in DOMAIN tail' :
            tail'[j].op = "snapshot" /\ tail'[k].op = "snapshot" /\ tail'[j].of = tail'[k].of => j = k
      <4> SUFFICES ASSUME NEW j \in DOMAIN tail', NEW k \in DOMAIN tail',
                          tail'[j].op = "snapshot" /\ tail'[k].op = "snapshot" /\ tail'[j].of = tail'[k].of
                   PROVE  j = k
        OBVIOUS
      <4>1. at(j) = at(k)
        BY <1>t, <3>3
      <4> QED
        BY <3>3, <3>4, <4>1
    <3> QED
      BY <1>t, <2>1, <2>2, <2>3, <3>2, <3>5, <3>6 DEF ScreenInv
  <2> QED
    BY <1>11, <2>4, <2>5 DEF Detach
<1> QED
  BY <1>2, <1>3, <1>4, <1>6, <1>8, <1>9, <1>10, <1>11 DEF TerminalNext

\* What a connection was sent is a snapshot and every chunk after it, and a deleted session has no shell
\* unless its terminal was closed while it started, or its start and the close after it failed; a shell
\* left by either is known to the guardian until that ends (attach, output, withProject, assertDeletable, spawn).
THEOREM TerminalIsSafe == TerminalSpec => []TerminalSafe
<1>1. ProcInv => DeletedHasNoShell
  BY DEF ProcInv, ProcTypes, LockInv, ShellInv, DeletedHasNoShell, Up, Busy
<1>2. ScreenInv => PeerSeesAll
  BY DEF ScreenInv, UpToDate, PeerSeesAll
<1> QED
  BY <1>1, <1>2, ProcInit, ProcKept, ScreenInit, ScreenKept, PTL DEF TerminalSpec, TerminalSafe

-----------------------------------------------------------------------------
\* The launcher (Launcher).

Ops == {"none", "start", "stop", "cleanup"}
Stages == {"idle", "verify", "config", "migrate", "admin", "build", "spawn", "record", "wait",
           "term", "kill", "verdict", "backup", "vacuum", "check", "finish"}
Commands == [op : Ops, pc : Stages]
Starting == {"verify", "config", "migrate", "admin", "build", "spawn"}
Opened == {"config", "migrate", "admin", "build", "spawn", "record", "wait"}
Built == {"build", "spawn", "record", "wait"}

\* Each command has its stages.
Staged ==
  /\ cmd.op = "none" <=> cmd.pc = "idle"
  /\ cmd.op = "start" <=> cmd.pc \in {"verify"} \cup Opened
  /\ cmd.op = "stop" <=> cmd.pc \in {"term", "kill", "verdict"}

\* A start has dropped the PID file and writes it after the spawn; a stop has one to work on.
Recorded ==
  /\ cmd.pc \in Starting \cup {"record", "verdict"} => pid = 0
  /\ cmd.pc \in Starting => spawned < MaxStarts
  /\ cmd.pc \in {"term", "kill"} => pid # 0
  /\ cmd.op = "cleanup" => pid \notin apis \/ orphaned
  /\ port # 0 => port \in apis

\* Unless one was orphaned, the only API alive is the one of the PID file, or about to be put there.
Named ==
  \A a \in apis : orphaned \/ a = pid \/ (cmd.pc = "record" /\ a = spawned)

\* A cleanup has its backup until the database passed its check.
BackedUp ==
  /\ database = "spoiled" => backups # {}
  /\ cmd.pc \in {"vacuum", "check", "finish"} => "own" \in backups
  /\ cmd.pc = "finish" => database # "spoiled"

\* An API is started only after the administrator was created.
Administered ==
  /\ cmd.pc = "admin" => FirstRun
  /\ ~halfway /\ (apis # {} \/ cmd.pc \in Built) => admin

\* The marker is there only for a database written back that nobody has open; a damaged one is not
\* opened, and a stop does not meet it unless the damage is unknown.
Vouched ==
  orphaned \/ blind \/
    /\ marker => apis = {} /\ database \in {"absent", "clean"} /\ cmd.pc \notin Opened /\ cmd.op # "cleanup"
    /\ cmd.pc \in Opened \cup {"vacuum", "finish"} => ~Damaged
    /\ cmd.pc = "check" => database \in {"clean", "spoiled"}
    /\ cmd.pc = "finish" => database = "clean"
    /\ apis # {} => ~Damaged
    /\ Damaged /\ ~lost => pid = 0 /\ cmd.op # "stop"

LauncherInv == LauncherTypeOK /\ Staged /\ Recorded /\ Named /\ BackedUp /\ Administered /\ Vouched

\* A step that moves a command on changes its stage only.
LEMMA Goes ==
  ASSUME cmd \in Commands, NEW pc \in Stages, GoTo(pc)
  PROVE  cmd' \in Commands /\ cmd'.op = cmd.op /\ cmd'.pc = pc
  BY DEF GoTo, Commands

\* Processes that end, and an API that writes or closes the database, leave everything of its type.
LEMMA TypedAsTheyEnd ==
  ASSUME LauncherTypeOK, apis' \subseteq apis, wrappers' \subseteq apis', webs' \subseteq webs, port' \in {0, port},
         database' \in {database, "clean", "wal"}, faults' \in 0..MaxFaults,
         UNCHANGED <<files, cmd, spawned, orphaned, lost, blind, halfway>>
  PROVE  LauncherTypeOK'
<1>1. /\ apis' \subseteq 1..MaxStarts /\ webs' \subseteq 1..MaxStarts /\ port' \in 0..MaxStarts
      /\ database' \in {"absent", "clean", "wal", "damaged", "spoiled"}
  BY LauncherAssumption DEF LauncherTypeOK
<1>2. /\ UNCHANGED <<config, marker, backups, admin, cmd, spawned, pid>>
      /\ UNCHANGED <<orphaned, lost, blind, halfway>>
  BY DEF files
<1> QED
  BY <1>1, <1>2 DEF LauncherTypeOK

LEMMA Inductive == LauncherInv /\ [LauncherNext]_launcherVars => LauncherInv'
<1> SUFFICES ASSUME LauncherInv, [LauncherNext]_launcherVars
             PROVE  LauncherInv'
  OBVIOUS
<1>1. cmd \in Commands
  BY DEF LauncherInv, LauncherTypeOK, Commands, Ops, Stages
<1>2. \A pc \in Stages : GoTo(pc) => cmd' \in Commands /\ cmd'.op = cmd.op /\ cmd'.pc = pc
  BY <1>1, Goes
<1>3. Idle \in Commands /\ Idle.op = "none" /\ Idle.pc = "idle"
  BY DEF Idle, Commands, Ops, Stages
<1> USE LauncherAssumption DEF LauncherInv, LauncherTypeOK, Staged, Recorded, Named, BackedUp, Administered, Vouched,
        Damaged, FirstRun, Fault, Opens, Recovers, Doing, Starting, Opened, Built, files, procs, histories,
        ApiEnds, Vacuumed
<1>4. CASE UNCHANGED launcherVars
  BY <1>4 DEF launcherVars
<1>5. CASE CmdStart
  BY <1>1, <1>2, <1>3, <1>5 DEF CmdStart, Stages, Ops, Commands
<1>6. CASE VerifyDatabase
  <2>1. LauncherTypeOK'
    BY <1>1, <1>2, <1>3, <1>6, ZenonT(60) DEF VerifyDatabase, Stages, Ops, Commands
  <2>2. Staged'
    BY <1>1, <1>2, <1>3, <1>6 DEF VerifyDatabase, Stages, Ops, Commands
  <2>3. Recorded'
    BY <1>1, <1>2, <1>3, <1>6 DEF VerifyDatabase, Stages, Ops, Commands
  <2>4. Named'
    BY <1>1, <1>2, <1>3, <1>6 DEF VerifyDatabase, Stages, Ops, Commands
  <2>5. BackedUp'
    BY <1>1, <1>2, <1>3, <1>6 DEF VerifyDatabase, Stages, Ops, Commands
  <2>6. Administered'
    BY <1>1, <1>2, <1>3, <1>6 DEF VerifyDatabase, Stages, Ops, Commands
  <2>7. Vouched'
    BY <1>1, <1>2, <1>3, <1>6 DEF VerifyDatabase, Stages, Ops, Commands
  <2> QED BY <2>1, <2>2, <2>3, <2>4, <2>5, <2>6, <2>7
<1>7. CASE ResolveConfig
  <2>1. LauncherTypeOK'
    BY <1>1, <1>2, <1>3, <1>7, ZenonT(60) DEF ResolveConfig, Stages, Ops, Commands
  <2>2. Staged'
    BY <1>1, <1>2, <1>3, <1>7 DEF ResolveConfig, Stages, Ops, Commands
  <2>3. Recorded'
    BY <1>1, <1>2, <1>3, <1>7 DEF ResolveConfig, Stages, Ops, Commands
  <2>4. Named'
    BY <1>1, <1>2, <1>3, <1>7 DEF ResolveConfig, Stages, Ops, Commands
  <2>5. BackedUp'
    BY <1>1, <1>2, <1>3, <1>7 DEF ResolveConfig, Stages, Ops, Commands
  <2>6. Administered'
    BY <1>1, <1>2, <1>3, <1>7 DEF ResolveConfig, Stages, Ops, Commands
  <2>7. Vouched'
    BY <1>1, <1>2, <1>3, <1>7 DEF ResolveConfig, Stages, Ops, Commands
  <2> QED BY <2>1, <2>2, <2>3, <2>4, <2>5, <2>6, <2>7
<1>8. CASE RunPrismaMigrations
  BY <1>1, <1>2, <1>3, <1>8 DEF RunPrismaMigrations, Stages, Ops, Commands
<1>9. CASE CreateAdminUser
  BY <1>1, <1>2, <1>3, <1>9 DEF CreateAdminUser, Stages, Ops, Commands
<1>10. CASE EnsureWebBuild
  BY <1>1, <1>2, <1>3, <1>10 DEF EnsureWebBuild, Stages, Ops, Commands
<1>11. CASE SpawnDetached
  BY <1>1, <1>2, <1>3, <1>11 DEF SpawnDetached, Stages, Ops, Commands
<1>12. CASE WritePidFile
  BY <1>1, <1>2, <1>3, <1>12 DEF WritePidFile, Stages, Ops, Commands
<1>13. CASE WaitForStartup
  BY <1>1, <1>2, <1>3, <1>13 DEF WaitForStartup, Stages, Ops, Commands
<1>14. CASE CmdStop
  BY <1>1, <1>2, <1>3, <1>14 DEF CmdStop, Stages, Ops, Commands
<1>15. CASE GroupExits
  <2>1. LauncherTypeOK'
    <3>1. /\ apis' \subseteq apis /\ wrappers' \subseteq apis' /\ webs' \subseteq webs /\ port' \in {0, port}
          /\ database' \in {database, "clean"}
      BY <1>15 DEF GroupExits
    <3>2. faults' \in 0..MaxFaults /\ UNCHANGED <<files, cmd, spawned, orphaned, lost, blind, halfway>>
      BY <1>15 DEF GroupExits
    <3> HIDE DEF LauncherTypeOK, files
    <3> QED BY <3>1, <3>2, TypedAsTheyEnd
  <2>2. Staged'
    BY <1>1, <1>2, <1>3, <1>15 DEF GroupExits, Stages, Ops, Commands
  <2>3. Recorded'
    BY <1>1, <1>2, <1>3, <1>15 DEF GroupExits, Stages, Ops, Commands
  <2>4. Named'
    <3>1. apis' \subseteq apis
      BY <1>15 DEF GroupExits
    <3> QED BY <1>15, <3>1 DEF GroupExits
  <2>5. BackedUp'
    BY <1>1, <1>2, <1>3, <1>15 DEF GroupExits, Stages, Ops, Commands
  <2>6. Administered'
    BY <1>1, <1>2, <1>3, <1>15 DEF GroupExits, Stages, Ops, Commands
  <2>7. Vouched'
    BY <1>1, <1>2, <1>3, <1>15 DEF GroupExits, Stages, Ops, Commands
  <2> QED BY <2>1, <2>2, <2>3, <2>4, <2>5, <2>6, <2>7
<1>16. CASE StopTimesOut
  BY <1>1, <1>2, <1>3, <1>16 DEF StopTimesOut, Stages, Ops, Commands
<1>17. CASE StopWaited
  BY <1>1, <1>2, <1>3, <1>17 DEF StopWaited, Stages, Ops, Commands
<1>18. CASE VerifyDatabaseAfterStop
  <2>1. LauncherTypeOK'
    BY <1>1, <1>2, <1>3, <1>18 DEF VerifyDatabaseAfterStop, Stages, Ops, Commands
  <2>2. Staged'
    BY <1>1, <1>2, <1>3, <1>18 DEF VerifyDatabaseAfterStop, Stages, Ops, Commands
  <2>3. Recorded'
    BY <1>1, <1>2, <1>3, <1>18 DEF VerifyDatabaseAfterStop, Stages, Ops, Commands
  <2>4. Named'
    BY <1>1, <1>2, <1>3, <1>18 DEF VerifyDatabaseAfterStop, Stages, Ops, Commands
  <2>5. BackedUp'
    BY <1>1, <1>2, <1>3, <1>18 DEF VerifyDatabaseAfterStop, Stages, Ops, Commands
  <2>6. Administered'
    BY <1>1, <1>2, <1>3, <1>18 DEF VerifyDatabaseAfterStop, Stages, Ops, Commands
  <2>7. Vouched'
    <3>1. SUFFICES ASSUME ~orphaned, ~blind' PROVE Vouched'
      BY <1>18 DEF VerifyDatabaseAfterStop
    <3>2. cmd.pc = "verdict" /\ cmd.op = "stop" /\ pid = 0 /\ apis = {} /\ ~blind
      <4>1. cmd.pc = "verdict" /\ cmd.op = "stop" /\ pid = 0
        BY <1>18 DEF VerifyDatabaseAfterStop
      <4>2. apis = {}
        BY <3>1, <4>1
      <4>3. blind => blind'
        BY <1>18 DEF VerifyDatabaseAfterStop
      <4> QED BY <3>1, <4>1, <4>2, <4>3
    <3>3. UNCHANGED <<pid, apis, orphaned, lost>> /\ cmd'.op = "none" /\ cmd'.pc = "idle"
      BY <1>3, <1>18 DEF VerifyDatabaseAfterStop
    <3>4. Damaged => lost
      BY <3>1, <3>2
    <3>5. CASE database = "absent"
      BY <1>18, <3>1, <3>2, <3>3, <3>5 DEF VerifyDatabaseAfterStop
    <3>6. CASE database # "absent"
      <4>1. PICK complete \in {TRUE} \cup {b \in {FALSE} : database # "clean"} :
              /\ marker' = (marker \/ complete) /\ blind' = (blind \/ (complete /\ lost))
              /\ database' = IF complete /\ database = "wal" THEN "clean" ELSE database
        BY <1>18, <3>6 DEF VerifyDatabaseAfterStop
      <4>2. CASE complete
        <5>1. ~lost /\ ~Damaged /\ database' \in {"clean"}
          BY <3>1, <3>4, <3>6, <4>1, <4>2
        <5> QED BY <3>2, <3>3, <5>1
      <4>3. CASE ~complete
        <5>1. marker' = marker /\ database' = database
          BY <4>1, <4>3
        <5> QED BY <3>1, <3>2, <3>3, <5>1
      <4> QED BY <4>2, <4>3
    <3> QED BY <3>5, <3>6
  <2> QED BY <2>1, <2>2, <2>3, <2>4, <2>5, <2>6, <2>7
<1>19. CASE CmdCleanupDb
  <2>1. LauncherTypeOK'
    BY <1>1, <1>2, <1>3, <1>19 DEF CmdCleanupDb, Stages, Ops, Commands
  <2>2. Staged'
    BY <1>1, <1>2, <1>3, <1>19 DEF CmdCleanupDb, Stages, Ops, Commands
  <2>3. Recorded'
    BY <1>1, <1>2, <1>3, <1>19 DEF CmdCleanupDb, Stages, Ops, Commands
  <2>4. Named'
    BY <1>1, <1>2, <1>3, <1>19 DEF CmdCleanupDb, Stages, Ops, Commands
  <2>5. BackedUp'
    BY <1>1, <1>2, <1>3, <1>19 DEF CmdCleanupDb, Stages, Ops, Commands
  <2>6. Administered'
    BY <1>1, <1>2, <1>3, <1>19 DEF CmdCleanupDb, Stages, Ops, Commands
  <2>7. Vouched'
    BY <1>1, <1>2, <1>3, <1>19 DEF CmdCleanupDb, Stages, Ops, Commands
  <2> QED BY <2>1, <2>2, <2>3, <2>4, <2>5, <2>6, <2>7
<1>20. CASE BackUp
  <2>1. LauncherTypeOK'
    BY <1>1, <1>2, <1>3, <1>20, ZenonT(60) DEF BackUp, Stages, Ops, Commands
  <2>2. Staged'
    BY <1>1, <1>2, <1>3, <1>20 DEF BackUp, Stages, Ops, Commands
  <2>3. Recorded'
    BY <1>1, <1>2, <1>3, <1>20 DEF BackUp, Stages, Ops, Commands
  <2>4. Named'
    BY <1>1, <1>2, <1>3, <1>20 DEF BackUp, Stages, Ops, Commands
  <2>5. BackedUp'
    BY <1>1, <1>2, <1>3, <1>20 DEF BackUp, Stages, Ops, Commands
  <2>6. Administered'
    BY <1>1, <1>2, <1>3, <1>20 DEF BackUp, Stages, Ops, Commands
  <2>7. Vouched'
    BY <1>1, <1>2, <1>3, <1>20 DEF BackUp, Stages, Ops, Commands
  <2> QED BY <2>1, <2>2, <2>3, <2>4, <2>5, <2>6, <2>7
<1>21. CASE Vacuum
  <2>1. LauncherTypeOK'
    BY <1>1, <1>2, <1>3, <1>21 DEF Vacuum, Stages, Ops, Commands
  <2>2. Staged'
    BY <1>1, <1>2, <1>3, <1>21 DEF Vacuum, Stages, Ops, Commands
  <2>3. Recorded'
    BY <1>1, <1>2, <1>3, <1>21 DEF Vacuum, Stages, Ops, Commands
  <2>4. Named'
    BY <1>1, <1>2, <1>3, <1>21 DEF Vacuum, Stages, Ops, Commands
  <2>5. BackedUp'
    BY <1>1, <1>2, <1>3, <1>21 DEF Vacuum, Stages, Ops, Commands
  <2>6. Administered'
    BY <1>1, <1>2, <1>3, <1>21 DEF Vacuum, Stages, Ops, Commands
  <2>7. Vouched'
    <3>1. CASE orphaned \/ blind
      BY <1>21, <3>1 DEF Vacuum
    <3>2. CASE ~orphaned /\ ~blind
      <4>1. cmd.op = "cleanup" /\ cmd.pc = "vacuum" /\ ~marker /\ ~Damaged /\ pid \notin apis
        BY <1>21, <3>2 DEF Vacuum
      <4>2. apis = {}
        BY <3>2, <4>1
      <4>3. /\ ~marker' /\ apis' = {} /\ UNCHANGED pid
            /\ lost' = (database' = "spoiled")
        BY <1>21, <4>1, <4>2 DEF Vacuum
      <4>4. CASE cmd' = Idle
        <5>1. database' = database
          BY <1>21, <4>4 DEF Vacuum
        <5>2. ~Damaged'
          BY <4>1, <5>1
        <5> QED BY <1>3, <4>3, <4>4, <5>2
      <4>5. CASE cmd' = [cmd EXCEPT !.pc = "check"]
        <5>1. cmd'.op = "cleanup" /\ cmd'.pc = "check"
          BY <1>1, <4>1, <4>5 DEF Commands
        <5>2. database' \in {"clean", "spoiled"}
          BY <1>21, <1>3, <4>2, <5>1 DEF Vacuum
        <5>3. Damaged' => lost'
          BY <4>3, <5>2
        <5> QED BY <4>3, <5>1, <5>2, <5>3
      <4> QED BY <1>21, <4>4, <4>5 DEF Vacuum
    <3> QED BY <3>1, <3>2
  <2> QED BY <2>1, <2>2, <2>3, <2>4, <2>5, <2>6, <2>7
<1>22. CASE CheckAfterVacuum
  BY <1>1, <1>2, <1>3, <1>22 DEF CheckAfterVacuum, Stages, Ops, Commands
<1>23. CASE DeleteBackup
  BY <1>1, <1>2, <1>3, <1>23 DEF DeleteBackup, Stages, Ops, Commands
<1>24. CASE ApiWrites
  BY <1>1, <1>2, <1>3, <1>24 DEF ApiWrites, Stages, Ops, Commands
<1>25. CASE ProcessDies
  <2>1. LauncherTypeOK'
    <3>1. /\ apis' \subseteq apis /\ wrappers' \subseteq apis' /\ webs' \subseteq webs /\ port' \in {0, port}
      BY <1>25 DEF ProcessDies
    <3>2. faults' \in 0..MaxFaults /\ UNCHANGED <<files, database, cmd, spawned, orphaned, lost, blind, halfway>>
      BY <1>25 DEF ProcessDies
    <3> HIDE DEF LauncherTypeOK, files
    <3> QED BY <3>1, <3>2, TypedAsTheyEnd
  <2>2. Staged'
    BY <1>1, <1>2, <1>3, <1>25 DEF ProcessDies, Stages, Ops, Commands
  <2>3. Recorded'
    BY <1>1, <1>2, <1>3, <1>25 DEF ProcessDies, Stages, Ops, Commands
  <2>4. Named'
    <3>1. apis' \subseteq apis
      BY <1>25 DEF ProcessDies
    <3> QED BY <1>25, <3>1 DEF ProcessDies
  <2>5. BackedUp'
    BY <1>1, <1>2, <1>3, <1>25 DEF ProcessDies, Stages, Ops, Commands
  <2>6. Administered'
    BY <1>1, <1>2, <1>3, <1>25 DEF ProcessDies, Stages, Ops, Commands
  <2>7. Vouched'
    BY <1>1, <1>2, <1>3, <1>25 DEF ProcessDies, Stages, Ops, Commands
  <2> QED BY <2>1, <2>2, <2>3, <2>4, <2>5, <2>6, <2>7
<1>26. CASE CommandKilled
  <2>1. LauncherTypeOK'
    BY <1>1, <1>2, <1>3, <1>26 DEF CommandKilled, Stages, Ops, Commands
  <2>2. Staged'
    BY <1>1, <1>2, <1>3, <1>26 DEF CommandKilled, Stages, Ops, Commands
  <2>3. Recorded'
    BY <1>1, <1>2, <1>3, <1>26 DEF CommandKilled, Stages, Ops, Commands
  <2>4. Named'
    BY <1>1, <1>2, <1>3, <1>26 DEF CommandKilled, Stages, Ops, Commands
  <2>5. BackedUp'
    BY <1>1, <1>2, <1>3, <1>26 DEF CommandKilled, Stages, Ops, Commands
  <2>6. Administered'
    BY <1>1, <1>2, <1>3, <1>26 DEF CommandKilled, Stages, Ops, Commands
  <2>7. Vouched'
    BY <1>1, <1>2, <1>3, <1>26 DEF CommandKilled, Stages, Ops, Commands
  <2> QED BY <2>1, <2>2, <2>3, <2>4, <2>5, <2>6, <2>7
<1>27. CASE PowerLoss
  <2>1. LauncherTypeOK'
    BY <1>1, <1>2, <1>3, <1>27 DEF PowerLoss, Stages, Ops, Commands
  <2>2. Staged'
    BY <1>1, <1>2, <1>3, <1>27 DEF PowerLoss, Stages, Ops, Commands
  <2>3. Recorded'
    BY <1>1, <1>2, <1>3, <1>27 DEF PowerLoss, Stages, Ops, Commands
  <2>4. Named'
    BY <1>1, <1>2, <1>3, <1>27 DEF PowerLoss, Stages, Ops, Commands
  <2>5. BackedUp'
    BY <1>1, <1>2, <1>3, <1>27 DEF PowerLoss, Stages, Ops, Commands
  <2>6. Administered'
    BY <1>1, <1>2, <1>3, <1>27 DEF PowerLoss, Stages, Ops, Commands
  <2>7. Vouched'
    BY <1>1, <1>2, <1>3, <1>27 DEF PowerLoss, Stages, Ops, Commands
  <2> QED BY <2>1, <2>2, <2>3, <2>4, <2>5, <2>6, <2>7
<1>28. ASSUME NEW a \in apis, ApiListens(a) PROVE LauncherInv'
  <2>1. apis' \subseteq apis /\ port' \in 0..MaxStarts /\ (port' # 0 => port' \in apis')
    BY <1>28 DEF ApiListens
  <2>2. database' \in {database, "wal"} /\ (database' # database => database = "clean")
    BY <1>28 DEF ApiListens
  <2>3. LauncherTypeOK'
    <3>1. /\ apis' \subseteq apis /\ wrappers' \subseteq apis' /\ webs' = webs
          /\ UNCHANGED <<files, cmd, spawned, orphaned, lost, blind, halfway, faults>>
      BY <1>28 DEF ApiListens
    <3>2. port' \in 0..MaxStarts /\ apis' \subseteq 1..MaxStarts
      BY <2>1, <3>1
    <3>3. database' \in {"absent", "clean", "wal", "damaged", "spoiled"}
      BY <2>2
    <3> HIDE DEF Damaged, FirstRun, Vouched, Administered, BackedUp, Named, Recorded, Staged
    <3> QED BY <3>1, <3>2, <3>3
  <2>4. Staged'
    BY <1>28, <2>1, <2>2 DEF ApiListens
  <2>5. Recorded'
    BY <1>28, <2>1, <2>2 DEF ApiListens
  <2>6. Named'
    BY <1>28, <2>1, <2>2 DEF ApiListens
  <2>7. BackedUp'
    BY <1>28, <2>1, <2>2 DEF ApiListens
  <2>8. Administered'
    BY <1>28, <2>1, <2>2 DEF ApiListens
  <2>9. Vouched'
    BY <1>28, <2>1, <2>2 DEF ApiListens
  <2> QED BY <2>3, <2>4, <2>5, <2>6, <2>7, <2>8, <2>9
<1> QED
  BY <1>4, <1>5, <1>6, <1>7, <1>8, <1>9, <1>10, <1>11, <1>12, <1>13, <1>14, <1>15, <1>16, <1>17, <1>18, <1>19, <1>20, <1>21, <1>22, <1>23, <1>24, <1>25, <1>26, <1>27, <1>28 DEF LauncherNext

THEOREM LauncherInvariant == LauncherSpec => []LauncherInv
<1>1. LauncherInit => LauncherInv
  <2> SUFFICES ASSUME LauncherInit PROVE LauncherInv
    OBVIOUS
  <2>1. LauncherTypeOK
    <3>1. 0 \in 0..MaxStarts /\ 0 \in 0..MaxFaults
      BY LauncherAssumption
    <3>2. [op |-> "none", pc |-> "idle"] \in Commands
      BY DEF Commands, Ops, Stages
    <3> QED BY <3>1, <3>2 DEF LauncherInit, LauncherTypeOK, Idle, Commands, Ops, Stages
  <2>2. cmd.op = "none" /\ cmd.pc = "idle"
    BY DEF LauncherInit, Idle
  <2>3. Staged /\ Recorded
    BY <2>2 DEF LauncherInit, Staged, Recorded, Starting, Opened
  <2>4. Named /\ BackedUp /\ Administered /\ Vouched
    BY <2>2 DEF LauncherInit, Named, BackedUp, Administered, Vouched, Built, Opened, Damaged
  <2> QED BY <2>1, <2>3, <2>4 DEF LauncherInv
<1> QED
  BY <1>1, Inductive, PTL DEF LauncherSpec

\* The clean-shutdown marker is only there for a database that was written back and that no API has open,
\* a database that a cleanup spoiled has a backup, and whoever serves has an administrator, whichever
\* command is killed and whichever process dies (cmdStart, cmdStop, cleanup-db, ensureBootstrap).
THEOREM KeepsItsFiles == LauncherSpec => []LauncherSafe
<1>1. LauncherInv => LauncherSafe
  <2> SUFFICES ASSUME LauncherInv PROVE LauncherSafe
    OBVIOUS
  <2>1. port # 0 => apis # {}
    BY DEF LauncherInv, Recorded
  <2>2. MarkerIsTrue
    BY <2>1 DEF LauncherInv, LauncherTypeOK, Vouched, MarkerIsTrue
  <2>3. BackupIsKept
    BY DEF LauncherInv, BackedUp, BackupIsKept
  <2>4. AdminExists
    BY <2>1 DEF LauncherInv, Administered, AdminExists
  <2> QED BY <2>2, <2>3, <2>4 DEF LauncherSafe
<1> QED
  BY <1>1, LauncherInvariant, PTL

-----------------------------------------------------------------------------
\* The accounts and the logins (Accounts).

\* Nobody takes a step against himself: what the guard let through stays so until it is written.
NotHimself ==
  \A b \in Pages :
    request[b].op = "manage" /\ request[b].pc = "passed" /\ request[b].of = request[b].by =>
      request[b].edit \notin {"demote", "disable"}

\* A logout goes on with a login it has found.
FoundLives == \A b \in Pages : request[b].pc = "found" => login[request[b].token].state # "none"

AccountsInv == AccountsTypeOK /\ NotHimself /\ FoundLives /\ AdminRemains /\ RevocationReaches

\* What the API makes of a request, and of a login.
LEMMA NoRequestState == NoRequestOf \in RequestStates
  BY AccountsAssumption DEF NoRequestOf, RequestStates, Founded, Underway, SomeToken, SomeUser, Passwords

LEMMA OverState ==
  ASSUME NEW r \in RequestStates, NEW pc \in {"done", "refused", "cut"}
  PROVE  Over(r, pc) \in RequestStates
<1>1. r.op \in {"none", "login", "session", "logout", "password", "manage"}
  BY DEF RequestStates
<1>2. 0 \in Passwords
  BY AccountsAssumption DEF Passwords
<1>3. Founded(Over(r, pc))
  BY DEF Over, NoRequestOf, Founded, Underway
<1>4. Over(r, pc) \in [op : {"none", "login", "session", "logout", "password", "manage"},
          pc : Underway \cup {"idle", "done", "refused", "cut"},
          token : SomeToken, by : SomeUser, of : SomeUser, given : Passwords, edit : Edits \cup {"none"}]
  BY <1>1, <1>2 DEF Over, NoRequestOf, SomeToken, SomeUser
<1> QED
  BY <1>3, <1>4 DEF RequestStates

LEMMA NoSocketState == NoConn \in SocketStates
  BY DEF NoConn, SocketStates, SomeToken, SomeUser

LEMMA PrincipalUser ==
  ASSUME AccountsTypeOK, NEW t \in SomeToken
  PROVE  /\ Principal(t) \in SomeUser
         /\ Principal(t) # NoUser => Principal(t) \in Users /\ t \in Tokens
<1>1. ASSUME t \in Tokens PROVE login[t] \in LoginStates
  BY <1>1 DEF AccountsTypeOK
<1>2. ASSUME t \in Tokens, login[t].state = "live" PROVE login[t].owner \in Users
  BY <1>1, <1>2 DEF LoginStates
<1> QED
  BY <1>2 DEF Principal, SomeUser

LEMMA EditedState ==
  ASSUME NEW a \in AccountStates, NEW e \in Edits, NEW n \in Passwords
  PROVE  Edited(a, e, n) \in AccountStates
<1> USE DEF AccountStates
<1>1. CASE e = "create"
  BY <1>1 DEF Edited
<1>2. CASE e = "promote"
  BY <1>2 DEF Edited
<1>3. CASE e = "demote"
  BY <1>3 DEF Edited
<1>4. CASE e = "enable"
  BY <1>4 DEF Edited
<1>5. CASE e = "disable"
  BY <1>5 DEF Edited
<1>6. CASE e = "reset"
  BY <1>6 DEF Edited
<1> QED
  BY <1>1, <1>2, <1>3, <1>4, <1>5, <1>6 DEF Edits

LEMMA AccountsInitInv == AccountsInit => AccountsInv
<1> SUFFICES ASSUME AccountsInit PROVE AccountsInv
  OBVIOUS
<1>1. account \in [Users -> AccountStates]
  <2>1. 0 \in Passwords
    BY AccountsAssumption DEF Passwords
  <2>2. Unknown \in AccountStates
    BY <2>1 DEF Unknown, AccountStates
  <2>3. [known : {TRUE}, admin : BOOLEAN, active : BOOLEAN, password : {0}] \subseteq AccountStates
    BY <2>1 DEF AccountStates
  <2> QED BY <2>2, <2>3 DEF AccountsInit
<1>2. login \in [Tokens -> LoginStates]
  BY DEF AccountsInit, NoLogin, LoginStates, SomeUser
<1>3. request \in [Pages -> RequestStates] /\ link \in [Conns -> SocketStates]
  BY NoRequestState, NoSocketState DEF AccountsInit
<1>4. AccountsTypeOK
  <2>1. cookie \in [Pages -> SomeToken] /\ shows \in [Pages -> SomeUser]
    BY DEF AccountsInit, SomeToken, SomeUser
  <2>2. script \in BOOLEAN /\ crossed \in BOOLEAN /\ late \subseteq Conns
    BY DEF AccountsInit
  <2>3. writes \in 0..MaxWrites /\ cuts \in 0..MaxCuts
    BY AccountsAssumption DEF AccountsInit
  <2> QED BY <1>1, <1>2, <1>3, <2>1, <2>2, <2>3 DEF AccountsTypeOK
<1>5. NotHimself /\ FoundLives /\ AdminRemains /\ RevocationReaches
  BY DEF AccountsInit, NotHimself, FoundLives, AdminRemains, RevocationReaches, NoRequestOf, NoConn
<1> QED BY <1>4, <1>5 DEF AccountsInv

\* The page.
LEMMA AskInv ==
  ASSUME AccountsInv, NEW b \in Pages, NEW r \in RequestStates, Ask(b, r), shows' \in [Pages -> SomeUser],
         r.op \in {"login", "session", "logout", "password", "manage"},
         r.op \in {"login", "manage"} => r.of \in Users, r.op = "manage" => r.edit \in Edits
  PROVE  AccountsInv'
<1> DEFINE n == [r EXCEPT !.pc = "asked", !.token = cookie[b]]
<1>1. n \in RequestStates /\ n.pc = "asked"
  BY DEF AccountsInv, AccountsTypeOK, RequestStates, Founded, Underway
<1>2. request' = [request EXCEPT ![b] = n] /\ request[b].op = "none"
      /\ UNCHANGED <<account, login, cookie, link, script, writes, cuts, crossed, late>>
  BY DEF Ask
<1> HIDE DEF n
<1>3. request[b].pc # "revoked"
  BY <1>2 DEF AccountsInv, AccountsTypeOK, RequestStates, Founded
<1>4. AccountsTypeOK'
  BY <1>1, <1>2 DEF AccountsInv, AccountsTypeOK
<1>5. NotHimself' /\ FoundLives'
  BY <1>1, <1>2 DEF AccountsInv, AccountsTypeOK, NotHimself, FoundLives
<1>6. AdminRemains'
  BY <1>2 DEF AccountsInv, AdminRemains, Administers
<1>7. RevocationReaches'
  BY <1>1, <1>2, <1>3 DEF AccountsInv, AccountsTypeOK, RevocationReaches
<1> QED BY <1>4, <1>5, <1>6, <1>7 DEF AccountsInv

LEMMA PageInv ==
  ASSUME AccountsInv, NEW b \in Pages,
         \/ \E u \in Users, p \in Passwords : SignIn(b, u, p)
         \/ LoadPage(b) \/ SignOut(b)
         \/ \E p \in Passwords : ChangePassword(b, p)
         \/ \E u \in Users, e \in Edits : Manage(b, u, e)
  PROVE  AccountsInv'
<1>1. NoRequestOf \in RequestStates /\ NoRequestOf.pc = "idle" /\ shows \in [Pages -> SomeUser]
  BY NoRequestState DEF NoRequestOf, AccountsInv, AccountsTypeOK
<1>2. ASSUME NEW u \in Users, NEW p \in Passwords, SignIn(b, u, p) PROVE AccountsInv'
  <2>1. [NoRequestOf EXCEPT !.op = "login", !.of = u, !.given = p] \in RequestStates
    BY AccountsAssumption DEF NoRequestOf, RequestStates, Founded, Underway, SomeToken, SomeUser
  <2>2. shows' = shows /\ Ask(b, [NoRequestOf EXCEPT !.op = "login", !.of = u, !.given = p])
    BY <1>2 DEF SignIn
  <2> QED BY <1>1, <2>1, <2>2, AskInv DEF NoRequestOf
<1>3. ASSUME LoadPage(b) PROVE AccountsInv'
  <2>1. [NoRequestOf EXCEPT !.op = "session"] \in RequestStates
    BY AccountsAssumption DEF NoRequestOf, RequestStates, Founded, Underway, SomeToken, SomeUser, Passwords
  <2>2. shows' \in [Pages -> SomeUser] /\ Ask(b, [NoRequestOf EXCEPT !.op = "session"])
    BY <1>1, <1>3 DEF LoadPage, SomeUser
  <2> QED BY <2>1, <2>2, AskInv DEF NoRequestOf
<1>4. ASSUME SignOut(b) PROVE AccountsInv'
  <2>1. [NoRequestOf EXCEPT !.op = "logout"] \in RequestStates
    BY AccountsAssumption DEF NoRequestOf, RequestStates, Founded, Underway, SomeToken, SomeUser, Passwords
  <2>2. shows' = shows /\ Ask(b, [NoRequestOf EXCEPT !.op = "logout"])
    BY <1>4 DEF SignOut
  <2> QED BY <1>1, <2>1, <2>2, AskInv DEF NoRequestOf
<1>5. ASSUME NEW p \in Passwords, ChangePassword(b, p) PROVE AccountsInv'
  <2>1. [NoRequestOf EXCEPT !.op = "password", !.given = p] \in RequestStates
    BY AccountsAssumption DEF NoRequestOf, RequestStates, Founded, Underway, SomeToken, SomeUser
  <2>2. shows' = shows /\ Ask(b, [NoRequestOf EXCEPT !.op = "password", !.given = p])
    BY <1>5 DEF ChangePassword
  <2> QED BY <1>1, <2>1, <2>2, AskInv DEF NoRequestOf
<1>6. ASSUME NEW u \in Users, NEW e \in Edits, Manage(b, u, e) PROVE AccountsInv'
  <2>1. [NoRequestOf EXCEPT !.op = "manage", !.of = u, !.edit = e] \in RequestStates
    <3> DEFINE n == [NoRequestOf EXCEPT !.op = "manage", !.of = u, !.edit = e]
    <3>1. 0 \in Passwords
      BY AccountsAssumption DEF Passwords
    <3>2. Founded(n)
      BY DEF NoRequestOf, Founded, Underway
    <3>3. n \in [op : {"none", "login", "session", "logout", "password", "manage"},
            pc : Underway \cup {"idle", "done", "refused", "cut"},
            token : SomeToken, by : SomeUser, of : SomeUser, given : Passwords, edit : Edits \cup {"none"}]
      BY <3>1 DEF NoRequestOf, SomeToken, SomeUser
    <3> QED BY <3>2, <3>3 DEF RequestStates
  <2>2. shows' = shows /\ Ask(b, [NoRequestOf EXCEPT !.op = "manage", !.of = u, !.edit = e])
    BY <1>6 DEF Manage
  <2> QED BY <1>1, <2>1, <2>2, AskInv DEF NoRequestOf
<1> QED BY <1>2, <1>3, <1>4, <1>5, <1>6

\* A step of one request that leaves the accounts, the logins and the sockets alone.
LEMMA RequestInv ==
  ASSUME AccountsInv, NEW b \in Pages, NEW n \in RequestStates, request' = [request EXCEPT ![b] = n],
         UNCHANGED <<account, login, link, script, writes, crossed, late>>,
         cookie' \in [Pages -> SomeToken], shows' \in [Pages -> SomeUser], cuts' \in 0..MaxCuts,
         request[b].pc # "revoked",
         n.op = "manage" /\ n.pc = "passed" /\ n.of = n.by => n.edit \notin {"demote", "disable"},
         n.pc = "found" => login[n.token].state # "none"
  PROVE  AccountsInv'
<1>1. AccountsTypeOK'
  BY DEF AccountsInv, AccountsTypeOK
<1>2. NotHimself' /\ FoundLives'
  BY DEF AccountsInv, AccountsTypeOK, NotHimself, FoundLives
<1>3. AdminRemains'
  BY DEF AccountsInv, AdminRemains, Administers
<1>4. RevocationReaches'
  BY DEF AccountsInv, AccountsTypeOK, RevocationReaches
<1> QED BY <1>1, <1>2, <1>3, <1>4 DEF AccountsInv

LEMMA AnswerInv == ASSUME AccountsInv, NEW b \in Pages, Answer(b) PROVE AccountsInv'
<1>1. request[b] \in RequestStates /\ request[b].token \in SomeToken /\ request[b].by \in SomeUser
  BY DEF AccountsInv, AccountsTypeOK, RequestStates
<1>2. cookie' \in [Pages -> SomeToken] /\ shows' \in [Pages -> SomeUser]
  <2>1. NoToken \in SomeToken /\ NoUser \in SomeUser
    BY DEF SomeToken, SomeUser
  <2>2. cookie \in [Pages -> SomeToken] /\ shows \in [Pages -> SomeUser]
    BY DEF AccountsInv, AccountsTypeOK
  <2>3. cookie' = [cookie EXCEPT ![b] = CASE request[b].op = "login" /\ request[b].pc = "done" -> request[b].token
                                         [] request[b].op = "logout" -> NoToken
                                         [] OTHER -> cookie[b]]
    BY DEF Answer
  <2>4. shows' = [shows EXCEPT ![b] = IF request[b].op = "session" THEN request[b].by
                                      ELSE IF request[b].op = "logout" THEN NoUser ELSE shows[b]]
    BY DEF Answer
  <2> QED BY <1>1, <2>1, <2>2, <2>3, <2>4
<1>3. [NoRequestOf EXCEPT !.op = "session", !.pc = "asked", !.token = request[b].token] \in RequestStates
  <2>1. PICK t \in SomeToken : t = request[b].token
    BY <1>1
  <2> DEFINE n == [NoRequestOf EXCEPT !.op = "session", !.pc = "asked", !.token = t]
  <2>2. 0 \in Passwords
    BY AccountsAssumption DEF Passwords
  <2>3. Founded(n)
    BY DEF NoRequestOf, Founded, Underway
  <2>4. n \in [op : {"none", "login", "session", "logout", "password", "manage"},
          pc : Underway \cup {"idle", "done", "refused", "cut"},
          token : SomeToken, by : SomeUser, of : SomeUser, given : Passwords, edit : Edits \cup {"none"}]
    BY <2>2 DEF NoRequestOf, SomeUser, Underway
  <2> QED BY <2>1, <2>3, <2>4 DEF RequestStates
<1>4. PICK n \in RequestStates : request' = [request EXCEPT ![b] = n] /\ n.op # "manage" /\ n.pc # "found"
  BY <1>3, NoRequestState DEF Answer, NoRequestOf
<1>5. request[b].pc # "revoked" /\ UNCHANGED <<account, login, link, script, writes, cuts, crossed, late>>
  BY DEF Answer
<1>6. cuts' \in 0..MaxCuts
  BY <1>5 DEF AccountsInv, AccountsTypeOK
<1> QED BY <1>2, <1>4, <1>5, <1>6, RequestInv

LEMMA FailInv == ASSUME AccountsInv, NEW b \in Pages, Fail(b) PROVE AccountsInv'
<1>1. cookie' \in [Pages -> SomeToken]
  BY DEF Fail, AccountsInv, AccountsTypeOK
<1>2. shows' \in [Pages -> SomeUser]
  <2>1. NoUser \in SomeUser /\ shows \in [Pages -> SomeUser]
    BY DEF SomeUser, AccountsInv, AccountsTypeOK
  <2> QED BY <2>1 DEF Fail
<1>3. cuts' \in 0..MaxCuts
  <2>1. cuts \in 0..MaxCuts /\ MaxCuts \in Nat
    BY AccountsAssumption DEF AccountsInv, AccountsTypeOK
  <2>2. cuts' = cuts \/ (cuts < MaxCuts /\ cuts' = cuts + 1)
    BY DEF Fail
  <2> QED BY <2>1, <2>2
<1>4. request' = [request EXCEPT ![b] = NoRequestOf] /\ request[b].pc # "revoked"
      /\ UNCHANGED <<account, login, link, script, writes, crossed, late>>
      /\ NoRequestOf.op = "none" /\ NoRequestOf.pc # "found"
  BY DEF Fail, NoRequestOf
<1> QED BY <1>1, <1>2, <1>3, <1>4, NoRequestState, RequestInv

\* A step of the API that only goes on with a request, or ends it.
LEMMA ApiInv ==
  ASSUME AccountsInv, NEW b \in Pages, NEW n \in RequestStates, request' = [request EXCEPT ![b] = n],
         UNCHANGED <<account, login, cookie, shows, link, script, writes, cuts, crossed, late>>,
         request[b].pc # "revoked",
         n.op = "manage" /\ n.pc = "passed" /\ n.of = n.by => n.edit \notin {"demote", "disable"},
         n.pc = "found" => login[n.token].state # "none"
  PROVE  AccountsInv'
  BY RequestInv DEF AccountsInv, AccountsTypeOK

LEMMA GuardInv == ASSUME AccountsInv, NEW b \in Pages, Guard(b) PROVE AccountsInv'
<1> DEFINE r == request[b]
           by == Principal(r.token)
           allowed == by # NoUser /\ (r.op = "manage" => MayManage(by, r))
           n == IF allowed THEN [r EXCEPT !.pc = "passed", !.by = by] ELSE Over(r, "refused")
<1>1. r \in RequestStates /\ r.token \in SomeToken
  BY DEF AccountsInv, AccountsTypeOK, RequestStates
<1>2. r.pc = "asked" /\ r.op \in {"password", "manage"} /\ request' = [request EXCEPT ![b] = n]
      /\ UNCHANGED <<account, login, cookie, shows, link, script, writes, cuts, crossed, late>>
  BY DEF Guard
<1>3. by \in SomeUser /\ (by # NoUser => by \in Users)
  BY <1>1, PrincipalUser DEF AccountsInv
<1>4. ASSUME allowed PROVE [r EXCEPT !.pc = "passed", !.by = by] \in RequestStates
  <2> HIDE DEF r, by
  <2>1. by \in Users /\ by \in SomeUser
    BY <1>3, <1>4
  <2> QED BY <1>1, <1>2, <2>1 DEF RequestStates, Founded, Underway
<1>5. n \in RequestStates
  BY <1>1, <1>4, OverState
<1>6. n.op = "manage" /\ n.pc = "passed" /\ n.of = n.by => n.edit \notin {"demote", "disable"}
  <2>1. CASE allowed
    <3>1. n = [r EXCEPT !.pc = "passed", !.by = by] /\ (r.op = "manage" => MayManage(by, r))
      BY <2>1
    <3>2. n.op = r.op /\ n.of = r.of /\ n.by = by /\ n.edit = r.edit
      BY <3>1, <1>1 DEF RequestStates
    <3> QED BY <3>1, <3>2 DEF MayManage
  <2>2. CASE ~allowed
    BY <2>2 DEF Over, NoRequestOf
  <2> QED BY <2>1, <2>2
<1>7. n.pc # "found"
  <2>1. CASE allowed
    BY <2>1, <1>1 DEF RequestStates
  <2>2. CASE ~allowed
    BY <2>2 DEF Over, NoRequestOf
  <2> QED BY <2>1, <2>2
<1> QED BY <1>2, <1>5, <1>6, <1>7, ApiInv

LEMMA GetSessionInv == ASSUME AccountsInv, NEW b \in Pages, GetSession(b) PROVE AccountsInv'
<1> DEFINE by == Principal(request[b].token)
           n == [Over(request[b], "done") EXCEPT !.by = by]
<1>1. request[b] \in RequestStates /\ request[b].token \in SomeToken
  BY DEF AccountsInv, AccountsTypeOK, RequestStates
<1>2. by \in SomeUser
  BY <1>1, PrincipalUser DEF AccountsInv
<1>3. Over(request[b], "done") \in RequestStates
  BY <1>1, OverState
<1>4. Over(request[b], "done").pc = "done"
  BY DEF Over, NoRequestOf
<1>5. n \in RequestStates /\ n.pc = "done"
  <2> HIDE DEF by
  <2> QED BY <1>2, <1>3, <1>4 DEF RequestStates, Founded, Underway
<1>6. request' = [request EXCEPT ![b] = n] /\ request[b].pc = "asked"
      /\ UNCHANGED <<account, login, cookie, shows, link, script, writes, cuts, crossed, late>>
  BY DEF GetSession
<1> QED BY <1>5, <1>6, ApiInv

\* The request goes on to its next step, for what it was.
LEMMA OntoState ==
  ASSUME NEW r \in RequestStates, NEW pc \in {"verified", "found", "revoked"},
         pc = "verified" => r.op \in {"login", "password"} /\ r.pc \in Underway
                            /\ (r.op = "password" => r.by \in Users),
         pc \in {"found", "revoked"} => r.op = "logout" /\ r.token \in Tokens
  PROVE  [r EXCEPT !.pc = pc] \in RequestStates
  BY DEF RequestStates, Founded, Underway

LEMMA OverEnd ==
  ASSUME NEW r \in RequestStates, NEW pc \in {"done", "refused", "cut"}
  PROVE  Over(r, pc).pc = pc
  BY DEF Over, NoRequestOf

LEMMA VerifyInv == ASSUME AccountsInv, NEW b \in Pages, Verify(b) PROVE AccountsInv'
<1>1. request[b] \in RequestStates
  BY DEF AccountsInv, AccountsTypeOK
<1>2. /\ \/ request[b].op = "login" /\ request[b].pc = "asked"
         \/ request[b].op = "password" /\ request[b].pc = "passed"
      /\ UNCHANGED <<account, login, cookie, shows, link, script, writes, cuts, crossed, late>>
      /\ Onto(b, "verified") \/ Ends(b, "refused")
  BY DEF Verify
<1>3. [request[b] EXCEPT !.pc = "verified"] \in RequestStates
  <2>1. request[b].op = "password" => request[b].by \in Users
    BY <1>1, <1>2 DEF RequestStates, Founded, Underway
  <2>2. request[b].op \in {"login", "password"} /\ request[b].pc \in Underway
    BY <1>2 DEF Underway
  <2> QED BY <1>1, <2>1, <2>2, OntoState
<1>4. [request[b] EXCEPT !.pc = "verified"].pc = "verified"
  BY <1>1 DEF RequestStates
<1>5. CASE Onto(b, "verified")
  <2>1. request' = [request EXCEPT ![b] = [request[b] EXCEPT !.pc = "verified"]]
    BY <1>5 DEF Onto
  <2> QED BY <1>2, <1>3, <1>4, <2>1, ApiInv
<1>6. CASE Ends(b, "refused")
  <2>1. request' = [request EXCEPT ![b] = Over(request[b], "refused")]
    BY <1>6 DEF Ends
  <2> QED BY <1>1, <1>2, <2>1, OverState, OverEnd, ApiInv
<1> QED BY <1>2, <1>5, <1>6

LEMMA FindSessionInv == ASSUME AccountsInv, NEW b \in Pages, FindSession(b) PROVE AccountsInv'
<1>1. request[b] \in RequestStates
  BY DEF AccountsInv, AccountsTypeOK
<1>2. /\ request[b].op = "logout" /\ request[b].pc = "asked"
      /\ UNCHANGED <<account, login, cookie, shows, link, script, writes, cuts, crossed, late>>
      /\ Ends(b, "done") \/ (/\ request[b].token \in Tokens /\ Onto(b, "found")
                          /\ login[request[b].token].state # "none")
  BY DEF FindSession
<1>3. CASE Ends(b, "done")
  <2>1. request' = [request EXCEPT ![b] = Over(request[b], "done")]
    BY <1>3 DEF Ends
  <2> QED BY <1>1, <1>2, <2>1, OverState, OverEnd, ApiInv
<1>4. CASE /\ request[b].token \in Tokens /\ Onto(b, "found")
           /\ login[request[b].token].state # "none"
  <2>1. request' = [request EXCEPT ![b] = [request[b] EXCEPT !.pc = "found"]]
    BY <1>4 DEF Onto
  <2>2. [request[b] EXCEPT !.pc = "found"] \in RequestStates
    BY <1>1, <1>2, <1>4, OntoState
  <2>3. [request[b] EXCEPT !.pc = "found"].pc = "found"
        /\ [request[b] EXCEPT !.pc = "found"].token = request[b].token
    BY <1>1 DEF RequestStates
  <2> QED BY <1>2, <1>4, <2>1, <2>2, <2>3, ApiInv
<1> QED BY <1>2, <1>3, <1>4

LEMMA CreateSessionInv == ASSUME AccountsInv, NEW b \in Pages, CreateSession(b) PROVE AccountsInv'
<1> DEFINE fresh == {t \in Tokens : login[t] = NoLogin}
           t == CHOOSE x \in fresh : TRUE
           n == [Over(request[b], "done") EXCEPT !.token = t]
           l == [owner |-> request[b].of, state |-> "live"]
<1>1. /\ request[b].op = "login" /\ request[b].pc = "verified" /\ fresh # {}
      /\ login' = [login EXCEPT ![t] = l]
      /\ request' = [request EXCEPT ![b] = n]
      /\ UNCHANGED <<account, cookie, shows, link, script, writes, cuts, crossed, late>>
  BY DEF CreateSession
<1>2. t \in Tokens
  BY <1>1
<1>3. request[b] \in RequestStates /\ l \in LoginStates
  <2>1. request[b] \in RequestStates
    BY DEF AccountsInv, AccountsTypeOK
  <2>2. request[b].of \in Users
    BY <1>1, <2>1 DEF RequestStates, Founded, Underway
  <2> QED BY <2>1, <2>2 DEF LoginStates, SomeUser
<1>4. Over(request[b], "done") \in RequestStates /\ Over(request[b], "done").pc = "done"
  BY <1>3, OverState, OverEnd
<1> HIDE DEF fresh, t
<1>5. n \in RequestStates /\ n.pc = "done"
  BY <1>2, <1>4 DEF RequestStates, Founded, Underway, SomeToken
<1>6. l.state = "live"
  OBVIOUS
<1> HIDE DEF n, l
<1>7. AccountsTypeOK'
  BY <1>1, <1>2, <1>3, <1>5 DEF AccountsInv, AccountsTypeOK
<1>8. NotHimself' /\ FoundLives'
  BY <1>1, <1>2, <1>3, <1>5, <1>6 DEF AccountsInv, AccountsTypeOK, NotHimself, FoundLives, RequestStates, Founded
<1>9. AdminRemains'
  BY <1>1 DEF AccountsInv, AdminRemains, Administers
<1>10. RevocationReaches'
  <2> SUFFICES ASSUME NEW c \in Conns, link'[c].ws = "open", login'[link'[c].token].state = "revoked"
               PROVE  c \in late' \/ \E q \in Pages :
                        request'[q].pc = "revoked" /\ request'[q].token = link'[c].token
    BY DEF RevocationReaches
  <2>1. link' = link /\ late' = late
    BY <1>1
  <2>2. link[c].token \in Tokens /\ login \in [Tokens -> LoginStates]
    BY <2>1 DEF AccountsInv, AccountsTypeOK, SocketStates
  <2>3. login[link[c].token].state = "revoked"
    BY <1>1, <1>2, <1>6, <2>1, <2>2
  <2>4. c \in late \/ \E q \in Pages : request[q].pc = "revoked" /\ request[q].token = link[c].token
    BY <2>1, <2>3 DEF AccountsInv, RevocationReaches
  <2> QED BY <1>1, <2>1, <2>4 DEF AccountsInv, AccountsTypeOK
<1> QED BY <1>7, <1>8, <1>9, <1>10 DEF AccountsInv

\* The accounts are written: the one who writes stays what he is, or somebody else may be meant.
LEMMA WritesAccount ==
  ASSUME AccountsInv, NEW u \in Users, NEW a \in AccountStates, account' = [account EXCEPT ![u] = a],
         NEW b \in Pages, NEW n \in RequestStates, request' = [request EXCEPT ![b] = n], n.pc = "done",
         request[b].pc # "revoked",
         writes' \in 0..MaxWrites, crossed' \in BOOLEAN, AdminRemains',
         UNCHANGED <<login, cookie, shows, link, script, cuts, late>>
  PROVE  AccountsInv'
<1>1. AccountsTypeOK'
  BY DEF AccountsInv, AccountsTypeOK
<1>2. NotHimself' /\ FoundLives'
  BY DEF AccountsInv, AccountsTypeOK, NotHimself, FoundLives
<1>3. RevocationReaches'
  BY DEF AccountsInv, AccountsTypeOK, RevocationReaches
<1> QED BY <1>1, <1>2, <1>3 DEF AccountsInv

LEMMA WritePasswordInv == ASSUME AccountsInv, NEW b \in Pages, WritePassword(b) PROVE AccountsInv'
<1> DEFINE u == request[b].by
           a == [account[u] EXCEPT !.password = writes + 1]
<1>1. /\ request[b].op = "password" /\ request[b].pc = "verified"
      /\ writes < MaxWrites /\ writes' = writes + 1
      /\ account' = [account EXCEPT ![u] = a]
      /\ request' = [request EXCEPT ![b] = Over(request[b], "done")]
      /\ UNCHANGED <<login, cookie, shows, link, script, cuts, crossed, late>>
  BY DEF WritePassword, Ends
<1>2. request[b] \in RequestStates /\ u \in Users /\ account \in [Users -> AccountStates] /\ crossed \in BOOLEAN
  BY <1>1 DEF AccountsInv, AccountsTypeOK, RequestStates, Founded, Underway
<1>3. writes' \in 0..MaxWrites /\ writes + 1 \in Passwords
  BY <1>1, AccountsAssumption DEF AccountsInv, AccountsTypeOK, Passwords
<1>4. /\ a \in AccountStates /\ a.known = account[u].known
      /\ a.admin = account[u].admin /\ a.active = account[u].active
  BY <1>2, <1>3 DEF AccountStates
<1> HIDE DEF u, a
<1>5. \A v \in Users : Administers(v)' = Administers(v)
  BY <1>1, <1>2, <1>4 DEF Administers
<1>6. AdminRemains'
  BY <1>1, <1>5 DEF AccountsInv, AdminRemains
<1> QED BY <1>1, <1>2, <1>3, <1>4, <1>6, OverState, OverEnd, WritesAccount

LEMMA WriteAccountInv == ASSUME AccountsInv, NEW b \in Pages, WriteAccount(b) PROVE AccountsInv'
<1> DEFINE r == request[b]
           a == Edited(account[r.of], r.edit, writes + 1)
<1>1. r \in RequestStates /\ r.op = "manage" /\ r.pc = "passed"
      /\ UNCHANGED <<login, cookie, shows, link, script, cuts, late>>
  BY DEF WriteAccount, AccountsInv, AccountsTypeOK
<1>2. r.of \in Users /\ r.by \in Users /\ r.edit \in Edits
  BY <1>1 DEF RequestStates, Founded, Underway
<1>3. account \in [Users -> AccountStates]
  BY DEF AccountsInv, AccountsTypeOK
<1>4. Over(r, "done") \in RequestStates /\ Over(r, "done").pc = "done"
      /\ Over(r, "refused") \in RequestStates /\ Over(r, "refused").pc = "refused"
  BY <1>1, OverState, OverEnd
<1>5. CASE r.edit = "create" /\ account[r.of].known
  <2>1. request' = [request EXCEPT ![b] = Over(r, "refused")] /\ UNCHANGED <<account, writes, crossed>>
    BY <1>5 DEF WriteAccount, Ends
  <2> QED BY <1>1, <1>4, <2>1, ApiInv
<1>6. CASE ~(r.edit = "create" /\ account[r.of].known)
  <2>1. /\ request' = [request EXCEPT ![b] = Over(r, "done")]
        /\ writes < MaxWrites /\ writes' = writes + 1
        /\ account' = [account EXCEPT ![r.of] = a]
        /\ crossed' = (crossed \/ ~Administers(r.by))
    BY <1>6 DEF WriteAccount, Ends
  <2>2. writes' \in 0..MaxWrites /\ writes + 1 \in Passwords
    BY <2>1, AccountsAssumption DEF AccountsInv, AccountsTypeOK, Passwords
  <2>3. a \in AccountStates
    BY <1>2, <1>3, <2>2, EditedState
  <2>4. crossed' \in BOOLEAN
    BY <2>1 DEF AccountsInv, AccountsTypeOK
  <2>5. AdminRemains'
    <3>1. CASE crossed'
      BY <3>1 DEF AdminRemains
    <3>2. CASE ~crossed'
      <4>1. Administers(r.by)
        BY <2>1, <3>2
      <4>2. CASE r.of # r.by
        BY <1>2, <1>3, <2>1, <4>1, <4>2 DEF Administers, AdminRemains
      <4>3. CASE r.of = r.by
        <5>1. r.edit \notin {"demote", "disable"}
          BY <1>1, <4>3 DEF AccountsInv, NotHimself
        <5>2. r.edit \in {"promote", "enable", "reset"}
          BY <1>2, <1>6, <4>1, <4>3, <5>1 DEF Administers, Edits
        <5>3. account[r.of] \in AccountStates /\ account[r.of].known /\ account[r.of].admin /\ account[r.of].active
          BY <1>2, <1>3, <4>1, <4>3 DEF Administers
        <5>4. a.known /\ a.admin /\ a.active
          <6>1. CASE r.edit = "promote"
            BY <5>3, <6>1 DEF Edited, AccountStates
          <6>2. CASE r.edit = "enable"
            BY <5>3, <6>2 DEF Edited, AccountStates
          <6>3. CASE r.edit = "reset"
            BY <5>3, <6>3 DEF Edited, AccountStates
          <6> QED BY <5>2, <6>1, <6>2, <6>3
        <5> HIDE DEF a
        <5>5. PICK u \in Users : u = r.by
          BY <1>2
        <5>6. Administers(u)'
          BY <1>2, <1>3, <2>1, <4>3, <5>4, <5>5 DEF Administers
        <5> QED BY <5>6 DEF AdminRemains
      <4> QED BY <4>2, <4>3
    <3> QED BY <3>1, <3>2
  <2> HIDE DEF a
  <2> QED BY <1>1, <1>2, <1>4, <2>1, <2>2, <2>3, <2>4, <2>5, WritesAccount
<1> QED BY <1>5, <1>6

LEMMA RevokeInv == ASSUME AccountsInv, NEW b \in Pages, Revoke(b) PROVE AccountsInv'
<1> DEFINE n == [request[b] EXCEPT !.pc = "revoked"]
<1>1. /\ request[b].op = "logout" /\ request[b].pc = "found"
      /\ login' = [login EXCEPT ![request[b].token].state = "revoked"]
      /\ request' = [request EXCEPT ![b] = n]
      /\ UNCHANGED <<account, cookie, shows, link, script, writes, cuts, crossed, late>>
  BY DEF Revoke, Onto
<1>2. request[b] \in RequestStates /\ request[b].token \in Tokens
  BY <1>1 DEF AccountsInv, AccountsTypeOK, RequestStates, Founded
<1>3. n \in RequestStates
  BY <1>1, <1>2, OntoState
<1>4. n.pc = "revoked" /\ n.token = request[b].token
  BY <1>2 DEF RequestStates
<1>5. login' \in [Tokens -> LoginStates]
  <2>1. login[request[b].token].owner \in Users
    BY <1>1, <1>2 DEF AccountsInv, AccountsTypeOK, FoundLives, LoginStates
  <2> QED BY <1>1, <1>2, <2>1 DEF AccountsInv, AccountsTypeOK, LoginStates
<1> HIDE DEF n
<1>6. AccountsTypeOK'
  BY <1>1, <1>3, <1>5 DEF AccountsInv, AccountsTypeOK
<1>7. NotHimself' /\ FoundLives'
  BY <1>1, <1>2, <1>3, <1>4 DEF AccountsInv, AccountsTypeOK, NotHimself, FoundLives,
     RequestStates, Founded, LoginStates
<1>8. AdminRemains'
  BY <1>1 DEF AccountsInv, AdminRemains, Administers
<1>9. RevocationReaches'
  BY <1>1, <1>2, <1>4 DEF AccountsInv, AccountsTypeOK, RevocationReaches
<1> QED BY <1>6, <1>7, <1>8, <1>9 DEF AccountsInv

LEMMA NotifyInv == ASSUME AccountsInv, NEW b \in Pages, Notify(b) PROVE AccountsInv'
<1>1. /\ request[b].op = "logout" /\ request[b].pc = "revoked"
      /\ link' = [c \in Conns |-> IF link[c].ws = "open" /\ link[c].token = request[b].token
                                  THEN NoConn ELSE link[c]]
      /\ request' = [request EXCEPT ![b] = Over(request[b], "done")]
      /\ UNCHANGED <<account, login, cookie, shows, script, writes, cuts, crossed, late>>
  BY DEF Notify, Ends
<1>2. Over(request[b], "done") \in RequestStates /\ Over(request[b], "done").pc = "done"
  BY OverState, OverEnd DEF AccountsInv, AccountsTypeOK
<1>3. link' \in [Conns -> SocketStates]
  BY <1>1, NoSocketState DEF AccountsInv, AccountsTypeOK
<1>4. AccountsTypeOK'
  BY <1>1, <1>2, <1>3 DEF AccountsInv, AccountsTypeOK
<1>5. NotHimself' /\ FoundLives'
  BY <1>1, <1>2 DEF AccountsInv, AccountsTypeOK, NotHimself, FoundLives
<1>6. AdminRemains'
  BY <1>1 DEF AccountsInv, AdminRemains, Administers
<1>7. RevocationReaches'
  <2> SUFFICES ASSUME NEW c \in Conns, link'[c].ws = "open", login'[link'[c].token].state = "revoked"
               PROVE  c \in late' \/ \E q \in Pages :
                        request'[q].pc = "revoked" /\ request'[q].token = link'[c].token
    BY DEF RevocationReaches
  <2>1. link'[c] = link[c] /\ link[c].token # request[b].token
    BY <1>1 DEF NoConn
  <2>2. c \in late \/ \E q \in Pages : request[q].pc = "revoked" /\ request[q].token = link[c].token
    BY <1>1, <2>1 DEF AccountsInv, RevocationReaches
  <2> QED BY <1>1, <2>1, <2>2 DEF AccountsInv, AccountsTypeOK
<1> QED BY <1>4, <1>5, <1>6, <1>7 DEF AccountsInv

LEMMA LoginExpiresInv == ASSUME AccountsInv, NEW t \in Tokens, LoginExpires(t) PROVE AccountsInv'
<1>1. /\ login[t].state = "live" /\ login' = [login EXCEPT ![t].state = "expired"]
      /\ UNCHANGED <<account, cookie, shows, request, link, script, writes, cuts, crossed, late>>
  BY DEF LoginExpires
<1>2. login \in [Tokens -> LoginStates] /\ login[t].owner \in Users
  BY <1>1 DEF AccountsInv, AccountsTypeOK, LoginStates
<1>3. AccountsTypeOK'
  BY <1>1, <1>2 DEF AccountsInv, AccountsTypeOK, LoginStates
<1>4. \A q \in Tokens : /\ login'[q].state = "revoked" => login[q].state = "revoked"
                        /\ login[q].state # "none" => login'[q].state # "none"
  BY <1>1, <1>2 DEF LoginStates
<1>5. NotHimself' /\ FoundLives'
  BY <1>1, <1>4 DEF AccountsInv, AccountsTypeOK, NotHimself, FoundLives, RequestStates, Founded
<1>6. AdminRemains'
  BY <1>1 DEF AccountsInv, AdminRemains, Administers
<1>7. RevocationReaches'
  BY <1>1, <1>4 DEF AccountsInv, AccountsTypeOK, RevocationReaches, SocketStates
<1> QED BY <1>3, <1>5, <1>6, <1>7 DEF AccountsInv

LEMMA RestartApiInv == ASSUME AccountsInv, RestartApi PROVE AccountsInv'
<1>1. /\ cuts < MaxCuts /\ cuts' = cuts + 1
      /\ request' = [b \in Pages |->
           IF request[b].op = "none" THEN NoRequestOf ELSE Over(request[b], "cut")]
      /\ link' = [c \in Conns |-> NoConn]
      /\ UNCHANGED <<account, login, cookie, shows, script, writes, crossed, late>>
  BY DEF RestartApi
<1>2. \A b \in Pages : request'[b] \in RequestStates /\ request'[b].pc \in {"idle", "cut"}
  BY <1>1, NoRequestState, OverState, OverEnd DEF AccountsInv, AccountsTypeOK, NoRequestOf
<1>3. cuts' \in 0..MaxCuts
  BY <1>1, AccountsAssumption DEF AccountsInv, AccountsTypeOK
<1>4. AccountsTypeOK'
  BY <1>1, <1>2, <1>3, NoSocketState DEF AccountsInv, AccountsTypeOK
<1>5. NotHimself' /\ FoundLives' /\ RevocationReaches'
  BY <1>1, <1>2 DEF NotHimself, FoundLives, RevocationReaches, NoConn
<1>6. AdminRemains'
  BY <1>1 DEF AccountsInv, AdminRemains, Administers
<1> QED BY <1>4, <1>5, <1>6 DEF AccountsInv

\* The sockets.
LEMMA SocketInv ==
  ASSUME AccountsInv, NEW c \in Conns, NEW s \in SocketStates, link' = [link EXCEPT ![c] = s],
         UNCHANGED <<account, login, cookie, shows, request, script, writes, cuts, crossed>>,
         late' \subseteq Conns, late \ {c} \subseteq late',
         s.ws = "open" /\ login[s.token].state = "revoked" =>
           c \in late' \/ (/\ link[c].ws = "open" /\ link[c].token = s.token
                           /\ (c \in late => c \in late'))
  PROVE  AccountsInv'
<1>1. AccountsTypeOK'
  BY DEF AccountsInv, AccountsTypeOK
<1>2. NotHimself' /\ FoundLives'
  BY DEF AccountsInv, AccountsTypeOK, NotHimself, FoundLives
<1>3. AdminRemains'
  BY DEF AccountsInv, AdminRemains, Administers
<1>4. RevocationReaches'
  BY DEF AccountsInv, AccountsTypeOK, RevocationReaches
<1> QED BY <1>1, <1>2, <1>3, <1>4 DEF AccountsInv

LEMMA SocketsInv ==
  ASSUME AccountsInv, NEW c \in Conns,
         \/ \E b \in Pages : OpenSocket(b, c)
         \/ Admit(c) \/ Watch(c) \/ HeartbeatReads(c) \/ HeartbeatAnswered(c) \/ SocketCloses(c)
  PROVE  AccountsInv'
<1>1. link[c] \in SocketStates /\ link \in [Conns -> SocketStates] /\ late \subseteq Conns
  BY DEF AccountsInv, AccountsTypeOK
<1>2. NoConn.ws = "none" /\ NoConn \in SocketStates
  BY NoSocketState DEF NoConn
<1>3. ASSUME NEW b \in Pages, OpenSocket(b, c) PROVE AccountsInv'
  <2> DEFINE s == [NoConn EXCEPT !.ws = "asking", !.token = cookie[b]]
  <2>1. link' = [link EXCEPT ![c] = s] /\ late' = late \ {c}
        /\ UNCHANGED <<account, login, cookie, shows, request, script, writes, cuts, crossed>>
    BY <1>3 DEF OpenSocket
  <2>2. s \in SocketStates /\ s.ws = "asking"
    <3>1. PICK t \in SomeToken : t = cookie[b]
      BY DEF AccountsInv, AccountsTypeOK
    <3>2. [NoConn EXCEPT !.ws = "asking", !.token = t] \in SocketStates
      BY DEF NoConn, SocketStates, SomeUser
    <3> QED BY <3>1, <3>2 DEF NoConn
  <2> HIDE DEF s
  <2> QED BY <1>1, <2>1, <2>2, SocketInv
<1>4. ASSUME Admit(c) PROVE AccountsInv'
  <2> DEFINE by == Principal(link[c].token)
             s == IF by = NoUser THEN NoConn ELSE [link[c] EXCEPT !.ws = "admitted", !.by = by]
  <2>1. link' = [link EXCEPT ![c] = s] /\ late' = late
        /\ UNCHANGED <<account, login, cookie, shows, request, script, writes, cuts, crossed>>
    BY <1>4 DEF Admit
  <2>2. link[c].token \in SomeToken
    BY <1>1 DEF SocketStates
  <2>3. by # NoUser => by \in Users /\ by \in SomeUser /\ link[c].token \in Tokens
    BY <2>2, PrincipalUser DEF AccountsInv
  <2> HIDE DEF by
  <2>4. s \in SocketStates /\ s.ws # "open"
    BY <1>1, <1>2, <2>3 DEF SocketStates
  <2> HIDE DEF s
  <2> QED BY <1>1, <2>1, <2>4, SocketInv
<1>5. ASSUME Watch(c) PROVE AccountsInv'
  <2> DEFINE s == [link[c] EXCEPT !.ws = "open"]
  <2>1. /\ link[c].ws = "admitted" /\ link' = [link EXCEPT ![c] = s]
        /\ late' = IF login[link[c].token].state = "revoked" THEN late \cup {c} ELSE late
        /\ UNCHANGED <<account, login, cookie, shows, request, script, writes, cuts, crossed>>
    BY <1>5 DEF Watch
  <2>2. s \in SocketStates /\ s.token = link[c].token
    BY <1>1, <2>1 DEF SocketStates
  <2> HIDE DEF s
  <2> QED BY <1>1, <2>1, <2>2, SocketInv
<1>6. ASSUME HeartbeatReads(c) PROVE AccountsInv'
  <2> DEFINE k == IF Principal(link[c].token) = link[c].by THEN "good" ELSE "bad"
             s == [link[c] EXCEPT !.check = k]
  <2>1. /\ link[c].ws = "open" /\ link' = [link EXCEPT ![c] = s] /\ late' = late
        /\ UNCHANGED <<account, login, cookie, shows, request, script, writes, cuts, crossed>>
    BY <1>6 DEF HeartbeatReads
  <2>2. k \in {"none", "good", "bad"}
    OBVIOUS
  <2> HIDE DEF k
  <2>3. s \in SocketStates /\ s.token = link[c].token
    BY <1>1, <2>2 DEF SocketStates
  <2> HIDE DEF s
  <2> QED BY <1>1, <2>1, <2>3, SocketInv
<1>7. ASSUME HeartbeatAnswered(c) PROVE AccountsInv'
  <2> DEFINE s == IF link[c].check = "bad" THEN NoConn ELSE [link[c] EXCEPT !.check = "none"]
  <2>1. /\ link[c].ws = "open" /\ link' = [link EXCEPT ![c] = s] /\ late' = late
        /\ UNCHANGED <<account, login, cookie, shows, request, script, writes, cuts, crossed>>
    BY <1>7 DEF HeartbeatAnswered
  <2>2. s \in SocketStates /\ (s.ws = "open" => s.token = link[c].token)
    BY <1>1, <1>2 DEF SocketStates
  <2> HIDE DEF s
  <2> QED BY <1>1, <2>1, <2>2, SocketInv
<1>8. ASSUME SocketCloses(c) PROVE AccountsInv'
  <2>1. link' = [link EXCEPT ![c] = NoConn] /\ late' = late
        /\ UNCHANGED <<account, login, cookie, shows, request, script, writes, cuts, crossed>>
    BY <1>8 DEF SocketCloses
  <2> QED BY <1>1, <1>2, <2>1, SocketInv
<1> QED BY <1>3, <1>4, <1>5, <1>6, <1>7, <1>8

\* The script.
LEMMA ScriptInv ==
  ASSUME AccountsInv, ScriptLooks \/ \E u \in Users, p \in Passwords : ScriptWrites(u, p)
  PROVE  AccountsInv'
<1>1. ASSUME ScriptLooks PROVE AccountsInv'
  <2>1. script' = TRUE /\ UNCHANGED <<account, login, cookie, shows, request, link, writes, cuts, crossed, late>>
    BY <1>1 DEF ScriptLooks
  <2> QED BY <2>1 DEF AccountsInv, AccountsTypeOK, NotHimself, FoundLives, AdminRemains, Administers,
         RevocationReaches
<1>2. ASSUME NEW u \in Users, NEW p \in Passwords, ScriptWrites(u, p) PROVE AccountsInv'
  <2> DEFINE a == [known |-> TRUE, admin |-> TRUE, active |-> TRUE, password |-> p]
  <2>1. /\ script' = FALSE /\ account' = [account EXCEPT ![u] = a]
        /\ UNCHANGED <<login, cookie, shows, request, link, writes, cuts, crossed, late>>
    BY <1>2 DEF ScriptWrites
  <2>2. a \in AccountStates /\ a.known /\ a.admin /\ a.active
    BY DEF AccountStates
  <2> HIDE DEF a
  <2>3. AccountsTypeOK'
    BY <2>1, <2>2 DEF AccountsInv, AccountsTypeOK
  <2>4. Administers(u)'
    BY <2>1, <2>2 DEF AccountsInv, AccountsTypeOK, Administers
  <2>5. AdminRemains'
    BY <2>4 DEF AdminRemains
  <2>6. NotHimself' /\ FoundLives' /\ RevocationReaches'
    BY <2>1 DEF AccountsInv, NotHimself, FoundLives, RevocationReaches
  <2> QED BY <2>3, <2>5, <2>6 DEF AccountsInv
<1> QED BY <1>1, <1>2

LEMMA AccountsStutter == ASSUME AccountsInv, UNCHANGED accountsVars PROVE AccountsInv'
  BY DEF AccountsInv, accountsVars, AccountsTypeOK, NotHimself, FoundLives, AdminRemains, Administers,
     RevocationReaches

\* The inductive invariant of the accounts, for any number of users, logins, pages and sockets.
THEOREM AccountsInvariant == AccountsSpec => []AccountsInv
<1>1. ASSUME AccountsInv, [AccountsNext]_accountsVars PROVE AccountsInv'
  <2>1. ASSUME NEW b \in Pages,
               \/ \E u \in Users, p \in Passwords : SignIn(b, u, p)
               \/ LoadPage(b) \/ SignOut(b)
               \/ \E p \in Passwords : ChangePassword(b, p)
               \/ \E u \in Users, e \in Edits : Manage(b, u, e)
        PROVE  AccountsInv'
    BY <1>1, <2>1, PageInv
  <2>2. ASSUME NEW b \in Pages,
               \/ Answer(b) \/ Fail(b) \/ Guard(b) \/ GetSession(b) \/ Verify(b)
               \/ WritePassword(b) \/ WriteAccount(b) \/ CreateSession(b)
               \/ FindSession(b) \/ Revoke(b) \/ Notify(b)
        PROVE  AccountsInv'
    BY <1>1, <2>2, AnswerInv, FailInv, GuardInv, GetSessionInv, VerifyInv, WritePasswordInv,
       WriteAccountInv, CreateSessionInv, FindSessionInv, RevokeInv, NotifyInv
  <2>3. ASSUME NEW c \in Conns,
               \/ \E b \in Pages : OpenSocket(b, c)
               \/ Admit(c) \/ Watch(c) \/ HeartbeatReads(c) \/ HeartbeatAnswered(c) \/ SocketCloses(c)
        PROVE  AccountsInv'
    BY <1>1, <2>3, SocketsInv
  <2>4. ASSUME NEW t \in Tokens, LoginExpires(t) PROVE AccountsInv'
    BY <1>1, <2>4, LoginExpiresInv
  <2>5. ASSUME RestartApi PROVE AccountsInv'
    BY <1>1, <2>5, RestartApiInv
  <2>6. ASSUME ScriptLooks \/ \E u \in Users, p \in Passwords : ScriptWrites(u, p) PROVE AccountsInv'
    BY <1>1, <2>6, ScriptInv
  <2>7. CASE UNCHANGED accountsVars
    BY <1>1, <2>7, AccountsStutter
  <2> QED BY <1>1, <2>1, <2>2, <2>3, <2>4, <2>5, <2>6, <2>7 DEF AccountsNext
<1> QED BY <1>1, AccountsInitInv, PTL DEF AccountsSpec

\* As long as no change is made for one who has lost the role meanwhile, an active administrator is left,
\* however the requests of several administrators interleave (updateUserForAdmin, AuthGuard).
THEOREM AdministratorStays == AccountsSpec => []AdminRemains
  BY AccountsInvariant, PTL DEF AccountsInv

\* A logout closes every socket of its login that was not set up behind its back, on a login read before
\* (revokeSessionToken, onSessionRevoked).
THEOREM LogoutReaches == AccountsSpec => []RevocationReaches
  BY AccountsInvariant, PTL DEF AccountsInv

\* Both.
THEOREM AccountsAreSafe == AccountsSpec => []AccountsSafe
<1>1. AdminRemains /\ RevocationReaches => AccountsSafe
  BY DEF AccountsSafe
<1> QED BY <1>1, AdministratorStays, LogoutReaches, PTL

\* Every step of a request uses what the steps before it have found.
THEOREM AccountsTypes == AccountsSpec => []AccountsTypeOK
  BY AccountsInvariant, PTL DEF AccountsInv

-----------------------------------------------------------------------------
\* The browsers that show a terminal (TerminalViews).  A view shows the terminal as it is once it
\* has received all it was sent; so the invariant says of what is on its way to each view that it
\* ends with what the terminal is: its last number, its last word on control, its last word on the
\* end.  It also needs that no two views share a socket, that one on which a browser said goodbye is
\* left, and that a terminal that does not run is controlled by nobody.

\* The messages that number the output, those that say who has control, and those that say whether
\* the terminal has ended.
Numbers == {"snapshot", "output", "resized"}
ControlNews == {"ready", "controlChanged", "closing", "exit"}
EndNews == {"ready", "closing", "exit"}

\* What is on its way says nothing of a kind, or says it last at j.
Silent(d, T) == \A i \in 1..Len(d) : d[i].type \notin T
SaysLast(d, T, j) == j \in 1..Len(d) /\ d[j].type \in T /\ \A i \in (j + 1)..Len(d) : d[i].type \notin T

SaysControl(m, s) == m.type \in {"ready", "controlChanged"} /\ m.writer = s
SaysEnd(m) == m.type \in {"closing", "exit"} \/ (m.type = "ready" /\ m.state = "exited")

\* What a view shows once it has received what is on its way.
WillCount(v, d, n) == (Silent(d, Numbers) /\ v.sequence = n) \/ \E j : SaysLast(d, Numbers, j) /\ d[j].seq = n
WillControl(v, d, s, w) ==
  \/ Silent(d, ControlNews) /\ (v.writer <=> w = s)
  \/ \E j : SaysLast(d, ControlNews, j) /\ (SaysControl(d[j], s) <=> w = s)
WillEnd(v, d) == (Silent(d, EndNews) /\ v.ended) \/ \E j : SaysLast(d, EndNews, j) /\ SaysEnd(d[j])

\* No piece of output is missing on the way, and no end is told while the shell runs.
Calm(v, d, h) == Continues(v, d) /\ \A i \in 1..Len(d) : SaysEnd(d[i]) => h.state # "running"

\* The view will show the terminal as it is.
WillShow(v, d, h, s) ==
  WillCount(v, d, h.seq) /\ WillControl(v, d, s, h.writer) /\ (h.state = "exited" => WillEnd(v, d))

Good(v, k, h, s) == Calm(v, k.down, h) /\ (k.ws = "open" /\ k.peer = "live" => WillShow(v, k.down, h, s))

\* Each view is on a socket of its own, which it has not left.
OnSockets ==
  /\ \A b \in Browsers : view[b].stage = "on"
       => view[b].on \in Sockets /\ socket[view[b].on].ws \in {"open", "closing"}
  /\ \A a, b \in Browsers : view[a].stage = "on" /\ view[b].stage = "on" /\ a # b => view[a].on # view[b].on
  /\ \A b \in Browsers : view[b].drawing \/ view[b].ready => view[b].stage = "on"
Goods == \A b \in Browsers : view[b].stage = "on" => Good(view[b], socket[view[b].on], host, view[b].on)
NotEarly == \A b \in Browsers : view[b].ended => host.state # "running"
Controlled == host.state # "running" => host.writer = NoSocket
NoPeers == host.state = "gone" => \A s \in Sockets : socket[s].peer = "none"
SaysBye == \A s \in Sockets : \A i \in 1..Len(socket[s].up) : socket[s].up[i].type = "close"
  => socket[s].ws = "left"

Writers == Sockets \cup {NoSocket}
Downs ==
  [type : {"close", "closing", "exit"}] \cup [type : Numbers, seq : Nat]
    \cup [type : {"controlChanged"}, writer : Writers]
  \cup [type : {"ready"}, state : {"running", "closing", "exited", "gone"}, writer : Writers]
Ups == [type : {"attach", "input", "resize", "takeControl", "close"}]
Tasks == {OutputTask} \cup [op : {"snapshot", "resize"}, of : Sockets]
Hosts == [state : {"running", "closing", "exited", "gone"}, seq : Nat, writer : Writers, tail : Seq(Tasks)]
Connections ==
  [ws : {"free", "open", "closing", "left"}, peer : {"none", "queued", "live"}, down : Seq(Downs), up : Seq(Ups)]
Views ==
  [stage : {"asking", "on", "off", "gone"}, on : Writers, ready : BOOLEAN, writer : BOOLEAN, readOnly : BOOLEAN,
   ended : BOOLEAN, sequence : Nat, drawing : BOOLEAN]
ViewTypes == host \in Hosts /\ socket \in [Sockets -> Connections] /\ view \in [Browsers -> Views]

ViewsInv == ViewTypes /\ OnSockets /\ Goods /\ NotEarly /\ Controlled /\ NoPeers /\ SaysBye

-----------------------------------------------------------------------------
(* Sequences of messages *)

LEMMA AppendIs ==
  ASSUME NEW S, NEW d \in Seq(S), NEW m \in S
  PROVE  /\ Append(d, m) \in Seq(S) /\ Len(d) \in Nat /\ Len(Append(d, m)) = Len(d) + 1
         /\ \A i \in 1..Len(d) : Append(d, m)[i] = d[i]
         /\ Append(d, m)[Len(d) + 1] = m
OBVIOUS

LEMMA TailIs ==
  ASSUME NEW S, NEW d \in Seq(S), d # <<>>
  PROVE  /\ Tail(d) \in Seq(S) /\ Head(d) = d[1] /\ Len(d) \in Nat \ {0} /\ Len(Tail(d)) = Len(d) - 1
         /\ \A i \in 1..(Len(d) - 1) : Tail(d)[i] = d[i + 1]
OBVIOUS

LEMMA SilentMore ==
  ASSUME NEW S, NEW d \in Seq(S), NEW m \in S, NEW T, m.type \notin T
  PROVE  /\ Silent(d, T) => Silent(Append(d, m), T)
         /\ \A j : SaysLast(d, T, j) => SaysLast(Append(d, m), T, j) /\ Append(d, m)[j] = d[j]
<1>1. PICK n, e : n = Len(d) /\ e = Append(d, m)
  OBVIOUS
<1>2. /\ n \in Nat /\ Len(e) = n + 1 /\ e[n + 1] = m
      /\ \A i \in 1..n : e[i] = d[i]
  BY <1>1, AppendIs
<1>3. \A i \in 1..(n + 1) : i \in 1..n \/ i = n + 1
  BY <1>2
<1>4. Silent(d, T) => Silent(e, T)
  BY <1>1, <1>2, <1>3 DEF Silent
<1>5. ASSUME NEW j, SaysLast(d, T, j) PROVE SaysLast(e, T, j) /\ e[j] = d[j]
  <2>1. j \in 1..n /\ d[j].type \in T /\ \A i \in (j + 1)..n : d[i].type \notin T
    BY <1>1, <1>5 DEF SaysLast
  <2>2. j \in 1..(n + 1) /\ e[j] = d[j]
    BY <1>2, <2>1
  <2>3. ASSUME NEW i \in (j + 1)..(n + 1) PROVE e[i].type \notin T
    <3>1. i = n + 1 \/ (i \in 1..n /\ i \in (j + 1)..n)
      BY <1>2, <2>1
    <3> QED BY <1>2, <2>1, <3>1
  <2> QED BY <1>2, <2>1, <2>2, <2>3 DEF SaysLast
<1> QED BY <1>1, <1>4, <1>5

LEMMA LastMore ==
  ASSUME NEW S, NEW d \in Seq(S), NEW m \in S, NEW T, m.type \in T
  PROVE  SaysLast(Append(d, m), T, Len(d) + 1) /\ Append(d, m)[Len(d) + 1] = m
<1>1. PICK n, e : n = Len(d) /\ e = Append(d, m)
  OBVIOUS
<1>2. n \in Nat /\ Len(e) = n + 1 /\ e[n + 1] = m
  BY <1>1, AppendIs
<1>3. n + 1 \in 1..(n + 1) /\ \A i \in (n + 2)..(n + 1) : FALSE
  BY <1>2
<1>4. SaysLast(e, T, n + 1)
  BY <1>2, <1>3 DEF SaysLast
<1> QED BY <1>1, <1>2, <1>4

LEMMA SilentRest ==
  ASSUME NEW S, NEW d \in Seq(S), d # <<>>, NEW T
  PROVE  /\ Silent(d, T) => Silent(Tail(d), T) /\ Head(d).type \notin T
         /\ SaysLast(d, T, 1) => Silent(Tail(d), T) /\ d[1] = Head(d)
<1>1. PICK n, e : n = Len(d) /\ e = Tail(d)
  OBVIOUS
<1>2. /\ n \in Nat \ {0} /\ Len(e) = n - 1 /\ Head(d) = d[1]
      /\ \A i \in 1..(n - 1) : e[i] = d[i + 1]
  BY <1>1, TailIs
<1>3. \A i \in 1..(n - 1) : i + 1 \in 1..n /\ i + 1 \in 2..n
  BY <1>2
<1>4. Silent(d, T) => Silent(e, T) /\ Head(d).type \notin T
  <2>1. 1 \in 1..n
    BY <1>2
  <2> QED BY <1>1, <1>2, <1>3, <2>1 DEF Silent
<1>5. SaysLast(d, T, 1) => Silent(e, T)
  BY <1>1, <1>2, <1>3 DEF SaysLast, Silent
<1> QED BY <1>1, <1>2, <1>4, <1>5

-----------------------------------------------------------------------------
(* What is on its way to a view *)

LEMMA ContinuesOn ==
  ASSUME NEW S, NEW d \in Seq(S), NEW m \in S, NEW v, Continues(v, d), m.type \notin {"output", "resized"}
  PROVE  Continues(v, Append(d, m))
<1>1. PICK n, e : n = Len(d) /\ e = Append(d, m)
  OBVIOUS
<1>2. /\ n \in Nat /\ Len(e) = n + 1 /\ e[n + 1] = m
      /\ \A i \in 1..n : e[i] = d[i]
  BY <1>1, AppendIs
<1>3. ASSUME NEW k \in 1..(n + 1), e[k].type \in {"output", "resized"}
      PROVE  \/ (\A i \in 1..(k - 1) : ~IsNumbered(e[i])) /\ e[k].seq = v.sequence + 1
             \/ \E j \in 1..(k - 1) : /\ IsNumbered(e[j]) /\ \A i \in (j + 1)..(k - 1) : ~IsNumbered(e[i])
                                      /\ e[k].seq = e[j].seq + 1
  <2>1. k \in 1..n /\ e[k] = d[k]
    BY <1>2, <1>3
  <2>2. \A i \in 1..(k - 1) : e[i] = d[i]
    BY <1>2, <2>1
  <2>3. \/ (\A i \in 1..(k - 1) : ~IsNumbered(d[i])) /\ d[k].seq = v.sequence + 1
        \/ \E j \in 1..(k - 1) : /\ IsNumbered(d[j]) /\ \A i \in (j + 1)..(k - 1) : ~IsNumbered(d[i])
                                 /\ d[k].seq = d[j].seq + 1
    BY <1>1, <1>3, <2>1 DEF Continues
  <2>4. CASE (\A i \in 1..(k - 1) : ~IsNumbered(d[i])) /\ d[k].seq = v.sequence + 1
    BY <2>1, <2>2, <2>4
  <2>5. CASE \E j \in 1..(k - 1) : /\ IsNumbered(d[j]) /\ \A i \in (j + 1)..(k - 1) : ~IsNumbered(d[i])
                                   /\ d[k].seq = d[j].seq + 1
    <3>1. PICK j \in 1..(k - 1) : /\ IsNumbered(d[j]) /\ \A i \in (j + 1)..(k - 1) : ~IsNumbered(d[i])
                                  /\ d[k].seq = d[j].seq + 1
      BY <2>5
    <3>2. \A i \in (j + 1)..(k - 1) : i \in 1..(k - 1)
      BY <2>1, <3>1
    <3> QED BY <2>1, <2>2, <3>1, <3>2
  <2> QED BY <2>3, <2>4, <2>5
<1> QED BY <1>1, <1>2, <1>3 DEF Continues

\* The next piece of output, to a view that will have all of it.
LEMMA ContinuesNext ==
  ASSUME NEW S, NEW d \in Seq(S), NEW m \in S, NEW v, Continues(v, d), NEW n, WillCount(v, d, n),
         m.type \in {"output", "resized"}, m.seq = n + 1
  PROVE  Continues(v, Append(d, m))
<1>1. PICK l, e : l = Len(d) /\ e = Append(d, m)
  OBVIOUS
<1>2. /\ l \in Nat /\ Len(e) = l + 1 /\ e[l + 1] = m
      /\ \A i \in 1..l : e[i] = d[i]
  BY <1>1, AppendIs
<1>3. ASSUME NEW k \in 1..(l + 1), e[k].type \in {"output", "resized"}
      PROVE  \/ (\A i \in 1..(k - 1) : ~IsNumbered(e[i])) /\ e[k].seq = v.sequence + 1
             \/ \E j \in 1..(k - 1) : /\ IsNumbered(e[j]) /\ \A i \in (j + 1)..(k - 1) : ~IsNumbered(e[i])
                                      /\ e[k].seq = e[j].seq + 1
  <2>1. \A i \in 1..(k - 1) : i \in 1..l /\ e[i] = d[i]
    BY <1>2
  <2>2. CASE k = l + 1
    <3>1. e[k].seq = n + 1 /\ k - 1 = l
      BY <1>2, <2>2
    <3>2. CASE Silent(d, Numbers) /\ v.sequence = n
      BY <3>1, <3>2, <2>1, <1>1 DEF Silent, Numbers, IsNumbered
    <3>3. CASE \E j : SaysLast(d, Numbers, j) /\ d[j].seq = n
      <4>1. PICK j : SaysLast(d, Numbers, j) /\ d[j].seq = n
        BY <3>3
      <4>2. j \in 1..l /\ IsNumbered(d[j]) /\ \A i \in (j + 1)..l : ~IsNumbered(d[i])
        BY <4>1, <1>1 DEF SaysLast, Numbers, IsNumbered
      <4>3. \A i \in (j + 1)..l : i \in 1..l
        BY <4>2, <1>2
      <4> QED BY <4>1, <4>2, <4>3, <3>1, <2>1
    <3> QED BY <3>2, <3>3 DEF WillCount
  <2>3. CASE k # l + 1
    <3>1. k \in 1..l /\ e[k] = d[k]
      BY <1>2, <2>3
    <3>2. \/ (\A i \in 1..(k - 1) : ~IsNumbered(d[i])) /\ d[k].seq = v.sequence + 1
          \/ \E j \in 1..(k - 1) : /\ IsNumbered(d[j]) /\ \A i \in (j + 1)..(k - 1) : ~IsNumbered(d[i])
                                   /\ d[k].seq = d[j].seq + 1
      BY <1>1, <1>3, <3>1 DEF Continues
    <3>3. CASE (\A i \in 1..(k - 1) : ~IsNumbered(d[i])) /\ d[k].seq = v.sequence + 1
      BY <3>1, <3>3, <2>1
    <3>4. CASE \E j \in 1..(k - 1) : /\ IsNumbered(d[j]) /\ \A i \in (j + 1)..(k - 1) : ~IsNumbered(d[i])
                                     /\ d[k].seq = d[j].seq + 1
      <4>1. PICK j \in 1..(k - 1) : /\ IsNumbered(d[j]) /\ \A i \in (j + 1)..(k - 1) : ~IsNumbered(d[i])
                                    /\ d[k].seq = d[j].seq + 1
        BY <3>4
      <4>2. \A i \in (j + 1)..(k - 1) : i \in 1..(k - 1)
        BY <3>1, <4>1
      <4> QED BY <3>1, <2>1, <4>1, <4>2
    <3> QED BY <3>2, <3>3, <3>4
  <2> QED BY <2>2, <2>3
<1> QED BY <1>1, <1>2, <1>3 DEF Continues

\* The view has received what came first.
LEMMA ContinuesRest ==
  ASSUME NEW S, NEW d \in Seq(S), d # <<>>, NEW v, NEW w, Continues(v, d),
         IsNumbered(Head(d)) => w.sequence = Head(d).seq,
         ~IsNumbered(Head(d)) => w.sequence = v.sequence
  PROVE  Continues(w, Tail(d))
<1>1. PICK n, e : n = Len(d) /\ e = Tail(d)
  OBVIOUS
<1>2. /\ n \in Nat \ {0} /\ Len(e) = n - 1 /\ Head(d) = d[1]
      /\ \A i \in 1..(n - 1) : e[i] = d[i + 1]
  BY <1>1, TailIs
<1>3. ASSUME NEW k \in 1..(n - 1), e[k].type \in {"output", "resized"}
      PROVE  \/ (\A i \in 1..(k - 1) : ~IsNumbered(e[i])) /\ e[k].seq = w.sequence + 1
             \/ \E j \in 1..(k - 1) : /\ IsNumbered(e[j]) /\ \A i \in (j + 1)..(k - 1) : ~IsNumbered(e[i])
                                      /\ e[k].seq = e[j].seq + 1
  <2>1. k \in Nat /\ k + 1 \in 1..n /\ e[k] = d[k + 1] /\ \A i \in 1..(k - 1) : i + 1 \in 1..k /\ e[i] = d[i + 1]
    BY <1>2
  <2>2. \/ (\A i \in 1..k : ~IsNumbered(d[i])) /\ d[k + 1].seq = v.sequence + 1
        \/ \E j \in 1..k : /\ IsNumbered(d[j]) /\ \A i \in (j + 1)..k : ~IsNumbered(d[i])
                           /\ d[k + 1].seq = d[j].seq + 1
    <3>1. (k + 1) - 1 = k
      BY <2>1
    <3> QED BY <1>1, <1>3, <2>1, <3>1 DEF Continues
  <2>3. CASE (\A i \in 1..k : ~IsNumbered(d[i])) /\ d[k + 1].seq = v.sequence + 1
    <3>1. 1 \in 1..k
      BY <2>1, <1>3
    <3> QED BY <3>1, <2>1, <2>3, <1>2
  <2>4. CASE \E j \in 1..k : /\ IsNumbered(d[j]) /\ \A i \in (j + 1)..k : ~IsNumbered(d[i])
                             /\ d[k + 1].seq = d[j].seq + 1
    <3>1. PICK j \in 1..k : /\ IsNumbered(d[j]) /\ \A i \in (j + 1)..k : ~IsNumbered(d[i])
                            /\ d[k + 1].seq = d[j].seq + 1
      BY <2>4
    <3>2. CASE j = 1
      <4>1. \A i \in 1..(k - 1) : i + 1 \in (j + 1)..k
        BY <2>1, <3>2
      <4> QED BY <4>1, <2>1, <3>1, <3>2, <1>2
    <3>3. CASE j # 1
      <4>1. PICK h : h = j - 1
        OBVIOUS
      <4>2. h \in 1..(k - 1) /\ h + 1 = j
        BY <4>1, <2>1, <3>1, <3>3
      <4>3. e[h] = d[j]
        BY <4>2, <2>1
      <4>4. ASSUME NEW i \in (h + 1)..(k - 1) PROVE ~IsNumbered(e[i])
        <5>1. i \in 1..(k - 1) /\ i + 1 \in (j + 1)..k
          BY <2>1, <4>2
        <5> QED BY <5>1, <2>1, <3>1
      <4> QED BY <2>1, <3>1, <4>2, <4>3, <4>4
    <3> QED BY <3>2, <3>3
  <2> QED BY <2>2, <2>3, <2>4
<1> QED BY <1>1, <1>2, <1>3, ZenonT(60) DEF Continues

LEMMA LastRest ==
  ASSUME NEW S, NEW d \in Seq(S), d # <<>>, NEW T, NEW j, SaysLast(d, T, j), j # 1
  PROVE  SaysLast(Tail(d), T, j - 1) /\ Tail(d)[j - 1] = d[j]
<1>1. PICK n, e : n = Len(d) /\ e = Tail(d)
  OBVIOUS
<1>2. /\ n \in Nat \ {0} /\ Len(e) = n - 1
      /\ \A i \in 1..(n - 1) : e[i] = d[i + 1]
  BY <1>1, TailIs
<1>3. j \in 2..n /\ d[j].type \in T /\ \A i \in (j + 1)..n : d[i].type \notin T
  BY <1>1, <1>2 DEF SaysLast
<1>4. j - 1 \in 1..(n - 1) /\ e[j - 1] = d[j]
  BY <1>2, <1>3
<1>5. ASSUME NEW i \in ((j - 1) + 1)..(n - 1) PROVE e[i].type \notin T
  <2>1. i \in 1..(n - 1) /\ i + 1 \in (j + 1)..n
    BY <1>2, <1>3
  <2> QED BY <1>2, <1>3, <2>1
<1>6. SaysLast(e, T, j - 1) /\ e[j - 1] = d[j]
  BY <1>2, <1>3, <1>4, <1>5 DEF SaysLast
<1> QED BY <1>1, <1>6

LEMMA CalmSame ==
  ASSUME NEW v, NEW w, NEW d, NEW h, NEW g, Calm(v, d, h), w.sequence = v.sequence,
         h.state # "running" => g.state # "running"
  PROVE  Calm(w, d, g)
BY DEF Calm, Continues

LEMMA CalmMore ==
  ASSUME NEW S, NEW d \in Seq(S), NEW m \in S, NEW v, NEW h, NEW g, Calm(v, d, h),
         h.state # "running" => g.state # "running",
         m.type \notin {"output", "resized"}, SaysEnd(m) => g.state # "running"
  PROVE  Calm(v, Append(d, m), g)
<1>1. Continues(v, Append(d, m))
  BY ContinuesOn DEF Calm
<1>2. PICK n, e : n = Len(d) /\ e = Append(d, m)
  OBVIOUS
<1>3. /\ n \in Nat /\ Len(e) = n + 1 /\ e[n + 1] = m
      /\ \A i \in 1..n : e[i] = d[i]
  BY <1>2, AppendIs
<1>4. ASSUME NEW i \in 1..(n + 1), SaysEnd(e[i]) PROVE g.state # "running"
  <2>1. CASE i = n + 1
    BY <2>1, <1>3, <1>4
  <2>2. CASE i # n + 1
    <3>1. i \in 1..n /\ SaysEnd(d[i])
      BY <2>2, <1>3, <1>4
    <3> QED BY <3>1, <1>2 DEF Calm
  <2> QED BY <2>1, <2>2
<1> QED BY <1>1, <1>2, <1>3, <1>4 DEF Calm

LEMMA CalmNext ==
  ASSUME NEW S, NEW d \in Seq(S), NEW m \in S, NEW v, NEW h, NEW g, Calm(v, d, h),
         h.state # "running" => g.state # "running",
         m.type \in {"output", "resized"}, WillCount(v, d, h.seq), m.seq = h.seq + 1
  PROVE  Calm(v, Append(d, m), g)
<1>1. Continues(v, Append(d, m))
  BY ContinuesNext DEF Calm
<1>2. PICK n, e : n = Len(d) /\ e = Append(d, m)
  OBVIOUS
<1>3. /\ n \in Nat /\ Len(e) = n + 1 /\ e[n + 1] = m
      /\ \A i \in 1..n : e[i] = d[i]
  BY <1>2, AppendIs
<1>4. ASSUME NEW i \in 1..(n + 1), SaysEnd(e[i]) PROVE g.state # "running"
  <2>1. i # n + 1
    BY <1>3, <1>4 DEF SaysEnd
  <2>2. i \in 1..n /\ SaysEnd(d[i])
    BY <2>1, <1>3, <1>4
  <2> QED BY <2>2, <1>2 DEF Calm
<1> QED BY <1>1, <1>2, <1>3, <1>4 DEF Calm

LEMMA CalmRest ==
  ASSUME NEW S, NEW d \in Seq(S), d # <<>>, NEW v, NEW w, NEW h, Calm(v, d, h),
         IsNumbered(Head(d)) => w.sequence = Head(d).seq,
         ~IsNumbered(Head(d)) => w.sequence = v.sequence
  PROVE  Calm(w, Tail(d), h)
<1>1. Continues(w, Tail(d))
  BY ContinuesRest DEF Calm
<1>2. PICK n, e : n = Len(d) /\ e = Tail(d)
  OBVIOUS
<1>3. n \in Nat \ {0} /\ Len(e) = n - 1 /\ \A i \in 1..(n - 1) : e[i] = d[i + 1] /\ i + 1 \in 1..n
  BY <1>2, TailIs
<1>4. \A i \in 1..(n - 1) : SaysEnd(e[i]) => h.state # "running"
  BY <1>2, <1>3 DEF Calm
<1> QED BY <1>1, <1>2, <1>3, <1>4 DEF Calm

LEMMA ShowSame ==
  ASSUME NEW v, NEW w, NEW d, NEW h, NEW g, NEW s, WillShow(v, d, h, s),
         w.sequence = v.sequence, w.writer = v.writer, w.ended = v.ended,
         g.seq = h.seq, g.state = h.state, g.writer = s <=> h.writer = s
  PROVE  WillShow(w, d, g, s)
<1>1. WillCount(w, d, g.seq)
  BY DEF WillShow, WillCount
<1>2. WillControl(w, d, s, g.writer)
  BY DEF WillShow, WillControl
<1>3. g.state = "exited" => WillEnd(w, d)
  BY DEF WillShow, WillEnd
<1> QED BY <1>1, <1>2, <1>3 DEF WillShow

\* A message that says nothing of a kind leaves that as it was.
LEMMA CountMore ==
  ASSUME NEW S, NEW d \in Seq(S), NEW m \in S, NEW v, NEW n
  PROVE  /\ m.type \notin Numbers /\ WillCount(v, d, n) => WillCount(v, Append(d, m), n)
         /\ m.type \in Numbers /\ m.seq = n => WillCount(v, Append(d, m), n)
<1>1. ASSUME m.type \notin Numbers, WillCount(v, d, n) PROVE WillCount(v, Append(d, m), n)
  <2>1. CASE Silent(d, Numbers) /\ v.sequence = n
    BY <1>1, <2>1, SilentMore DEF WillCount
  <2>2. CASE \E j : SaysLast(d, Numbers, j) /\ d[j].seq = n
    <3>1. PICK j : SaysLast(d, Numbers, j) /\ d[j].seq = n
      BY <2>2
    <3>2. SaysLast(Append(d, m), Numbers, j) /\ Append(d, m)[j] = d[j]
      BY <1>1, <3>1, SilentMore
    <3> QED BY <3>1, <3>2 DEF WillCount
  <2> QED BY <1>1, <2>1, <2>2 DEF WillCount
<1>2. ASSUME m.type \in Numbers, m.seq = n PROVE WillCount(v, Append(d, m), n)
  BY <1>2, LastMore DEF WillCount
<1> QED BY <1>1, <1>2

LEMMA ControlMore ==
  ASSUME NEW S, NEW d \in Seq(S), NEW m \in S, NEW v, NEW s, NEW w
  PROVE  /\ m.type \notin ControlNews /\ WillControl(v, d, s, w) => WillControl(v, Append(d, m), s, w)
         /\ m.type \in ControlNews /\ (SaysControl(m, s) <=> w = s) => WillControl(v, Append(d, m), s, w)
<1>1. ASSUME m.type \notin ControlNews, WillControl(v, d, s, w) PROVE WillControl(v, Append(d, m), s, w)
  BY <1>1, SilentMore DEF WillControl
<1>2. ASSUME m.type \in ControlNews, SaysControl(m, s) <=> w = s PROVE WillControl(v, Append(d, m), s, w)
  BY <1>2, LastMore DEF WillControl
<1> QED BY <1>1, <1>2

LEMMA EndMore ==
  ASSUME NEW S, NEW d \in Seq(S), NEW m \in S, NEW v
  PROVE  /\ m.type \notin EndNews /\ WillEnd(v, d) => WillEnd(v, Append(d, m))
         /\ m.type \in EndNews /\ SaysEnd(m) => WillEnd(v, Append(d, m))
<1>1. ASSUME m.type \notin EndNews, WillEnd(v, d) PROVE WillEnd(v, Append(d, m))
  BY <1>1, SilentMore DEF WillEnd
<1>2. ASSUME m.type \in EndNews, SaysEnd(m) PROVE WillEnd(v, Append(d, m))
  BY <1>2, LastMore DEF WillEnd
<1> QED BY <1>1, <1>2

LEMMA ShowNext ==
  ASSUME NEW S, NEW d \in Seq(S), NEW m \in S, NEW v, NEW h, NEW g, NEW s, WillShow(v, d, h, s),
         m.type \in {"output", "resized"}, m.seq = g.seq, g.state = h.state, g.writer = h.writer
  PROVE  WillShow(v, Append(d, m), g, s)
BY CountMore, ControlMore, EndMore DEF WillShow, Numbers, ControlNews, EndNews

LEMMA ShowControl ==
  ASSUME NEW S, NEW d \in Seq(S), NEW m \in S, NEW v, NEW h, NEW g, NEW s, WillShow(v, d, h, s),
         m.type = "controlChanged", m.writer = g.writer, g.seq = h.seq, g.state = h.state
  PROVE  WillShow(v, Append(d, m), g, s)
BY CountMore, ControlMore, EndMore DEF WillShow, Numbers, ControlNews, EndNews, SaysControl

LEMMA ShowClosing ==
  ASSUME NEW S, NEW d \in Seq(S), NEW m \in S, NEW v, NEW h, NEW g, NEW s, WillShow(v, d, h, s),
         m.type = "closing", g.writer # s, g.seq = h.seq, g.state # "exited"
  PROVE  WillShow(v, Append(d, m), g, s)
BY CountMore, ControlMore, EndMore DEF WillShow, Numbers, ControlNews, EndNews, SaysControl

\* What a view is sent when its snapshot is taken.
LEMMA ShowFresh ==
  ASSUME NEW S, NEW d \in Seq(S), NEW m \in S, NEW n \in S, NEW v, NEW h, NEW s,
         m.type = "ready", m.state = h.state, m.writer = h.writer, n.type = "snapshot", n.seq = h.seq
  PROVE  WillShow(v, Append(Append(d, m), n), h, s)
<1>1. PICK e : e = Append(d, m) /\ e \in Seq(S)
  BY AppendIs
<1>2. WillCount(v, Append(e, n), h.seq)
  BY <1>1, CountMore DEF Numbers
<1>3. WillControl(v, e, s, h.writer)
  BY <1>1, ControlMore DEF ControlNews, SaysControl
<1>4. WillControl(v, Append(e, n), s, h.writer)
  BY <1>1, <1>3, ControlMore DEF ControlNews
<1>5. ASSUME h.state = "exited" PROVE WillEnd(v, Append(e, n))
  <2>1. WillEnd(v, e)
    BY <1>1, <1>5, EndMore DEF EndNews, SaysEnd
  <2> QED BY <1>1, <2>1, EndMore DEF EndNews
<1> QED BY <1>1, <1>2, <1>4, <1>5 DEF WillShow

LEMMA ShowExited ==
  ASSUME NEW S, NEW d \in Seq(S), NEW m \in S, NEW v, NEW h, NEW s, WillShow(v, d, h, s),
         m.type = "exit", h.writer # s
  PROVE  WillShow(v, Append(d, m), h, s)
BY CountMore, ControlMore, EndMore DEF WillShow, Numbers, ControlNews, EndNews, SaysControl, SaysEnd

\* What the view shows of what it has received.
LEMMA ShowRest ==
  ASSUME NEW S, NEW d \in Seq(S), d # <<>>, NEW v, NEW w, NEW h, NEW s, WillShow(v, d, h, s),
         NEW m, m = Head(d),
         m.type \in Numbers => w.sequence = m.seq, m.type \notin Numbers => w.sequence = v.sequence,
         m.type \in ControlNews => (w.writer <=> SaysControl(m, s)), m.type \notin ControlNews
           => w.writer = v.writer,
         m.type \in EndNews => (w.ended <=> SaysEnd(m)), m.type \notin EndNews => w.ended = v.ended
  PROVE  WillShow(w, Tail(d), h, s)
<1>1. WillCount(w, Tail(d), h.seq)
  <2>1. CASE Silent(d, Numbers) /\ v.sequence = h.seq
    BY <2>1, SilentRest DEF WillCount
  <2>2. CASE \E j : SaysLast(d, Numbers, j) /\ d[j].seq = h.seq
    <3>1. PICK j : SaysLast(d, Numbers, j) /\ d[j].seq = h.seq
      BY <2>2
    <3>2. CASE j = 1
      <4>1. Silent(Tail(d), Numbers) /\ d[1] = m
        BY <3>1, <3>2, SilentRest
      <4>2. m.type \in Numbers
        BY <3>1, <3>2, <4>1 DEF SaysLast
      <4> QED BY <3>1, <3>2, <4>1, <4>2 DEF WillCount
    <3>3. CASE j # 1
      <4>1. SaysLast(Tail(d), Numbers, j - 1) /\ Tail(d)[j - 1] = d[j]
        BY <3>1, <3>3, LastRest
      <4> QED BY <3>1, <4>1 DEF WillCount
    <3> QED BY <3>2, <3>3
  <2> QED BY <2>1, <2>2 DEF WillShow, WillCount
<1>2. WillControl(w, Tail(d), s, h.writer)
  <2>1. CASE Silent(d, ControlNews) /\ (v.writer <=> h.writer = s)
    BY <2>1, SilentRest DEF WillControl
  <2>2. CASE \E j : SaysLast(d, ControlNews, j) /\ (SaysControl(d[j], s) <=> h.writer = s)
    <3>1. PICK j : SaysLast(d, ControlNews, j) /\ (SaysControl(d[j], s) <=> h.writer = s)
      BY <2>2
    <3>2. CASE j = 1
      <4>1. Silent(Tail(d), ControlNews) /\ d[1] = m
        BY <3>1, <3>2, SilentRest
      <4>2. m.type \in ControlNews
        BY <3>1, <3>2, <4>1 DEF SaysLast
      <4> QED BY <3>1, <3>2, <4>1, <4>2 DEF WillControl
    <3>3. CASE j # 1
      <4>1. SaysLast(Tail(d), ControlNews, j - 1) /\ Tail(d)[j - 1] = d[j]
        BY <3>1, <3>3, LastRest
      <4> QED BY <3>1, <4>1 DEF WillControl
    <3> QED BY <3>2, <3>3
  <2> QED BY <2>1, <2>2 DEF WillShow, WillControl
<1>3. ASSUME h.state = "exited" PROVE WillEnd(w, Tail(d))
  <2>1. CASE Silent(d, EndNews) /\ v.ended
    BY <2>1, SilentRest DEF WillEnd
  <2>2. CASE \E j : SaysLast(d, EndNews, j) /\ SaysEnd(d[j])
    <3>1. PICK j : SaysLast(d, EndNews, j) /\ SaysEnd(d[j])
      BY <2>2
    <3>2. CASE j = 1
      <4>1. Silent(Tail(d), EndNews) /\ d[1] = m
        BY <3>1, <3>2, SilentRest
      <4>2. m.type \in EndNews
        BY <3>1, <3>2, <4>1 DEF SaysLast
      <4> QED BY <3>1, <3>2, <4>1, <4>2 DEF WillEnd
    <3>3. CASE j # 1
      <4>1. SaysLast(Tail(d), EndNews, j - 1) /\ Tail(d)[j - 1] = d[j]
        BY <3>1, <3>3, LastRest
      <4> QED BY <3>1, <4>1 DEF WillEnd
    <3> QED BY <3>2, <3>3
  <2> QED BY <1>3, <2>1, <2>2 DEF WillShow, WillEnd
<1> QED BY <1>1, <1>2, <1>3 DEF WillShow

-----------------------------------------------------------------------------
(* Sockets *)

LEMMA Typed ==
  ASSUME ViewTypes
  PROVE  /\ host \in Hosts /\ host.writer \in Writers /\ host.seq \in Nat /\ host.tail \in Seq(Tasks)
         /\ \A s \in Sockets : /\ socket[s] \in Connections
                               /\ socket[s].down \in Seq(Downs) /\ socket[s].up \in Seq(Ups)
BY DEF ViewTypes, Hosts, Connections

LEMMA Kinds ==
  /\ [type |-> "close"] \in Downs /\ [type |-> "closing"] \in Downs /\ [type |-> "exit"] \in Downs
  /\ \A n \in Nat : \A t \in Numbers : NumberedMessage(t, n) \in Downs
  /\ \A w \in Writers : ControlOf(w) \in Downs
  /\ \A w \in Writers : \A st \in {"running", "closing", "exited", "gone"} :
       [type |-> "ready", state |-> st, writer |-> w] \in Downs
BY DEF Downs, NumberedMessage, ControlOf

LEMMA SendIs ==
  ASSUME NEW k \in Connections, NEW m \in Downs, NEW l, l = SendTo(k, m)
  PROVE  /\ l \in Connections /\ l.ws = k.ws /\ l.peer = k.peer /\ l.up = k.up
         /\ k.ws = "open" => l.down = Append(k.down, m)
         /\ k.ws # "open" => l.down = k.down
<1>1. CASE k.ws = "open"
  <2>1. k.down \in Seq(Downs) /\ Append(k.down, m) \in Seq(Downs)
    BY AppendIs DEF Connections
  <2>2. PICK e : e = Append(k.down, m) /\ e \in Seq(Downs)
    BY <2>1
  <2>3. l = [k EXCEPT !.down = e]
    BY <1>1, <2>2 DEF SendTo
  <2>4. l \in Connections /\ l.ws = k.ws /\ l.peer = k.peer /\ l.up = k.up /\ l.down = e
    BY <2>2, <2>3 DEF Connections
  <2> QED BY <1>1, <2>2, <2>4
<1>2. CASE k.ws # "open"
  BY <1>2 DEF SendTo
<1> QED BY <1>1, <1>2

LEMMA CloseIs ==
  ASSUME NEW k \in Connections, NEW l, l = CloseSocket(k)
  PROVE  /\ l \in Connections /\ l.peer = k.peer /\ l.up = k.up /\ l.ws # "open"
         /\ k.ws = "open" => l.ws = "closing" /\ l.down = Append(k.down, [type |-> "close"])
         /\ k.ws # "open" => l.ws = k.ws /\ l.down = k.down
<1>1. CASE k.ws = "open"
  <2>1. k.down \in Seq(Downs) /\ Append(k.down, [type |-> "close"]) \in Seq(Downs)
    BY AppendIs, Kinds DEF Connections
  <2>2. PICK e : e = Append(k.down, [type |-> "close"]) /\ e \in Seq(Downs)
    BY <2>1
  <2>3. l = [k EXCEPT !.ws = "closing", !.down = e]
    BY <1>1, <2>2 DEF CloseSocket
  <2>4. l \in Connections /\ l.ws = "closing" /\ l.peer = k.peer /\ l.up = k.up /\ l.down = e
    BY <2>2, <2>3 DEF Connections
  <2> QED BY <1>1, <2>2, <2>4
<1>2. CASE k.ws # "open"
  BY <1>2 DEF CloseSocket
<1> QED BY <1>1, <1>2

LEMMA BroadcastIs ==
  ASSUME NEW ks \in [Sockets -> Connections], NEW m \in Downs, NEW ls, ls = BroadcastTo(ks, m)
  PROVE  /\ ls \in [Sockets -> Connections]
         /\ \A s \in Sockets : /\ ls[s].ws = ks[s].ws /\ ls[s].peer = ks[s].peer /\ ls[s].up = ks[s].up
                               /\ ks[s].ws = "open" /\ ks[s].peer = "live" => ls[s].down = Append(ks[s].down, m)
                               /\ ~(ks[s].ws = "open" /\ ks[s].peer = "live") => ls[s].down = ks[s].down
<1>1. \A s \in Sockets : ls[s] = IF ks[s].peer = "live" THEN SendTo(ks[s], m) ELSE ks[s]
  BY DEF BroadcastTo
<1>2. ASSUME NEW s \in Sockets
      PROVE  /\ ls[s] \in Connections /\ ls[s].ws = ks[s].ws /\ ls[s].peer = ks[s].peer /\ ls[s].up = ks[s].up
             /\ ks[s].ws = "open" /\ ks[s].peer = "live" => ls[s].down = Append(ks[s].down, m)
             /\ ~(ks[s].ws = "open" /\ ks[s].peer = "live") => ls[s].down = ks[s].down
  <2>1. ks[s] \in Connections
    OBVIOUS
  <2>2. CASE ks[s].peer = "live"
    <3>1. ls[s] = SendTo(ks[s], m)
      BY <1>1, <2>2
    <3> QED BY <2>1, <2>2, <3>1, SendIs
  <2>3. CASE ks[s].peer # "live"
    BY <1>1, <2>1, <2>3
  <2> QED BY <2>2, <2>3
<1>3. ls \in [Sockets -> Connections]
  BY <1>2 DEF BroadcastTo
<1> QED BY <1>2, <1>3

LEMMA DisconnectIs ==
  ASSUME NEW ks \in [Sockets -> Connections], NEW ls, ls = DisconnectPeers(ks)
  PROVE  /\ ls \in [Sockets -> Connections]
         /\ \A s \in Sockets : /\ ls[s].peer = "none" /\ ls[s].up = ks[s].up
                               /\ ls[s].ws = ks[s].ws \/ (ks[s].ws = "open" /\ ls[s].ws = "closing")
                               /\ ls[s].down = ks[s].down \/ ls[s].down = Append(ks[s].down, [type |-> "close"])
<1>1. \A s \in Sockets : ls[s] = IF ks[s].peer = "none" THEN ks[s] ELSE [CloseSocket(ks[s]) EXCEPT !.peer = "none"]
  BY DEF DisconnectPeers
<1>2. ASSUME NEW s \in Sockets
      PROVE  /\ ls[s] \in Connections /\ ls[s].peer = "none" /\ ls[s].up = ks[s].up
             /\ ls[s].ws = ks[s].ws \/ (ks[s].ws = "open" /\ ls[s].ws = "closing")
             /\ ls[s].down = ks[s].down \/ ls[s].down = Append(ks[s].down, [type |-> "close"])
  <2>1. ks[s] \in Connections
    OBVIOUS
  <2>2. CASE ks[s].peer = "none"
    BY <1>1, <2>1, <2>2
  <2>3. CASE ks[s].peer # "none"
    <3>1. PICK c : c = CloseSocket(ks[s])
      OBVIOUS
    <3>2. /\ c \in Connections /\ c.up = ks[s].up
          /\ c.ws = ks[s].ws \/ (ks[s].ws = "open" /\ c.ws = "closing")
          /\ c.down = ks[s].down \/ c.down = Append(ks[s].down, [type |-> "close"])
      BY <2>1, <3>1, CloseIs
    <3>3. ls[s] = [c EXCEPT !.peer = "none"]
      BY <1>1, <2>3, <3>1
    <3>4. ls[s] \in Connections /\ ls[s].peer = "none" /\ ls[s].up = c.up /\ ls[s].ws = c.ws /\ ls[s].down = c.down
      BY <3>2, <3>3 DEF Connections
    <3> QED BY <3>2, <3>4
  <2> QED BY <2>2, <2>3
<1>3. ls \in [Sockets -> Connections]
  BY <1>2 DEF DisconnectPeers
<1> QED BY <1>2, <1>3

-----------------------------------------------------------------------------
(* What a step leaves true of a view *)

LEMMA GoodKept ==
  ASSUME NEW v, NEW w, NEW k, NEW l, NEW h, NEW g, NEW s, Good(v, k, h, s), l.down = k.down,
         w.sequence = v.sequence, w.writer = v.writer, w.ended = v.ended,
         l.ws = "open" /\ l.peer = "live" => k.ws = "open" /\ k.peer = "live",
         g.seq = h.seq, g.state = h.state, g.writer = s <=> h.writer = s
  PROVE  Good(w, l, g, s)
<1>1. Calm(v, l.down, h) /\ (l.ws = "open" /\ l.peer = "live" => WillShow(v, l.down, h, s))
  BY DEF Good
<1>2. Calm(w, l.down, g)
  BY <1>1, CalmSame
<1>3. l.ws = "open" /\ l.peer = "live" => WillShow(w, l.down, g, s)
  BY <1>1, ShowSame
<1> QED BY <1>2, <1>3 DEF Good

\* A view on a socket that is closing, or not attached, only has its past to receive.
LEMMA GoodShut ==
  ASSUME NEW v, NEW k \in Connections, NEW l, NEW h, NEW g, NEW s, Good(v, k, h, s),
         ~(l.ws = "open" /\ l.peer = "live"), h.state # "running" => g.state # "running",
         l.down = k.down \/ l.down = Append(k.down, [type |-> "close"])
  PROVE  Good(v, l, g, s)
<1>1. Calm(v, k.down, h) /\ k.down \in Seq(Downs)
  BY DEF Good, Connections
<1>2. Calm(v, k.down, g)
  BY <1>1, CalmSame
<1>3. PICK m : m = [type |-> "close"] /\ m \in Downs
  BY Kinds
<1>4. m.type = "close" /\ ~SaysEnd(m)
  BY <1>3 DEF SaysEnd
<1>5. Calm(v, Append(k.down, m), g)
  BY <1>1, <1>3, <1>4, CalmMore
<1> QED BY <1>2, <1>3, <1>5 DEF Good

NoBye(k) == \A i \in 1..Len(k.up) : k.up[i].type = "close" => k.ws = "left"

LEMMA ByeKept ==
  ASSUME NEW k, NEW l, NoBye(k), l.up = k.up, k.ws = "left" => l.ws = "left"
  PROVE  NoBye(l)
BY DEF NoBye

LEMMA ByeRest ==
  ASSUME NEW k \in Connections, NEW l, NoBye(k), k.up # <<>>, l.up = Tail(k.up), k.ws = "left" => l.ws = "left"
  PROVE  NoBye(l)
<1>1. PICK d, e : d = k.up /\ e = Tail(d) /\ d \in Seq(Ups) /\ d # <<>>
  BY DEF Connections
<1>2. /\ Len(d) \in Nat \ {0} /\ Len(e) = Len(d) - 1
      /\ \A i \in 1..(Len(d) - 1) : e[i] = d[i + 1]
  BY <1>1, TailIs
<1>3. ASSUME NEW i \in 1..(Len(d) - 1), e[i].type = "close" PROVE k.ws = "left"
  <2>1. i + 1 \in 1..Len(d) /\ d[i + 1].type = "close"
    BY <1>2, <1>3
  <2> QED BY <1>1, <2>1 DEF NoBye
<1> QED BY <1>1, <1>2, <1>3 DEF NoBye

LEMMA ByeMore ==
  ASSUME NEW k \in Connections, NEW l, NEW m \in Ups, NoBye(k), l.up = Append(k.up, m), m.type # "close",
           l.ws = k.ws
  PROVE  NoBye(l)
<1>1. PICK d, e : d = k.up /\ e = Append(d, m) /\ d \in Seq(Ups)
  BY DEF Connections
<1>2. /\ Len(d) \in Nat /\ Len(e) = Len(d) + 1 /\ e[Len(d) + 1] = m
      /\ \A i \in 1..Len(d) : e[i] = d[i]
  BY <1>1, AppendIs
<1>3. ASSUME NEW i \in 1..(Len(d) + 1), e[i].type = "close" PROVE k.ws = "left"
  <2>1. i # Len(d) + 1
    BY <1>2, <1>3
  <2>2. i \in 1..Len(d) /\ d[i].type = "close"
    BY <1>2, <1>3, <2>1
  <2> QED BY <1>1, <2>2 DEF NoBye
<1> QED BY <1>1, <1>2, <1>3 DEF NoBye

\* A step of the service keeps the invariant when it keeps what every view will show.
LEMMA Served ==
  ASSUME ViewsInv, ViewTypes', UNCHANGED view,
         \A s \in Sockets : socket[s].ws \in {"open", "closing"} => socket'[s].ws \in {"open", "closing"},
         \A b \in Browsers : view[b].stage = "on" => Good(view[b], socket'[view[b].on], host', view[b].on),
         host.state # "running" => host'.state # "running",
         Controlled', NoPeers', \A s \in Sockets : NoBye(socket'[s])
  PROVE  ViewsInv'
<1>1. OnSockets'
  BY DEF ViewsInv, OnSockets
<1>2. Goods'
  BY DEF Goods
<1>3. NotEarly'
  BY DEF ViewsInv, NotEarly
<1>4. SaysBye'
  BY DEF SaysBye, NoBye
<1> QED BY <1>1, <1>2, <1>3, <1>4 DEF ViewsInv

LEMMA Each ==
  ASSUME ViewsInv, NEW b \in Browsers, view[b].stage = "on"
  PROVE  /\ view[b].on \in Sockets /\ socket[view[b].on] \in Connections
         /\ Good(view[b], socket[view[b].on], host, view[b].on)
         /\ socket[view[b].on].ws \in {"open", "closing"}
BY DEF ViewsInv, OnSockets, Goods, ViewTypes

LEMMA Parts ==
  ASSUME ViewsInv
  PROVE  ViewTypes /\ Controlled /\ NoPeers /\ \A s \in Sockets : NoBye(socket[s])
BY DEF ViewsInv, SaysBye, NoBye

LEMMA GoodTold ==
  ASSUME NEW v, NEW k \in Connections, NEW l, NEW h, NEW g, NEW s, Good(v, k, h, s),
         NEW w \in Writers, g.writer = w, g.seq = h.seq, g.state = h.state, l.ws = k.ws, l.peer = k.peer,
         k.ws = "open" /\ k.peer = "live" => l.down = Append(k.down, ControlOf(w)),
         ~(k.ws = "open" /\ k.peer = "live") => l.down = k.down
  PROVE  Good(v, l, g, s)
<1>1. PICK m : m = ControlOf(w) /\ m \in Downs
  BY Kinds
<1>2. m.type = "controlChanged" /\ m.writer = w /\ ~SaysEnd(m)
  BY <1>1 DEF ControlOf, SaysEnd
<1>3. k.down \in Seq(Downs) /\ Calm(v, k.down, h)
  BY DEF Connections, Good
<1>4. CASE k.ws = "open" /\ k.peer = "live"
  <2>1. WillShow(v, k.down, h, s)
    BY <1>4 DEF Good
  <2>2. WillShow(v, Append(k.down, m), g, s)
    BY <1>1, <1>2, <1>3, <2>1, ShowControl
  <2>3. Calm(v, Append(k.down, m), g)
    BY <1>1, <1>2, <1>3, CalmMore
  <2> QED BY <1>1, <1>4, <2>2, <2>3 DEF Good
<1>5. CASE ~(k.ws = "open" /\ k.peer = "live")
  BY <1>5, GoodShut
<1> QED BY <1>4, <1>5

LEMMA GoodAdvanced ==
  ASSUME NEW v, NEW k \in Connections, NEW l, NEW h, NEW g, NEW s, Good(v, k, h, s), h.seq \in Nat,
         NEW type \in {"output", "resized"},
         g.writer = h.writer, g.seq = h.seq + 1, g.state = h.state, l.ws = k.ws, l.peer = k.peer,
         k.ws = "open" /\ k.peer = "live" => l.down = Append(k.down, NumberedMessage(type, h.seq + 1)),
         ~(k.ws = "open" /\ k.peer = "live") => l.down = k.down
  PROVE  Good(v, l, g, s)
<1>1. PICK m : m = NumberedMessage(type, h.seq + 1) /\ m \in Downs
  BY Kinds DEF Numbers
<1>2. m.type = type /\ m.seq = h.seq + 1
  BY <1>1 DEF NumberedMessage
<1>3. k.down \in Seq(Downs) /\ Calm(v, k.down, h)
  BY DEF Connections, Good
<1>4. CASE k.ws = "open" /\ k.peer = "live"
  <2>1. WillShow(v, k.down, h, s)
    BY <1>4 DEF Good
  <2>2. WillShow(v, Append(k.down, m), g, s)
    BY <1>1, <1>2, <1>3, <2>1, ShowNext
  <2>3. Calm(v, Append(k.down, m), g)
    BY <1>1, <1>2, <1>3, <2>1, CalmNext DEF WillShow
  <2> QED BY <1>1, <1>4, <2>2, <2>3 DEF Good
<1>5. CASE ~(k.ws = "open" /\ k.peer = "live")
  BY <1>5, GoodShut
<1> QED BY <1>4, <1>5

LEMMA GoodClosing ==
  ASSUME NEW v, NEW k \in Connections, NEW l, NEW h, NEW g, NEW s, Good(v, k, h, s),
         g.writer # s, g.seq = h.seq, g.state = "closing", l.ws = k.ws, l.peer = k.peer,
         k.ws = "open" /\ k.peer = "live" => l.down = Append(k.down, [type |-> "closing"]),
         ~(k.ws = "open" /\ k.peer = "live") => l.down = k.down
  PROVE  Good(v, l, g, s)
<1>1. PICK m : m = [type |-> "closing"] /\ m \in Downs
  BY Kinds
<1>2. m.type = "closing"
  BY <1>1
<1>3. k.down \in Seq(Downs) /\ Calm(v, k.down, h)
  BY DEF Connections, Good
<1>4. CASE k.ws = "open" /\ k.peer = "live"
  <2>1. WillShow(v, k.down, h, s)
    BY <1>4 DEF Good
  <2>2. WillShow(v, Append(k.down, m), g, s)
    BY <1>1, <1>2, <1>3, <2>1, ShowClosing
  <2>3. Calm(v, Append(k.down, m), g)
    BY <1>1, <1>2, <1>3, CalmMore
  <2> QED BY <1>1, <1>4, <2>2, <2>3 DEF Good
<1>5. CASE ~(k.ws = "open" /\ k.peer = "live")
  BY <1>5, GoodShut
<1> QED BY <1>4, <1>5

LEMMA GoodExit ==
  ASSUME NEW v, NEW k \in Connections, NEW l, NEW h, NEW g, NEW s, Good(v, k, h, s),
         g.state # "running", l.peer = "none",
         NEW d, d = k.down \/ d = Append(k.down, [type |-> "exit"]),
         l.down = d \/ l.down = Append(d, [type |-> "close"])
  PROVE  Good(v, l, g, s)
<1>1. k.down \in Seq(Downs) /\ Calm(v, k.down, h)
  BY DEF Connections, Good
<1>2. PICK m : m = [type |-> "exit"] /\ m \in Downs
  BY Kinds
<1>3. PICK n : n = [type |-> "close"] /\ n \in Downs
  BY Kinds
<1>4. m.type = "exit" /\ n.type = "close"
  BY <1>2, <1>3
<1>5. Calm(v, k.down, g)
  BY <1>1, CalmSame
<1>6. Calm(v, Append(k.down, m), g)
  BY <1>1, <1>2, <1>4, CalmMore
<1>7. Calm(v, d, g) /\ d \in Seq(Downs)
  BY <1>1, <1>2, <1>5, <1>6, AppendIs
<1>8. Calm(v, Append(d, n), g)
  BY <1>3, <1>4, <1>7, CalmMore
<1> QED BY <1>3, <1>7, <1>8 DEF Good

-----------------------------------------------------------------------------
(* The terminal *)

LEMMA KeptPrints ==
  ASSUME ViewsInv, HostPrints
  PROVE  ViewsInv'
<1>1. host \in Hosts /\ host.tail \in Seq(Tasks) /\ OutputTask \in Tasks
  BY Parts, Typed DEF OutputTask, Tasks, Writers
<1>2. PICK q : q = Append(host.tail, OutputTask) /\ q \in Seq(Tasks)
  BY <1>1, AppendIs
<1>3. host' = [host EXCEPT !.tail = q] /\ UNCHANGED <<socket, view>>
  BY <1>2 DEF HostPrints
<1>4. host' \in Hosts /\ host'.state = host.state /\ host'.seq = host.seq /\ host'.writer = host.writer
  BY <1>1, <1>2, <1>3 DEF Hosts
<1>5. ViewTypes'
  BY <1>3, <1>4, Parts DEF ViewTypes
<1>6. ASSUME NEW b \in Browsers, view[b].stage = "on" PROVE Good(view[b], socket'[view[b].on], host', view[b].on)
  <2>1. PICK t : t = view[b].on
    OBVIOUS
  <2>2. Good(view[b], socket[t], host, t)
    BY <1>6, <2>1, Each
  <2>3. Good(view[b], socket[t], host', t)
    BY <1>4, <2>2, GoodKept
  <2> QED BY <1>3, <2>1, <2>3
<1>7. Controlled' /\ NoPeers' /\ \A s \in Sockets : NoBye(socket'[s])
  BY <1>3, <1>4, Parts DEF Controlled, NoPeers
<1> QED BY <1>3, <1>4, <1>5, <1>6, <1>7, Served

LEMMA KeptDrop ==
  ASSUME ViewsInv, host.tail # <<>>, DropTask, UNCHANGED view
  PROVE  ViewsInv'
<1>1. host \in Hosts /\ host.tail \in Seq(Tasks)
  BY Parts, Typed
<1>2. PICK q : q = Tail(host.tail) /\ q \in Seq(Tasks)
  BY <1>1, TailIs
<1>3. host' = [host EXCEPT !.tail = q] /\ UNCHANGED <<socket, view>>
  BY <1>2 DEF DropTask
<1>4. host' \in Hosts /\ host'.state = host.state /\ host'.seq = host.seq /\ host'.writer = host.writer
  BY <1>1, <1>2, <1>3 DEF Hosts
<1>5. ViewTypes'
  BY <1>3, <1>4, Parts DEF ViewTypes
<1>6. ASSUME NEW b \in Browsers, view[b].stage = "on" PROVE Good(view[b], socket'[view[b].on], host', view[b].on)
  <2>1. PICK t : t = view[b].on
    OBVIOUS
  <2>2. Good(view[b], socket[t], host, t)
    BY <1>6, <2>1, Each
  <2>3. Good(view[b], socket[t], host', t)
    BY <1>4, <2>2, GoodKept
  <2> QED BY <1>3, <2>1, <2>3
<1>7. Controlled' /\ NoPeers' /\ \A s \in Sockets : NoBye(socket'[s])
  BY <1>3, <1>4, Parts DEF Controlled, NoPeers
<1> QED BY <1>3, <1>4, <1>5, <1>6, <1>7, Served

LEMMA KeptAdvance ==
  ASSUME ViewsInv, host.tail # <<>>, NEW type \in {"output", "resized"}, Advance(type), UNCHANGED view
  PROVE  ViewsInv'
<1>1. host \in Hosts /\ host.tail \in Seq(Tasks) /\ host.seq \in Nat /\ socket \in [Sockets -> Connections]
  BY Parts, Typed DEF ViewTypes
<1>2. PICK q : q = Tail(host.tail) /\ q \in Seq(Tasks)
  BY <1>1, TailIs
<1>3. PICK n : n = host.seq + 1 /\ n \in Nat
  BY <1>1
<1>4. host' = [host EXCEPT !.seq = n, !.tail = q]
  BY <1>2, <1>3 DEF Advance
<1>5. host' \in Hosts /\ host'.state = host.state /\ host'.seq = n /\ host'.writer = host.writer
  BY <1>1, <1>2, <1>3, <1>4 DEF Hosts
<1>6. PICK m : m = NumberedMessage(type, host.seq + 1) /\ m \in Downs
  BY <1>1, Kinds DEF Numbers
<1>7. socket' = BroadcastTo(socket, m)
  BY <1>6 DEF Advance
<1>8. /\ socket' \in [Sockets -> Connections]
      /\ \A s \in Sockets :
           /\ socket'[s].ws = socket[s].ws /\ socket'[s].peer = socket[s].peer /\ socket'[s].up = socket[s].up
           /\ socket[s].ws = "open" /\ socket[s].peer = "live" => socket'[s].down = Append(socket[s].down, m)
           /\ ~(socket[s].ws = "open" /\ socket[s].peer = "live") => socket'[s].down = socket[s].down
  BY <1>1, <1>6, <1>7, BroadcastIs
<1>9. ViewTypes'
  BY <1>5, <1>8, Parts DEF ViewTypes
<1>10. ASSUME NEW b \in Browsers, view[b].stage = "on" PROVE Good(view[b], socket'[view[b].on], host', view[b].on)
  <2>1. PICK t, k, l : t = view[b].on /\ k = socket[t] /\ l = socket'[t]
    OBVIOUS
  <2>2. t \in Sockets /\ k \in Connections /\ Good(view[b], k, host, t)
    BY <1>10, <2>1, Each
  <2>3. /\ l.ws = k.ws /\ l.peer = k.peer
        /\ k.ws = "open" /\ k.peer = "live" => l.down = Append(k.down, NumberedMessage(type, host.seq + 1))
        /\ ~(k.ws = "open" /\ k.peer = "live") => l.down = k.down
    BY <1>6, <1>8, <2>1, <2>2
  <2>4. host'.writer = host.writer /\ host'.seq = host.seq + 1 /\ host'.state = host.state
    BY <1>3, <1>5
  <2>5. Good(view[b], l, host', t)
    BY <1>1, <2>2, <2>3, <2>4, GoodAdvanced
  <2> QED BY <2>1, <2>5
<1>11. Controlled' /\ NoPeers'
  BY <1>5, <1>8, Parts DEF Controlled, NoPeers
<1>12. \A s \in Sockets : NoBye(socket'[s])
  BY <1>8, Parts, ByeKept
<1> QED BY <1>5, <1>8, <1>9, <1>10, <1>11, <1>12, Served

\* A socket leaves the terminal, with the control it may have.
LEMMA KeptDetach ==
  ASSUME ViewsInv, NEW s \in Sockets, NEW left \in Connections, NEW ahead \in Seq(Tasks), DetachPeer(s, left, ahead),
         UNCHANGED view, left.peer = "none", NoBye(left),
         socket[s].ws = "left" \/ (left.ws = socket[s].ws /\ left.down = socket[s].down)
  PROVE  ViewsInv'
<1>1. host \in Hosts /\ socket \in [Sockets -> Connections] /\ NoSocket \in Writers
  BY Parts, Typed DEF ViewTypes, Writers
<1>2. PICK rest : rest = [socket EXCEPT ![s] = left]
  OBVIOUS
<1>3. rest \in [Sockets -> Connections] /\ rest[s] = left /\ \A t \in Sockets : t # s => rest[t] = socket[t]
  BY <1>1, <1>2
<1>4. PICK m : m = ControlOf(NoSocket) /\ m \in Downs
  BY <1>1, Kinds
<1>5. CASE socket[s].peer # "none" /\ host.writer = s
  <2>1. host' = [host EXCEPT !.tail = ahead, !.writer = NoSocket] /\ socket' = BroadcastTo(rest, m)
    BY <1>2, <1>4, <1>5 DEF DetachPeer
  <2>2. host' \in Hosts /\ host'.state = host.state /\ host'.seq = host.seq /\ host'.writer = NoSocket
    BY <1>1, <2>1 DEF Hosts
  <2>3. /\ socket' \in [Sockets -> Connections]
        /\ \A t \in Sockets :
             /\ socket'[t].ws = rest[t].ws /\ socket'[t].peer = rest[t].peer /\ socket'[t].up = rest[t].up
             /\ rest[t].ws = "open" /\ rest[t].peer = "live" => socket'[t].down = Append(rest[t].down, m)
             /\ ~(rest[t].ws = "open" /\ rest[t].peer = "live") => socket'[t].down = rest[t].down
    BY <1>3, <1>4, <2>1, BroadcastIs
  <2>4. ViewTypes'
    BY <2>2, <2>3, Parts DEF ViewTypes
  <2>5. ASSUME NEW b \in Browsers, view[b].stage = "on" PROVE Good(view[b], socket'[view[b].on], host', view[b].on)
    <3>1. PICK t : t = view[b].on
      OBVIOUS
    <3>2. t \in Sockets /\ socket[t] \in Connections /\ Good(view[b], socket[t], host, t) /\ socket[t].ws # "left"
      BY <2>5, <3>1, Each
    <3>3. CASE t = s
      <4>1. socket'[t].peer = "none" /\ socket'[t].down = socket[t].down
        BY <1>3, <2>3, <3>2, <3>3
      <4> QED BY <2>2, <3>1, <3>2, <4>1, GoodShut
    <3>4. CASE t # s
      <4>1. rest[t] = socket[t]
        BY <1>3, <3>2, <3>4
      <4> QED BY <1>1, <1>4, <2>2, <2>3, <3>1, <3>2, <4>1, GoodTold, SMTT(30)
    <3> QED BY <3>3, <3>4
  <2>6. \A t \in Sockets : socket[t].ws \in {"open", "closing"} => socket'[t].ws \in {"open", "closing"}
    BY <1>3, <2>3
  <2>7. Controlled' /\ NoPeers'
    BY <1>3, <2>2, <2>3, Parts DEF Controlled, NoPeers
  <2>8. \A t \in Sockets : NoBye(rest[t])
    BY <1>3, Parts
  <2>9. \A t \in Sockets : NoBye(socket'[t])
    BY <2>3, <2>8, ByeKept
  <2> QED BY <2>2, <2>4, <2>5, <2>6, <2>7, <2>9, Served
<1>6. CASE ~(socket[s].peer # "none" /\ host.writer = s)
  <2>1. host' = [host EXCEPT !.tail = ahead, !.writer = host.writer] /\ socket' = rest
    BY <1>2, <1>6 DEF DetachPeer
  <2>2. host' \in Hosts /\ host'.state = host.state /\ host'.seq = host.seq /\ host'.writer = host.writer
    BY <1>1, <2>1 DEF Hosts
  <2>3. ViewTypes'
    BY <1>3, <2>1, <2>2, Parts DEF ViewTypes
  <2>4. ASSUME NEW b \in Browsers, view[b].stage = "on" PROVE Good(view[b], socket'[view[b].on], host', view[b].on)
    <3>1. PICK t : t = view[b].on
      OBVIOUS
    <3>2. t \in Sockets /\ socket[t] \in Connections /\ Good(view[b], socket[t], host, t) /\ socket[t].ws # "left"
      BY <2>4, <3>1, Each
    <3>3. CASE t = s
      <4>1. socket'[t].peer = "none" /\ socket'[t].down = socket[t].down
        BY <1>3, <2>1, <3>2, <3>3
      <4> QED BY <2>2, <3>1, <3>2, <4>1, GoodShut
    <3>4. CASE t # s
      <4>1. socket'[t] = socket[t]
        BY <1>3, <2>1, <3>2, <3>4
      <4> QED BY <2>2, <3>1, <3>2, <4>1, GoodKept
    <3> QED BY <3>3, <3>4
  <2>5. \A t \in Sockets : socket[t].ws \in {"open", "closing"} => socket'[t].ws \in {"open", "closing"}
    BY <1>3, <2>1
  <2>6. Controlled' /\ NoPeers'
    BY <1>3, <2>1, <2>2, Parts DEF Controlled, NoPeers
  <2>7. \A t \in Sockets : NoBye(socket'[t])
    BY <1>3, <2>1, Parts
  <2> QED BY <2>1, <2>2, <2>3, <2>4, <2>5, <2>6, <2>7, Served
<1> QED BY <1>5, <1>6

-----------------------------------------------------------------------------
(* One socket *)

\* A step of the service that changes one socket, and nothing another socket sees.
LEMMA OneSocket ==
  ASSUME ViewsInv, NEW s \in Sockets, NEW l \in Connections, socket' = [socket EXCEPT ![s] = l], UNCHANGED view,
         host' \in Hosts, host'.seq = host.seq, host'.state = host.state,
         \A t \in Sockets \ {s} : host'.writer = t <=> host.writer = t,
         NoBye(l), socket[s].ws \in {"open", "closing"} => l.ws \in {"open", "closing"},
         \A b \in Browsers : view[b].stage = "on" /\ view[b].on = s => Good(view[b], l, host', s),
         Controlled', host.state = "gone" => l.peer = "none"
  PROVE  ViewsInv'
<1>1. socket' \in [Sockets -> Connections] /\ socket'[s] = l /\ \A t \in Sockets : t # s => socket'[t] = socket[t]
  BY Parts DEF ViewTypes
<1>2. ViewTypes'
  BY <1>1, Parts DEF ViewTypes
<1>3. ASSUME NEW b \in Browsers, view[b].stage = "on" PROVE Good(view[b], socket'[view[b].on], host', view[b].on)
  <2>1. PICK t : t = view[b].on
    OBVIOUS
  <2>2. t \in Sockets /\ Good(view[b], socket[t], host, t)
    BY <1>3, <2>1, Each
  <2>3. CASE t = s
    BY <1>1, <1>3, <2>1, <2>3
  <2>4. CASE t # s
    <3>1. host'.writer = t <=> host.writer = t
      BY <2>2, <2>4
    <3>2. Good(view[b], socket[t], host', t)
      BY <2>2, <3>1, GoodKept
    <3> QED BY <1>1, <2>1, <2>2, <2>4, <3>2
  <2> QED BY <2>3, <2>4
<1>4. \A t \in Sockets : socket[t].ws \in {"open", "closing"} => socket'[t].ws \in {"open", "closing"}
  BY <1>1
<1>5. NoPeers'
  BY <1>1, Parts DEF NoPeers
<1>6. \A t \in Sockets : NoBye(socket'[t])
  BY <1>1, Parts
<1> QED BY <1>2, <1>3, <1>4, <1>5, <1>6, Served

LEMMA GoodFresh ==
  ASSUME NEW v, NEW k \in Connections, NEW l, NEW h, NEW s, Good(v, k, h, s), h.state = "exited" => h.writer # s,
         NEW m \in Downs, m.type = "ready", m.state = h.state, m.writer = h.writer,
         NEW n \in Downs, n.type = "snapshot", n.seq = h.seq,
         NEW e \in Downs, e.type = "exit",
         h.state # "exited" => l.down = Append(Append(k.down, m), n),
         h.state = "exited" => l.down = Append(Append(Append(k.down, m), n), e)
  PROVE  Good(v, l, h, s)
<1>1. k.down \in Seq(Downs) /\ Calm(v, k.down, h)
  BY DEF Connections, Good
<1>2. ~SaysEnd(n) /\ (SaysEnd(m) => h.state = "exited")
  BY DEF SaysEnd
<1>3. Append(k.down, m) \in Seq(Downs) /\ Calm(v, Append(k.down, m), h)
  BY <1>1, <1>2, CalmMore, AppendIs
<1>4. PICK d : d = Append(Append(k.down, m), n)
  OBVIOUS
<1>5. d \in Seq(Downs) /\ Calm(v, d, h)
  BY <1>2, <1>3, <1>4, CalmMore, AppendIs
<1>6. WillShow(v, d, h, s)
  BY <1>1, <1>4, ShowFresh
<1>7. CASE h.state # "exited"
  BY <1>4, <1>5, <1>6, <1>7 DEF Good
<1>8. CASE h.state = "exited"
  <2>1. Calm(v, Append(d, e), h)
    BY <1>5, <1>8, CalmMore
  <2>2. WillShow(v, Append(d, e), h, s)
    BY <1>5, <1>6, <1>8, ShowExited
  <2> QED BY <1>4, <1>8, <2>1, <2>2 DEF Good
<1> QED BY <1>7, <1>8

\* The snapshot: the peer is told all there is to know.
LEMMA KeptSnapshot ==
  ASSUME ViewsInv, host.tail # <<>>, NEW s \in Sockets, SnapshotFor(s), UNCHANGED view
  PROVE  ViewsInv'
<1>1. /\ host \in Hosts /\ host.writer \in Writers /\ host.tail \in Seq(Tasks) /\ host.seq \in Nat
      /\ host.state \in {"running", "closing", "exited", "gone"}
      /\ socket \in [Sockets -> Connections] /\ NoBye(socket[s])
  BY Parts, Typed DEF ViewTypes, Hosts
<1>2. PICK t : t = Tail(host.tail) /\ t \in Seq(Tasks)
  BY <1>1, TailIs
<1>3. PICK k : k = socket[s] /\ k \in Connections
  BY <1>1
<1>4. CASE k.peer # "queued"
  <2>1. DropTask
    BY <1>3, <1>4 DEF SnapshotFor
  <2> QED BY <2>1, KeptDrop
<1>5. CASE k.peer = "queued" /\ k.ws = "closing"
  <2>1. PICK l : l = [k EXCEPT !.peer = "none"]
    OBVIOUS
  <2>2. l \in Connections /\ l.peer = "none" /\ l.ws = k.ws /\ l.down = k.down /\ l.up = k.up
    BY <1>3, <2>1 DEF Connections
  <2>3. DetachPeer(s, l, t)
    BY <1>2, <1>3, <1>5, <2>1 DEF SnapshotFor
  <2>4. NoBye(l)
    BY <1>1, <1>3, <2>2, ByeKept
  <2> QED BY <1>2, <1>3, <2>2, <2>3, <2>4, KeptDetach
<1>6. CASE k.peer = "queued" /\ k.ws # "closing"
  <2>1. PICK m : m = [type |-> "ready", state |-> host.state, writer |-> host.writer] /\ m \in Downs
    BY <1>1, Kinds
  <2>2. m.type = "ready" /\ m.state = host.state /\ m.writer = host.writer
    BY <2>1
  <2>3. PICK n : n = NumberedMessage("snapshot", host.seq) /\ n \in Downs
    BY <1>1, Kinds DEF Numbers
  <2>4. n.type = "snapshot" /\ n.seq = host.seq
    BY <2>3 DEF NumberedMessage
  <2>5. PICK e : e = [type |-> "exit"] /\ e \in Downs
    BY Kinds
  <2>6. e.type = "exit"
    BY <2>5
  <2>7. PICK told : told = SendTo(k, m)
    OBVIOUS
  <2>8. PICK drawn : drawn = SendTo(told, n)
    OBVIOUS
  <2>9. PICK ended : ended = IF host.state = "exited" THEN SendTo(drawn, e) ELSE drawn
    OBVIOUS
  <2>10. PICK l : l = [ended EXCEPT !.peer = "live"]
    OBVIOUS
  <2>11. host' = [host EXCEPT !.tail = t] /\ socket' = [socket EXCEPT ![s] = l]
    BY <1>2, <1>3, <1>6, <2>1, <2>3, <2>5, <2>7, <2>8, <2>9, <2>10 DEF SnapshotFor
  <2>12. /\ told \in Connections /\ told.ws = k.ws /\ told.up = k.up
         /\ k.ws = "open" => told.down = Append(k.down, m)
    BY <1>3, <2>1, <2>7, SendIs
  <2>13. /\ drawn \in Connections /\ drawn.ws = k.ws /\ drawn.up = k.up
         /\ k.ws = "open" => drawn.down = Append(Append(k.down, m), n)
    BY <2>3, <2>8, <2>12, SendIs, SMTT(30)
  <2>14. /\ ended \in Connections /\ ended.ws = k.ws /\ ended.up = k.up
         /\ k.ws = "open" /\ host.state = "exited" => ended.down = Append(Append(Append(k.down, m), n), e)
         /\ k.ws = "open" /\ host.state # "exited" => ended.down = Append(Append(k.down, m), n)
    BY <2>5, <2>9, <2>13, SendIs
  <2>15. l \in Connections /\ l.ws = ended.ws /\ l.up = ended.up /\ l.down = ended.down
    BY <2>10, <2>14 DEF Connections
  <2>16. host' \in Hosts /\ host'.state = host.state /\ host'.seq = host.seq /\ host'.writer = host.writer
    BY <1>1, <1>2, <2>11 DEF Hosts
  <2>17. NoBye(l)
    BY <1>1, <1>3, <2>14, <2>15, ByeKept
  <2>18. host.state = "exited" => host.writer # s
    BY Parts, ViewAssumption DEF Controlled
  <2>19. ASSUME NEW b \in Browsers, view[b].stage = "on" /\ view[b].on = s PROVE Good(view[b], l, host', s)
    <3>1. Good(view[b], k, host, s) /\ k.ws = "open"
      BY <1>3, <1>6, <2>19, Each
    <3>2. /\ host.state = "exited" => l.down = Append(Append(Append(k.down, m), n), e)
          /\ host.state # "exited" => l.down = Append(Append(k.down, m), n)
      BY <2>14, <2>15, <3>1
    <3>3. Good(view[b], l, host, s)
      BY <1>3, <2>1, <2>2, <2>3, <2>4, <2>5, <2>6, <2>18, <3>1, <3>2, GoodFresh, ZenonT(60)
    <3> QED BY <2>16, <3>3, GoodKept
  <2>20. Controlled'
    BY <2>16, Parts DEF Controlled
  <2>21. host.state # "gone"
    BY <1>3, <1>6, Parts DEF NoPeers
  <2> QED BY <1>3, <2>11, <2>14, <2>15, <2>16, <2>17, <2>19, <2>20, <2>21, OneSocket
<1> QED BY <1>4, <1>5, <1>6

LEMMA KeptTask ==
  ASSUME ViewsInv, RunHostTask
  PROVE  ViewsInv'
<1>1. host.tail # <<>> /\ UNCHANGED view
  BY DEF RunHostTask
<1>2. PICK task : task = Head(host.tail)
  OBVIOUS
<1>3. task \in Tasks
  <2>1. host.tail \in Seq(Tasks)
    BY Parts, Typed
  <2> QED BY <1>1, <1>2, <2>1
<1>4. CASE task.op = "output"
  <2>1. Advance("output")
    BY <1>2, <1>4 DEF RunHostTask
  <2> QED BY <1>1, <2>1, KeptAdvance
<1>5. CASE task.op = "snapshot"
  <2>1. SnapshotFor(task.of)
    BY <1>2, <1>5 DEF RunHostTask
  <2>2. task.of \in Sockets
    BY <1>3, <1>5 DEF Tasks, OutputTask
  <2> QED BY <1>1, <2>1, <2>2, KeptSnapshot
<1>6. CASE task.op = "resize"
  <2>1. Advance("resized") \/ DropTask
    BY <1>2, <1>6 DEF RunHostTask
  <2> QED BY <1>1, <2>1, KeptAdvance, KeptDrop
<1>7. task.op \in {"output", "snapshot", "resize"}
  BY <1>3 DEF Tasks, OutputTask
<1> QED BY <1>4, <1>5, <1>6, <1>7

-----------------------------------------------------------------------------
(* What a browser says *)

LEMMA GotIs ==
  ASSUME ViewsInv, NEW s \in Sockets, socket[s].up # <<>>,
         NEW got, got = [socket EXCEPT ![s].up = Tail(@)]
  PROVE  \E k \in Connections :
           /\ got = [socket EXCEPT ![s] = k] /\ got[s] = k /\ got \in [Sockets -> Connections]
           /\ \A t \in Sockets \ {s} : got[t] = socket[t]
           /\ k.ws = socket[s].ws /\ k.peer = socket[s].peer /\ k.down = socket[s].down
                /\ k.up = Tail(socket[s].up)
           /\ NoBye(k)
<1>1. socket \in [Sockets -> Connections] /\ socket[s] \in Connections /\ socket[s].up \in Seq(Ups)
        /\ NoBye(socket[s])
  BY Parts, Typed DEF ViewTypes
<1>2. PICK d : d = Tail(socket[s].up) /\ d \in Seq(Ups)
  BY <1>1, TailIs
<1>3. PICK k : k = [socket[s] EXCEPT !.up = d]
  OBVIOUS
<1>4. k \in Connections /\ k.ws = socket[s].ws /\ k.peer = socket[s].peer /\ k.down = socket[s].down /\ k.up = d
  BY <1>1, <1>2, <1>3 DEF Connections
<1>5. got = [socket EXCEPT ![s] = k]
  BY <1>1, <1>2, <1>3
<1>6. got[s] = k /\ got \in [Sockets -> Connections] /\ \A t \in Sockets \ {s} : got[t] = socket[t]
  BY <1>1, <1>4, <1>5
<1>7. NoBye(k)
  BY <1>1, <1>2, <1>4, ByeRest
<1> QED BY <1>2, <1>4, <1>5, <1>6, <1>7

\* What changes of a socket when only what the browser said is taken, or the socket is closed too.
LEMMA KeptTaken ==
  ASSUME ViewsInv, NEW s \in Sockets, NEW k \in Connections, NEW l,
         k.ws = socket[s].ws, k.peer = socket[s].peer, k.down = socket[s].down, NoBye(k),
         l = k \/ l = CloseSocket(k),
         socket' = [socket EXCEPT ![s] = l], UNCHANGED view,
         host' \in Hosts, host'.seq = host.seq, host'.state = host.state, host'.writer = host.writer
  PROVE  ViewsInv'
<1>1. /\ l \in Connections /\ l.peer = k.peer /\ l.up = k.up
      /\ l = k \/ (l.ws # "open" /\ (l.down = k.down \/ l.down = Append(k.down, [type |-> "close"])))
      /\ k.ws = "left" => l.ws = "left"
      /\ k.ws \in {"open", "closing"} => l.ws \in {"open", "closing"}
  BY CloseIs
<1>2. NoBye(l)
  BY <1>1, ByeKept
<1>3. ASSUME NEW b \in Browsers, view[b].stage = "on" /\ view[b].on = s PROVE Good(view[b], l, host', s)
  <2>1. Good(view[b], socket[s], host, s)
    BY <1>3, Each
  <2>2. Good(view[b], k, host, s)
    BY <2>1, GoodKept
  <2>3. CASE l = k
    BY <2>2, <2>3, GoodKept
  <2>4. CASE l.ws # "open" /\ (l.down = k.down \/ l.down = Append(k.down, [type |-> "close"]))
    BY <2>2, <2>4, GoodShut
  <2> QED BY <1>1, <2>3, <2>4
<1>4. Controlled'
  BY Parts DEF Controlled
<1>5. host.state = "gone" => l.peer = "none"
  BY <1>1, Parts DEF NoPeers
<1> QED BY <1>1, <1>2, <1>3, <1>4, <1>5, OneSocket

LEMMA KeptAttach ==
  ASSUME ViewsInv, NEW s \in Sockets, NEW k \in Connections,
         k.ws = socket[s].ws, k.peer = socket[s].peer, k.down = socket[s].down, NoBye(k),
         NEW got \in [Sockets -> Connections], got = [socket EXCEPT ![s] = k], got[s] = k,
         NEW lapsed \in BOOLEAN, HandleAttach(s, got, lapsed), UNCHANGED view
  PROVE  ViewsInv'
<1>1. host \in Hosts /\ host.tail \in Seq(Tasks) /\ host.writer \in Writers /\ socket \in [Sockets -> Connections]
  BY Parts, Typed DEF ViewTypes
<1>2. CASE ~(host.state \in {"running", "exited"} /\ ~lapsed)
  <2>1. RefuseMessage(s, got)
    BY <1>2 DEF HandleAttach
  <2>2. PICK l : l = CloseSocket(k)
    OBVIOUS
  <2>3. socket' = [socket EXCEPT ![s] = l] /\ UNCHANGED host
    BY <1>1, <2>1, <2>2 DEF RefuseMessage
  <2> QED BY <1>1, <2>2, <2>3, KeptTaken
<1>3. CASE host.state \in {"running", "exited"} /\ ~lapsed
  <2>1. TaskOf("snapshot", s) \in Tasks
    BY DEF TaskOf, Tasks
  <2>2. PICK t : t = Append(host.tail, TaskOf("snapshot", s)) /\ t \in Seq(Tasks)
    <3>1. Append(host.tail, TaskOf("snapshot", s)) \in Seq(Tasks)
      BY <1>1, <2>1, AppendIs
    <3> QED BY <3>1
  <2>3. PICK w : w = (IF host.state = "running" /\ host.writer = NoSocket THEN s ELSE host.writer)
    OBVIOUS
  <2>4. w \in Writers /\ (\A x \in Sockets \ {s} : w = x <=> host.writer = x)
          /\ (w = host.writer \/ host.state = "running")
    BY <1>1, <2>3, ViewAssumption DEF Writers
  <2>5. PICK l : l = [k EXCEPT !.peer = "queued"]
    OBVIOUS
  <2>6. l \in Connections /\ l.ws = k.ws /\ l.peer = "queued" /\ l.down = k.down /\ l.up = k.up
    BY <2>5 DEF Connections
  <2>7. host' = [host EXCEPT !.tail = t, !.writer = w]
    BY <1>3, <2>2, <2>3 DEF HandleAttach
  <2>8. socket' = [socket EXCEPT ![s] = l]
    BY <1>1, <1>3, <2>5 DEF HandleAttach
  <2>9. host' \in Hosts /\ host'.seq = host.seq /\ host'.state = host.state /\ host'.writer = w
    BY <1>1, <2>2, <2>4, <2>7 DEF Hosts
  <2>10. NoBye(l)
    BY <2>6, ByeKept
  <2>11. ASSUME NEW b \in Browsers, view[b].stage = "on" /\ view[b].on = s PROVE Good(view[b], l, host', s)
    <3>1. Good(view[b], socket[s], host, s) /\ socket[s] \in Connections
      BY <2>11, Each
    <3>2. l.down = socket[s].down /\ l.peer # "live" /\ (host.state # "running" => host'.state # "running")
      BY <2>6, <2>9
    <3> QED BY <3>1, <3>2, GoodShut
  <2>12. Controlled'
    BY <2>4, <2>9, Parts DEF Controlled
  <2> QED BY <1>3, <2>4, <2>6, <2>8, <2>9, <2>10, <2>11, <2>12, OneSocket, ZenonT(60)
<1> QED BY <1>2, <1>3

LEMMA KeptControl ==
  ASSUME ViewsInv, NEW s \in Sockets, NEW k \in Connections,
         k.ws = socket[s].ws, k.peer = socket[s].peer, k.down = socket[s].down, NoBye(k),
         NEW got \in [Sockets -> Connections], got[s] = k,
         \A t \in Sockets \ {s} : got[t] = socket[t],
         HandleTakeControl(s, got), UNCHANGED view
  PROVE  ViewsInv'
<1>1. host \in Hosts /\ s \in Writers /\ socket \in [Sockets -> Connections]
  BY Parts, Typed DEF ViewTypes, Writers
<1>2. CASE ~(host.state = "running" /\ socket[s].peer # "none")
  <2>1. socket' = got /\ UNCHANGED host
    BY <1>2 DEF HandleTakeControl
  <2>2. socket' = [socket EXCEPT ![s] = k]
    BY <1>1, <2>1
  <2> QED BY <1>1, <2>1, <2>2, KeptTaken
<1>3. CASE host.state = "running" /\ socket[s].peer # "none"
  <2>1. PICK m : m = ControlOf(s) /\ m \in Downs
    BY <1>1, Kinds
  <2>2. host' = [host EXCEPT !.writer = s] /\ socket' = BroadcastTo(got, m)
    BY <1>3, <2>1 DEF HandleTakeControl
  <2>3. host' \in Hosts /\ host'.state = host.state /\ host'.seq = host.seq /\ host'.writer = s
    BY <1>1, <2>2 DEF Hosts
  <2>4. /\ socket' \in [Sockets -> Connections]
        /\ \A t \in Sockets :
             /\ socket'[t].ws = got[t].ws /\ socket'[t].peer = got[t].peer /\ socket'[t].up = got[t].up
             /\ got[t].ws = "open" /\ got[t].peer = "live" => socket'[t].down = Append(got[t].down, m)
             /\ ~(got[t].ws = "open" /\ got[t].peer = "live") => socket'[t].down = got[t].down
    BY <2>1, <2>2, BroadcastIs
  <2>5. ViewTypes'
    BY <2>3, <2>4, Parts DEF ViewTypes
  <2>6. ASSUME NEW b \in Browsers, view[b].stage = "on" PROVE Good(view[b], socket'[view[b].on], host', view[b].on)
    <3>1. PICK t : t = view[b].on
      OBVIOUS
    <3>2. t \in Sockets /\ Good(view[b], socket[t], host, t)
      BY <2>6, <3>1, Each
    <3>3. got[t] \in Connections /\ Good(view[b], got[t], host, t)
      <4>1. CASE t = s
        BY <3>2, <4>1, GoodKept
      <4>2. CASE t # s
        BY <3>2, <4>2
      <4> QED BY <3>2, <4>1, <4>2
    <3>4. Good(view[b], socket'[t], host', t)
      BY <1>1, <2>1, <2>3, <2>4, <3>2, <3>3, GoodTold
    <3> QED BY <3>1, <3>4
  <2>7. \A t \in Sockets : got[t].ws = socket[t].ws /\ got[t].peer = socket[t].peer /\ NoBye(got[t])
    BY Parts
  <2>8. \A t \in Sockets : socket[t].ws \in {"open", "closing"} => socket'[t].ws \in {"open", "closing"}
    BY <2>4, <2>7
  <2>9. Controlled' /\ NoPeers'
    BY <1>3, <2>3 DEF Controlled, NoPeers
  <2>10. \A t \in Sockets : NoBye(socket'[t])
    BY <2>4, <2>7, ByeKept
  <2> QED BY <1>3, <2>2, <2>5, <2>6, <2>8, <2>9, <2>10, Served
<1> QED BY <1>2, <1>3

LEMMA Freed ==
  FreeSocket \in Connections /\ FreeSocket.peer = "none" /\ NoBye(FreeSocket) /\ FreeSocket.ws = "free"
  /\ FreeSocket.down = <<>> /\ FreeSocket.up = <<>>
<1>1. <<>> \in Seq(Downs) /\ <<>> \in Seq(Ups)
  OBVIOUS
<1> QED BY <1>1 DEF FreeSocket, Connections, NoBye

LEMMA KeptUp ==
  ASSUME ViewsInv, NEW s \in Sockets, HandleUp(s)
  PROVE  ViewsInv'
<1>1. PICK got : got = [socket EXCEPT ![s].up = Tail(@)]
  OBVIOUS
<1>2. socket[s].up # <<>> /\ UNCHANGED view
  BY DEF HandleUp
<1>3. PICK k \in Connections :
        /\ got = [socket EXCEPT ![s] = k] /\ got[s] = k /\ got \in [Sockets -> Connections]
        /\ \A t \in Sockets \ {s} : got[t] = socket[t]
        /\ k.ws = socket[s].ws /\ k.peer = socket[s].peer /\ k.down = socket[s].down /\ k.up = Tail(socket[s].up)
        /\ NoBye(k)
  BY <1>1, <1>2, GotIs, ZenonT(60)
<1>4. PICK message : message = Head(socket[s].up)
  OBVIOUS
<1>5. message \in Ups
  <2>1. socket[s].up \in Seq(Ups)
    BY Parts, Typed
  <2> QED BY <1>2, <1>4, <2>1
<1>6. /\ host \in Hosts /\ host.tail \in Seq(Tasks) /\ socket \in [Sockets -> Connections]
  BY Parts, Typed DEF ViewTypes
<1>7. CASE message.type = "attach"
  <2>1. HandleAttach(s, got, FALSE) \/ HandleAttach(s, got, TRUE)
    BY <1>1, <1>4, <1>7 DEF HandleUp
  <2> QED BY <1>2, <1>3, <2>1, KeptAttach
<1>8. CASE message.type = "input"
  <2>1. (socket' = got /\ UNCHANGED host) \/ RefuseMessage(s, got)
    BY <1>1, <1>4, <1>8 DEF HandleUp
  <2>2. CASE socket' = got /\ UNCHANGED host
    BY <1>2, <1>3, <1>6, <2>2, KeptTaken
  <2>3. CASE RefuseMessage(s, got)
    <3>1. PICK l : l = CloseSocket(k)
      OBVIOUS
    <3>2. socket' = [socket EXCEPT ![s] = l] /\ UNCHANGED host
      BY <1>3, <1>6, <2>3, <3>1 DEF RefuseMessage
    <3> QED BY <1>2, <1>3, <1>6, <3>1, <3>2, KeptTaken
  <2> QED BY <2>1, <2>2, <2>3
<1>9. CASE message.type = "resize"
  <2>1. TaskOf("resize", s) \in Tasks
    BY DEF TaskOf, Tasks
  <2>2. PICK t : t = Append(host.tail, TaskOf("resize", s)) /\ t \in Seq(Tasks)
    <3>1. Append(host.tail, TaskOf("resize", s)) \in Seq(Tasks)
      BY <1>6, <2>1, AppendIs
    <3> QED BY <3>1
  <2>3. (host' = [host EXCEPT !.tail = t] \/ host' = host) /\ socket' = got
    BY <1>1, <1>4, <1>9, <2>2 DEF HandleUp
  <2>4. host' \in Hosts /\ host'.seq = host.seq /\ host'.state = host.state /\ host'.writer = host.writer
    BY <1>6, <2>2, <2>3 DEF Hosts
  <2> QED BY <1>2, <1>3, <2>3, <2>4, KeptTaken
<1>10. CASE message.type = "takeControl"
  <2>1. HandleTakeControl(s, got)
    BY <1>1, <1>4, <1>10 DEF HandleUp
  <2> QED BY <1>2, <1>3, <2>1, KeptControl
<1>11. CASE message.type = "close"
  <2>1. DetachPeer(s, FreeSocket, host.tail)
    BY <1>1, <1>4, <1>11 DEF HandleUp
  <2>2. socket[s].ws = "left"
    <3>1. PICK d : d = socket[s].up /\ d \in Seq(Ups) /\ d # <<>>
      BY <1>2, Parts, Typed
    <3>2. 1 \in 1..Len(d) /\ d[1] = message
      BY <1>4, <3>1
    <3>3. NoBye(socket[s])
      BY Parts
    <3> QED BY <1>11, <3>1, <3>2, <3>3 DEF NoBye
  <2> QED BY <1>2, <1>6, <2>1, <2>2, Freed, KeptDetach
<1>12. message.type \in {"attach", "input", "resize", "takeControl", "close"}
  BY <1>5 DEF Ups
<1> QED BY <1>7, <1>8, <1>9, <1>10, <1>11, <1>12

LEMMA KeptHeartbeat ==
  ASSUME ViewsInv, NEW s \in Sockets, SocketHeartbeat(s)
  PROVE  ViewsInv'
<1>1. DetachPeer(s, FreeSocket, host.tail) /\ socket[s].ws = "left" /\ UNCHANGED view
  BY DEF SocketHeartbeat
<1>2. host.tail \in Seq(Tasks)
  BY Parts, Typed
<1> QED BY <1>1, <1>2, Freed, KeptDetach

LEMMA KeptGivesUp ==
  ASSUME ViewsInv, NEW s \in Sockets, ServerGivesUp(s)
  PROVE  ViewsInv'
<1>1. socket \in [Sockets -> Connections] /\ host \in Hosts /\ socket[s] \in Connections /\ NoBye(socket[s])
  BY Parts, Typed DEF ViewTypes
<1>2. PICK l : l = CloseSocket(socket[s])
  OBVIOUS
<1>3. socket' = [socket EXCEPT ![s] = l] /\ UNCHANGED <<host, view>>
  BY <1>1, <1>2 DEF ServerGivesUp
<1> QED BY <1>1, <1>2, <1>3, KeptTaken

-----------------------------------------------------------------------------
(* The end of the terminal *)

LEMMA KeptCloses ==
  ASSUME ViewsInv, HostCloses
  PROVE  ViewsInv'
<1>1. host \in Hosts /\ NoSocket \in Writers /\ socket \in [Sockets -> Connections]
  BY Parts, Typed DEF ViewTypes, Writers
<1>2. PICK m : m = [type |-> "closing"] /\ m \in Downs
  BY Kinds
<1>3. host' = [host EXCEPT !.state = "closing", !.writer = NoSocket] /\ socket' = BroadcastTo(socket, m)
        /\ UNCHANGED view
  BY <1>2 DEF HostCloses
<1>4. host' \in Hosts /\ host'.state = "closing" /\ host'.seq = host.seq /\ host'.writer = NoSocket
  BY <1>1, <1>3 DEF Hosts
<1>5. /\ socket' \in [Sockets -> Connections]
      /\ \A t \in Sockets :
           /\ socket'[t].ws = socket[t].ws /\ socket'[t].peer = socket[t].peer /\ socket'[t].up = socket[t].up
           /\ socket[t].ws = "open" /\ socket[t].peer = "live" => socket'[t].down = Append(socket[t].down, m)
           /\ ~(socket[t].ws = "open" /\ socket[t].peer = "live") => socket'[t].down = socket[t].down
  BY <1>1, <1>2, <1>3, BroadcastIs
<1>6. ViewTypes'
  BY <1>3, <1>4, <1>5, Parts DEF ViewTypes
<1>7. ASSUME NEW b \in Browsers, view[b].stage = "on" PROVE Good(view[b], socket'[view[b].on], host', view[b].on)
  <2>1. PICK t : t = view[b].on
    OBVIOUS
  <2>2. t \in Sockets /\ socket[t] \in Connections /\ Good(view[b], socket[t], host, t)
    BY <1>7, <2>1, Each
  <2>3. host'.writer # t
    BY <1>4, <2>2, ViewAssumption
  <2>4. Good(view[b], socket'[t], host', t)
    BY <1>2, <1>4, <1>5, <2>2, <2>3, GoodClosing
  <2> QED BY <2>1, <2>4
<1>8. Controlled' /\ NoPeers' /\ host'.state # "running"
  BY <1>4 DEF Controlled, NoPeers
<1>9. \A t \in Sockets : NoBye(socket'[t])
  BY <1>5, Parts, ByeKept
<1>10. \A t \in Sockets : socket[t].ws \in {"open", "closing"} => socket'[t].ws \in {"open", "closing"}
  BY <1>5
<1> QED BY <1>3, <1>6, <1>7, <1>8, <1>9, <1>10, Served

LEMMA KeptExits ==
  ASSUME ViewsInv, HostExits
  PROVE  ViewsInv'
<1>1. host \in Hosts /\ socket \in [Sockets -> Connections]
  BY Parts, Typed DEF ViewTypes
<1>2. PICK m : m = [type |-> "exit"] /\ m \in Downs
  BY Kinds
<1>3. PICK told : told = BroadcastTo(socket, m)
  OBVIOUS
<1>4. /\ host' = [host EXCEPT !.state = "exited"] \/ host' = [host EXCEPT !.state = "gone"]
      /\ socket' = DisconnectPeers(told) /\ UNCHANGED view /\ host.state = "closing"
  BY <1>2, <1>3 DEF HostExits
<1>5. host' \in Hosts /\ host'.state \in {"exited", "gone"} /\ host'.seq = host.seq /\ host'.writer = host.writer
  BY <1>1, <1>4 DEF Hosts
<1>6. /\ told \in [Sockets -> Connections]
      /\ \A t \in Sockets :
           /\ told[t].ws = socket[t].ws /\ told[t].peer = socket[t].peer /\ told[t].up = socket[t].up
           /\ told[t].down = Append(socket[t].down, m) \/ told[t].down = socket[t].down
  BY <1>1, <1>2, <1>3, BroadcastIs
<1>7. /\ socket' \in [Sockets -> Connections]
      /\ \A t \in Sockets :
           /\ socket'[t].peer = "none" /\ socket'[t].up = told[t].up
           /\ socket'[t].ws = told[t].ws \/ (told[t].ws = "open" /\ socket'[t].ws = "closing")
           /\ socket'[t].down = told[t].down \/ socket'[t].down = Append(told[t].down, [type |-> "close"])
  BY <1>4, <1>6, DisconnectIs
<1>8. ViewTypes'
  BY <1>4, <1>5, <1>7, Parts DEF ViewTypes
<1>9. ASSUME NEW b \in Browsers, view[b].stage = "on" PROVE Good(view[b], socket'[view[b].on], host', view[b].on)
  <2>1. PICK t : t = view[b].on
    OBVIOUS
  <2>2. t \in Sockets /\ socket[t] \in Connections /\ Good(view[b], socket[t], host, t)
    BY <1>9, <2>1, Each
  <2>3. PICK d : d = told[t].down
    OBVIOUS
  <2>4. d = socket[t].down \/ d = Append(socket[t].down, [type |-> "exit"])
    BY <1>2, <1>6, <2>2, <2>3
  <2>5. socket'[t].peer = "none" /\ (socket'[t].down = d \/ socket'[t].down = Append(d, [type |-> "close"]))
    BY <1>7, <2>2, <2>3
  <2>6. host'.state # "running"
    BY <1>5
  <2>7. Good(view[b], socket'[t], host', t)
    BY <2>2, <2>4, <2>5, <2>6, GoodExit
  <2> QED BY <2>1, <2>7
<1>10. Controlled' /\ NoPeers' /\ host'.state # "running"
  BY <1>4, <1>5, <1>7, Parts DEF Controlled, NoPeers
<1>11. \A t \in Sockets : socket'[t].up = socket[t].up /\ (socket[t].ws = "left" => socket'[t].ws = "left")
  BY <1>6, <1>7
<1>12. \A t \in Sockets : NoBye(socket'[t])
  BY <1>11, Parts, ByeKept
<1>13. \A t \in Sockets : socket[t].ws \in {"open", "closing"} => socket'[t].ws \in {"open", "closing"}
  BY <1>6, <1>7
<1> QED BY <1>4, <1>8, <1>9, <1>10, <1>12, <1>13, Served

LEMMA KeptDrops ==
  ASSUME ViewsInv, UserDropsHost
  PROVE  ViewsInv'
<1>1. host \in Hosts /\ socket \in [Sockets -> Connections]
  BY Parts, Typed DEF ViewTypes
<1>2. /\ host' = [host EXCEPT !.state = "gone"]
      /\ socket' = DisconnectPeers(socket) /\ UNCHANGED view /\ host.state = "exited"
  BY DEF UserDropsHost
<1>3. host' \in Hosts /\ host'.state = "gone" /\ host'.seq = host.seq /\ host'.writer = host.writer
  BY <1>1, <1>2 DEF Hosts
<1>4. /\ socket' \in [Sockets -> Connections]
      /\ \A t \in Sockets :
           /\ socket'[t].peer = "none" /\ socket'[t].up = socket[t].up
           /\ socket'[t].ws = socket[t].ws \/ (socket[t].ws = "open" /\ socket'[t].ws = "closing")
           /\ socket'[t].down = socket[t].down \/ socket'[t].down = Append(socket[t].down, [type |-> "close"])
  BY <1>1, <1>2, DisconnectIs
<1>5. ViewTypes'
  BY <1>2, <1>3, <1>4, Parts DEF ViewTypes
<1>6. ASSUME NEW b \in Browsers, view[b].stage = "on" PROVE Good(view[b], socket'[view[b].on], host', view[b].on)
  <2>1. PICK t : t = view[b].on
    OBVIOUS
  <2>2. t \in Sockets /\ socket[t] \in Connections /\ Good(view[b], socket[t], host, t)
    BY <1>6, <2>1, Each
  <2>3. socket'[t].peer # "live" /\ (host.state # "running" => host'.state # "running")
    BY <1>3, <1>4, <2>2
  <2>4. socket'[t].down = socket[t].down \/ socket'[t].down = Append(socket[t].down, [type |-> "close"])
    BY <1>4, <2>2
  <2>5. Good(view[b], socket'[t], host', t)
    BY <2>2, <2>3, <2>4, GoodShut
  <2> QED BY <2>1, <2>5
<1>7. Controlled' /\ NoPeers' /\ host'.state # "running"
  BY <1>2, <1>3, <1>4, Parts DEF Controlled, NoPeers
<1>8. \A t \in Sockets : NoBye(socket'[t])
  BY <1>4, Parts, ByeKept
<1>9. \A t \in Sockets : socket[t].ws \in {"open", "closing"} => socket'[t].ws \in {"open", "closing"}
  BY <1>4
<1> QED BY <1>2, <1>5, <1>6, <1>7, <1>8, <1>9, Served

-----------------------------------------------------------------------------
(* The browsers *)

LEMMA Leaving ==
  ASSUME NEW k \in Connections, NEW said \in Seq(Ups), NEW l, l = LeaveSocket(k, said)
  PROVE  l \in Connections /\ l.ws = "left" /\ l.peer = k.peer /\ NoBye(l)
<1>1. l = [k EXCEPT !.ws = "left", !.down = <<>>, !.up = said] /\ <<>> \in Seq(Downs)
  BY DEF LeaveSocket
<1>2. l \in Connections /\ l.ws = "left" /\ l.peer = k.peer
  BY <1>1 DEF Connections
<1> QED BY <1>2 DEF NoBye

LEMMA Saying ==
  ASSUME NEW k \in Connections, NEW l, l = Say(k)
  PROVE  l \in Connections /\ l.ws = "left" /\ l.peer = k.peer /\ NoBye(l)
<1>1. k.up \in Seq(Ups) /\ [type |-> "close"] \in Ups
  BY DEF Connections, Ups
<1>2. PICK said : said = Append(k.up, [type |-> "close"]) /\ said \in Seq(Ups)
  BY <1>1, AppendIs
<1>3. l = LeaveSocket(k, said)
  BY <1>2 DEF Say
<1> QED BY <1>2, <1>3, Leaving

LEMMA Offed ==
  ASSUME NEW v \in Views, NEW w, w = Off(v)
  PROVE  w \in Views /\ w.stage # "on" /\ ~w.drawing /\ ~w.ready /\ w.ended = v.ended
<1>1. PICK st : st = (IF v.ended THEN "off" ELSE "asking") /\ st \in {"off", "asking"}
  OBVIOUS
<1>2. w = [v EXCEPT !.stage = st, !.on = NoSocket, !.ready = FALSE, !.writer = FALSE, !.readOnly = TRUE,
        !.drawing = FALSE]
  BY <1>1 DEF Off
<1>3. NoSocket \in Writers
  BY DEF Writers
<1>4. w \in Views
  BY <1>1, <1>2, <1>3 DEF Views
<1>5. w.stage = st /\ ~w.drawing /\ ~w.ready /\ w.ended = v.ended
  BY <1>2 DEF Views
<1> QED BY <1>1, <1>4, <1>5

LEMMA Fresh ==
  ASSUME NEW st \in {"asking", "gone"}, NEW no \in BOOLEAN, NEW yes \in BOOLEAN, NEW w,
         w = [stage |-> st, on |-> NoSocket, ready |-> no, writer |-> no, readOnly |-> yes,
              ended |-> no, sequence |-> 0, drawing |-> no]
  PROVE  w \in Views /\ w.stage = st /\ w.drawing = no /\ w.ready = no /\ w.ended = no
<1>1. NoSocket \in Writers
  BY DEF Writers
<1>2. w \in Views
  BY <1>1 DEF Views
<1> QED BY <1>2

LEMMA NewIs ==
  ASSUME NEW st \in {"asking", "gone"}, NEW w,
         w = [stage |-> st, on |-> NoSocket, ready |-> FALSE, writer |-> FALSE, readOnly |-> TRUE,
              ended |-> FALSE, sequence |-> 0, drawing |-> FALSE]
  PROVE  w \in Views /\ w.stage = st /\ ~w.drawing /\ ~w.ready /\ ~w.ended
<1>1. w \in Views /\ w.stage = st /\ w.drawing = FALSE /\ w.ready = FALSE /\ w.ended = FALSE
  BY Fresh, Zenon
<1> QED BY <1>1, Zenon

LEMMA Viewed ==
  ASSUME ViewsInv, NEW b \in Browsers
  PROVE  /\ view[b] \in Views /\ view \in [Browsers -> Views] /\ socket \in [Sockets -> Connections]
         /\ view[b].ended => host.state # "running"
         /\ view[b].drawing \/ view[b].ready => view[b].stage = "on"
BY DEF ViewsInv, ViewTypes, NotEarly, OnSockets

\* A browser leaves the socket its view may be on.
LEMMA ViewLeft ==
  ASSUME ViewsInv, NEW b \in Browsers, NEW w \in Views, w.stage # "on", ~w.drawing, ~w.ready,
         w.ended => view[b].ended, view' = [view EXCEPT ![b] = w], UNCHANGED host,
         socket' \in [Sockets -> Connections],
         \A t \in Sockets : ~(view[b].stage = "on" /\ view[b].on = t) => socket'[t] = socket[t],
         \A t \in Sockets : socket'[t].peer = socket[t].peer /\ NoBye(socket'[t])
  PROVE  ViewsInv'
<1>1. view' \in [Browsers -> Views] /\ view'[b] = w /\ \A c \in Browsers : c # b => view'[c] = view[c]
  BY Viewed
<1>2. ViewTypes'
  BY <1>1, Parts DEF ViewTypes
<1>3. ASSUME NEW c \in Browsers, view'[c].stage = "on"
      PROVE  c # b /\ view[c].stage = "on" /\ view'[c] = view[c] /\ view[c].on \in Sockets
               /\ socket'[view[c].on] = socket[view[c].on]
  <2>1. c # b /\ view'[c] = view[c]
    BY <1>1, <1>3
  <2>2. view[c].on \in Sockets
    BY <1>3, <2>1, Each
  <2>3. ~(view[b].stage = "on" /\ view[b].on = view[c].on)
    BY <1>3, <2>1 DEF ViewsInv, OnSockets
  <2> QED BY <1>3, <2>1, <2>2, <2>3
<1>4. Goods'
  <2>1. ASSUME NEW c \in Browsers, view'[c].stage = "on"
        PROVE  Good(view'[c], socket'[view'[c].on], host', view'[c].on)
    BY <1>3, <2>1, Each
  <2> QED BY <2>1 DEF Goods
<1>5. OnSockets'
  <2>1. \A c \in Browsers : view'[c].drawing \/ view'[c].ready => view'[c].stage = "on"
    BY <1>1, Viewed
  <2>2. ASSUME NEW c \in Browsers, view'[c].stage = "on"
        PROVE  view'[c].on \in Sockets /\ socket'[view'[c].on].ws \in {"open", "closing"}
    BY <1>3, <2>2, Each
  <2>3. ASSUME NEW a \in Browsers, NEW c \in Browsers, view'[a].stage = "on" /\ view'[c].stage = "on" /\ a # c
        PROVE  view'[a].on # view'[c].on
    BY <1>3, <2>3 DEF ViewsInv, OnSockets
  <2> QED BY <2>1, <2>2, <2>3 DEF OnSockets
<1>6. NotEarly'
  <2>1. ASSUME NEW c \in Browsers, view'[c].ended PROVE host.state # "running"
    BY <1>1, <2>1, Viewed
  <2> QED BY <2>1 DEF NotEarly
<1>7. Controlled' /\ NoPeers'
  BY Parts DEF Controlled, NoPeers
<1>8. SaysBye'
  BY DEF SaysBye, NoBye
<1> QED BY <1>2, <1>4, <1>5, <1>6, <1>7, <1>8 DEF ViewsInv

\* A browser stays on its socket, or comes on one that was free.
LEMMA ViewStays ==
  ASSUME ViewsInv, NEW b \in Browsers, NEW s \in Sockets, NEW w \in Views, NEW l \in Connections,
         w.stage = "on", w.on = s, w.ended => host.state # "running",
         (view[b].stage = "on" /\ view[b].on = s) \/ socket[s].ws = "free",
         view' = [view EXCEPT ![b] = w], socket' = [socket EXCEPT ![s] = l], UNCHANGED host,
         l.ws \in {"open", "closing"}, l.peer = socket[s].peer \/ l.peer = "none", NoBye(l), Good(w, l, host, s)
  PROVE  ViewsInv'
<1>1. view' \in [Browsers -> Views] /\ view'[b] = w /\ \A c \in Browsers : c # b => view'[c] = view[c]
  BY Viewed
<1>2. socket' \in [Sockets -> Connections] /\ socket'[s] = l /\ \A t \in Sockets : t # s => socket'[t] = socket[t]
  BY Viewed
<1>3. ViewTypes'
  BY <1>1, <1>2, Parts DEF ViewTypes
<1>4. ASSUME NEW c \in Browsers, c # b, view'[c].stage = "on"
      PROVE  /\ view[c].stage = "on" /\ view'[c] = view[c] /\ view[c].on \in Sockets /\ view[c].on # s
             /\ socket'[view[c].on] = socket[view[c].on]
  <2>1. view'[c] = view[c] /\ view[c].stage = "on"
    BY <1>1, <1>4
  <2>2. view[c].on \in Sockets /\ socket[view[c].on].ws \in {"open", "closing"}
    BY <2>1, Each
  <2>3. view[c].on # s
    <3>1. CASE view[b].stage = "on" /\ view[b].on = s
      BY <1>4, <2>1, <3>1 DEF ViewsInv, OnSockets
    <3>2. CASE socket[s].ws = "free"
      BY <2>2, <3>2
    <3> QED BY <3>1, <3>2
  <2> QED BY <1>2, <2>1, <2>2, <2>3
<1>5. ASSUME NEW c \in Browsers, view'[c].stage = "on"
      PROVE  Good(view'[c], socket'[view'[c].on], host', view'[c].on)
  <2>1. CASE c = b
    BY <1>1, <1>2, <2>1
  <2>2. CASE c # b
    BY <1>4, <1>5, <2>2, Each
  <2> QED BY <2>1, <2>2
<1>6. OnSockets'
  <2>1. \A c \in Browsers : view'[c].drawing \/ view'[c].ready => view'[c].stage = "on"
    BY <1>1, Viewed
  <2>2. ASSUME NEW c \in Browsers, view'[c].stage = "on"
        PROVE  view'[c].on \in Sockets /\ socket'[view'[c].on].ws \in {"open", "closing"}
    <3>1. CASE c = b
      BY <1>1, <1>2, <3>1
    <3>2. CASE c # b
      BY <1>4, <2>2, <3>2, Each
    <3> QED BY <3>1, <3>2
  <2>3. ASSUME NEW a \in Browsers, NEW c \in Browsers, view'[a].stage = "on" /\ view'[c].stage = "on" /\ a # c
        PROVE  view'[a].on # view'[c].on
    <3>1. CASE a = b
      BY <1>1, <1>4, <2>3, <3>1
    <3>2. CASE c = b
      BY <1>1, <1>4, <2>3, <3>2
    <3>3. CASE a # b /\ c # b
      BY <1>4, <2>3, <3>3 DEF ViewsInv, OnSockets
    <3> QED BY <3>1, <3>2, <3>3
  <2> QED BY <2>1, <2>2, <2>3 DEF OnSockets
<1>7. NotEarly'
  <2>1. ASSUME NEW c \in Browsers, view'[c].ended PROVE host.state # "running"
    BY <1>1, <2>1, Viewed
  <2> QED BY <2>1 DEF NotEarly
<1>8. Controlled' /\ NoPeers'
  BY <1>2, Parts DEF Controlled, NoPeers
<1>9. SaysBye'
  <2>1. \A t \in Sockets : NoBye(socket'[t])
    BY <1>2, Parts
  <2> QED BY <2>1 DEF SaysBye, NoBye
<1> QED BY <1>3, <1>5, <1>6, <1>7, <1>8, <1>9 DEF ViewsInv, Goods

LEMMA FitIs ==
  ASSUME NEW ks \in [Sockets -> Connections], NEW v, v.on \in Sockets, NoBye(ks[v.on])
  PROVE  \E l \in Connections : /\ FitAndResize(ks, v) = [ks EXCEPT ![v.on] = l]
                                /\ l.ws = ks[v.on].ws /\ l.peer = ks[v.on].peer /\ l.down = ks[v.on].down
                                     /\ NoBye(l)
<1>1. PICK s, k : s = v.on /\ k = ks[s] /\ k \in Connections
  OBVIOUS
<1>2. CASE ~(v.ready /\ v.writer)
  <2>1. FitAndResize(ks, v) = [ks EXCEPT ![s] = k]
    BY <1>1, <1>2 DEF FitAndResize
  <2> QED BY <1>1, <2>1
<1>3. CASE v.ready /\ v.writer
  <2>1. k.up \in Seq(Ups) /\ [type |-> "resize"] \in Ups
    BY <1>1 DEF Connections, Ups
  <2>2. PICK m : m = [type |-> "resize"] /\ m \in Ups /\ m.type # "close"
    BY <2>1
  <2>3. PICK d : d = Append(k.up, m) /\ d \in Seq(Ups)
    <3>1. Append(k.up, m) \in Seq(Ups)
      BY <2>1, <2>2, AppendIs
    <3> QED BY <3>1
  <2>4. PICK l : l = [k EXCEPT !.up = d]
    OBVIOUS
  <2>5. l \in Connections /\ l.ws = k.ws /\ l.peer = k.peer /\ l.down = k.down /\ l.up = d
    BY <1>1, <2>3, <2>4 DEF Connections
  <2>6. FitAndResize(ks, v) = [ks EXCEPT ![s] = l]
    BY <1>1, <1>3, <2>2, <2>3, <2>4 DEF FitAndResize
  <2>7. NoBye(l)
    BY <1>1, <2>2, <2>3, <2>5, ByeMore
  <2> QED BY <1>1, <2>5, <2>6, <2>7
<1> QED BY <1>2, <1>3

LEMMA ToServerIs ==
  ASSUME ViewsInv, NEW s \in Sockets, NEW m \in Ups, m.type # "close", socket' = ToServer(s, m)
  PROVE  \E l \in Connections : /\ socket' = [socket EXCEPT ![s] = l]
                                /\ l.ws = socket[s].ws /\ l.peer = socket[s].peer /\ l.down = socket[s].down
                                     /\ NoBye(l)
<1>1. socket \in [Sockets -> Connections] /\ socket[s] \in Connections /\ socket[s].up \in Seq(Ups)
        /\ NoBye(socket[s])
  BY Parts, Typed DEF ViewTypes
<1>2. PICK d : d = Append(socket[s].up, m) /\ d \in Seq(Ups)
  <2>1. Append(socket[s].up, m) \in Seq(Ups)
    BY <1>1, AppendIs
  <2> QED BY <2>1
<1>3. PICK l : l = [socket[s] EXCEPT !.up = d]
  OBVIOUS
<1>4. /\ l \in Connections /\ l.ws = socket[s].ws /\ l.peer = socket[s].peer /\ l.down = socket[s].down /\ l.up = d
  BY <1>1, <1>2, <1>3 DEF Connections
<1>5. socket' = [socket EXCEPT ![s] = l]
  BY <1>1, <1>2, <1>3 DEF ToServer
<1>6. NoBye(l)
  BY <1>1, <1>2, <1>4, ByeMore
<1> QED BY <1>4, <1>5, <1>6

LEMMA ShownIs ==
  ASSUME NEW v \in Views, NEW m \in Downs, m.type # "close", NEW w, w = Shown(v, m)
  PROVE  /\ w \in Views /\ w.stage = v.stage /\ w.on = v.on
         /\ m.type \in Numbers => w.sequence = m.seq
         /\ m.type \notin Numbers => w.sequence = v.sequence
         /\ m.type \in ControlNews => (w.writer <=> SaysControl(m, v.on))
         /\ m.type \notin ControlNews => w.writer = v.writer
         /\ m.type \in EndNews => (w.ended <=> SaysEnd(m))
         /\ m.type \notin EndNews => w.ended = v.ended
<1>1. PICK mine : mine = (m.writer = v.on) /\ mine \in BOOLEAN
  OBVIOUS
<1>2. PICK over : over = (m.state = "exited") /\ over \in BOOLEAN
  OBVIOUS
<1>3. PICK others : others = (m.writer # v.on) /\ others \in BOOLEAN
  OBVIOUS
<1>4. CASE m.type = "ready"
  <2>1. w = [v EXCEPT !.writer = mine, !.ended = over]
    BY <1>1, <1>2, <1>4 DEF Shown
  <2>2. /\ w \in Views /\ w.stage = v.stage /\ w.on = v.on /\ w.sequence = v.sequence /\ w.writer = mine
             /\ w.ended = over
    BY <1>1, <1>2, <2>1 DEF Views
  <2>3. m.type \notin Numbers
    BY <1>4 DEF Numbers
  <2>4. w.writer <=> SaysControl(m, v.on)
    BY <1>1, <1>4, <2>2 DEF SaysControl
  <2>5. w.ended <=> SaysEnd(m)
    BY <1>2, <1>4, <2>2 DEF SaysEnd
  <2> QED BY <1>4, <2>2, <2>3, <2>4, <2>5 DEF ControlNews, EndNews
<1>5. CASE m.type = "controlChanged"
  <2>1. w = [v EXCEPT !.writer = mine, !.readOnly = others]
    BY <1>1, <1>3, <1>5 DEF Shown
  <2>2. /\ w \in Views /\ w.stage = v.stage /\ w.on = v.on /\ w.sequence = v.sequence /\ w.writer = mine
             /\ w.ended = v.ended
    BY <1>1, <1>3, <2>1 DEF Views
  <2>3. m.type \notin Numbers /\ m.type \notin EndNews
    BY <1>5 DEF Numbers, EndNews
  <2>4. w.writer <=> SaysControl(m, v.on)
    BY <1>1, <1>5, <2>2 DEF SaysControl
  <2> QED BY <1>5, <2>2, <2>3, <2>4 DEF ControlNews
<1>6. CASE m.type \in {"closing", "exit"}
  <2>1. w = [v EXCEPT !.ended = TRUE, !.writer = FALSE, !.readOnly = TRUE]
    BY <1>6 DEF Shown
  <2>2. /\ w \in Views /\ w.stage = v.stage /\ w.on = v.on /\ w.sequence = v.sequence /\ w.writer = FALSE
             /\ w.ended = TRUE
    BY <2>1 DEF Views
  <2>3. m.type \notin Numbers
    BY <1>6 DEF Numbers
  <2>4. w.writer <=> SaysControl(m, v.on)
    BY <1>6, <2>2 DEF SaysControl
  <2>5. w.ended <=> SaysEnd(m)
    BY <1>6, <2>2 DEF SaysEnd
  <2> QED BY <1>6, <2>2, <2>3, <2>4, <2>5 DEF ControlNews, EndNews
<1>7. CASE m.type \in Numbers
  <2>1. w = [v EXCEPT !.sequence = m.seq, !.drawing = TRUE] \/ w = [v EXCEPT !.sequence = m.seq]
    BY <1>7 DEF Shown, Numbers
  <2>2. m.seq \in Nat
    BY <1>7 DEF Downs, Numbers
  <2>3. PICK n : n = m.seq /\ n \in Nat
    BY <2>2
  <2>4. w = [v EXCEPT !.sequence = n, !.drawing = TRUE] \/ w = [v EXCEPT !.sequence = n]
    BY <2>1, <2>3
  <2>5. w \in Views /\ w.stage = v.stage /\ w.on = v.on /\ w.sequence = n /\ w.writer = v.writer
          /\ w.ended = v.ended
    BY <2>3, <2>4 DEF Views
  <2>6. m.type \notin ControlNews /\ m.type \notin EndNews
    BY <1>7 DEF Numbers, ControlNews, EndNews
  <2> QED BY <1>7, <2>3, <2>5, <2>6
<1>8. m.type \in {"close", "ready", "controlChanged", "closing", "exit"} \cup Numbers
  BY DEF Downs
<1> QED BY <1>4, <1>5, <1>6, <1>7, <1>8

LEMMA KeptReceive ==
  ASSUME ViewsInv, NEW b \in Browsers, ReceiveDown(b)
  PROVE  ViewsInv'
<1>1. PICK s, v : s = view[b].on /\ v = view[b]
  OBVIOUS
<1>2. /\ v \in Views /\ v.stage = "on" /\ v.on = s /\ s \in Sockets /\ socket[s] \in Connections
           /\ Good(v, socket[s], host, s)
      /\ socket[s].ws \in {"open", "closing"} /\ socket \in [Sockets -> Connections]
      /\ view \in [Browsers -> Views] /\ (v.ended => host.state # "running")
  BY <1>1, Each, Viewed DEF ReceiveDown
<1>3. PICK d : d = socket[s].down /\ d \in Seq(Downs) /\ d # <<>>
  BY <1>1, <1>2 DEF ReceiveDown, Connections
<1>4. PICK m : m = Head(d) /\ m \in Downs
  BY <1>3
<1>5. PICK rest : rest = Tail(d) /\ rest \in Seq(Downs)
  BY <1>3, TailIs
<1>6. PICK k : k = [socket[s] EXCEPT !.down = rest]
  OBVIOUS
<1>7. k \in Connections /\ k.ws = socket[s].ws /\ k.peer = socket[s].peer /\ k.up = socket[s].up /\ k.down = rest
  BY <1>2, <1>5, <1>6 DEF Connections
<1>8. PICK got : got = [socket EXCEPT ![s].down = Tail(@)]
  OBVIOUS
<1>9. got = [socket EXCEPT ![s] = k] /\ got \in [Sockets -> Connections] /\ got[s] = k
      /\ \A t \in Sockets : t # s => got[t] = socket[t]
  BY <1>2, <1>3, <1>5, <1>6, <1>7, <1>8
<1>10. NoBye(k)
  BY <1>2, <1>7, Parts, ByeKept
<1>11. UNCHANGED host
  BY DEF ReceiveDown
<1>12. CASE m.type = "close" \/ ~Follows(v, m)
  <2>1. PICK w : w = Off(v)
    OBVIOUS
  <2>2. PICK l : l = Say(k)
    OBVIOUS
  <2>3. view' = [view EXCEPT ![b] = w] /\ socket' = [got EXCEPT ![s] = l]
    BY <1>1, <1>2, <1>3, <1>4, <1>8, <1>9, <1>12, <2>1, <2>2 DEF ReceiveDown
  <2>4. w \in Views /\ w.stage # "on" /\ ~w.drawing /\ ~w.ready /\ w.ended = v.ended
    BY <1>2, <2>1, Offed
  <2>5. l \in Connections /\ l.ws = "left" /\ l.peer = k.peer /\ NoBye(l)
    BY <1>7, <2>2, Saying
  <2>6. socket' \in [Sockets -> Connections] /\ socket'[s] = l /\ \A t \in Sockets : t # s
          => socket'[t] = socket[t]
    BY <1>9, <2>3, <2>5
  <2>7. \A t \in Sockets : socket'[t].peer = socket[t].peer /\ NoBye(socket'[t])
    BY <1>7, <2>5, <2>6, Parts
  <2>8. \A t \in Sockets : ~(view[b].stage = "on" /\ view[b].on = t) => socket'[t] = socket[t]
    BY <1>1, <1>2, <2>6
  <2>9. w.ended => view[b].ended
    BY <1>1, <2>4
  <2> QED BY <1>11, <2>3, <2>4, <2>6, <2>7, <2>8, <2>9, ViewLeft
<1>13. CASE ~(m.type = "close" \/ ~Follows(v, m))
  <2>1. PICK w : w = Shown(v, m)
    OBVIOUS
  <2>2. /\ w \in Views /\ w.stage = "on" /\ w.on = s
        /\ m.type \in Numbers => w.sequence = m.seq
        /\ m.type \notin Numbers => w.sequence = v.sequence
        /\ m.type \in ControlNews => (w.writer <=> SaysControl(m, s))
        /\ m.type \notin ControlNews => w.writer = v.writer
        /\ m.type \in EndNews => (w.ended <=> SaysEnd(m))
        /\ m.type \notin EndNews => w.ended = v.ended
    <3>1. v.on = s /\ v.stage = "on" /\ v \in Views
      BY <1>2
    <3> QED BY <1>4, <1>13, <2>1, <3>1, ShownIs
  <2>3. view' = [view EXCEPT ![b] = w] /\ (socket' = got \/ socket' = FitAndResize(got, w))
    BY <1>1, <1>3, <1>4, <1>8, <1>13, <2>1 DEF ReceiveDown
  <2>4. \E l \in Connections : /\ socket' = [got EXCEPT ![s] = l]
                               /\ l.ws = k.ws /\ l.peer = k.peer /\ l.down = k.down /\ NoBye(l)
    <3>1. CASE socket' = got
      <4>1. socket' = [got EXCEPT ![s] = k]
        BY <1>2, <1>9, <3>1
      <4> QED BY <1>7, <1>10, <4>1
    <3>2. CASE socket' = FitAndResize(got, w)
      <4>1. w.on = s /\ got[w.on] = k /\ NoBye(got[w.on])
        BY <1>9, <1>10, <2>2
      <4> QED BY <1>2, <1>9, <3>2, <4>1, FitIs
    <3> QED BY <2>3, <3>1, <3>2
  <2>5. PICK l \in Connections : /\ socket' = [got EXCEPT ![s] = l]
                                 /\ l.ws = k.ws /\ l.peer = k.peer /\ l.down = k.down /\ NoBye(l)
    BY <2>4
  <2>6. socket' = [socket EXCEPT ![s] = l]
    BY <1>2, <1>9, <2>5
  <2>7. Calm(v, d, host) /\ (socket[s].ws = "open" /\ socket[s].peer = "live" => WillShow(v, d, host, s))
    BY <1>2, <1>3 DEF Good
  <2>8. Calm(w, rest, host)
    <3>1. (IsNumbered(m) => w.sequence = m.seq) /\ (~IsNumbered(m) => w.sequence = v.sequence)
      BY <2>2 DEF IsNumbered, Numbers
    <3> QED BY <1>3, <1>4, <1>5, <2>7, <3>1, CalmRest
  <2>9. ASSUME WillShow(v, d, host, s) PROVE WillShow(w, rest, host, s)
    BY <1>3, <1>4, <1>5, <2>2, <2>9, ShowRest
  <2>10. Good(w, l, host, s)
    BY <1>7, <2>5, <2>7, <2>8, <2>9 DEF Good
  <2>11. ASSUME w.ended PROVE host.state # "running"
    <3>1. CASE m.type \in EndNews
      <4>1. SaysEnd(m)
        BY <2>2, <2>11, <3>1
      <4>2. 1 \in 1..Len(d) /\ d[1] = m
        BY <1>3, <1>4
      <4> QED BY <2>7, <4>1, <4>2 DEF Calm
    <3>2. CASE m.type \notin EndNews
      BY <1>2, <2>2, <2>11, <3>2
    <3> QED BY <3>1, <3>2
  <2>12. l.ws \in {"open", "closing"} /\ l.peer = socket[s].peer
    BY <1>2, <1>7, <2>5
  <2> QED BY <1>1, <1>2, <1>11, <2>2, <2>3, <2>5, <2>6, <2>10, <2>11, <2>12, ViewStays
<1> QED BY <1>12, <1>13

LEMMA KeptDrawn ==
  ASSUME ViewsInv, NEW b \in Browsers, Drawn(b)
  PROVE  ViewsInv'
<1>1. PICK s, v : s = view[b].on /\ v = view[b]
  OBVIOUS
<1>2. v.stage = "on"
  BY <1>1, Viewed DEF Drawn
<1>3. /\ v \in Views /\ v.on = s /\ s \in Sockets /\ socket[s] \in Connections /\ Good(v, socket[s], host, s)
      /\ socket[s].ws \in {"open", "closing"} /\ socket \in [Sockets -> Connections] /\ NoBye(socket[s])
  BY <1>1, <1>2, Each, Viewed, Parts
<1>4. PICK only : only = (~v.writer \/ v.ended) /\ only \in BOOLEAN
  OBVIOUS
<1>5. PICK w : w = [v EXCEPT !.drawing = FALSE, !.ready = TRUE, !.readOnly = only]
  OBVIOUS
<1>6. /\ w \in Views /\ w.stage = v.stage /\ w.on = v.on /\ w.sequence = v.sequence
      /\ w.writer = v.writer /\ w.ended = v.ended
  BY <1>3, <1>4, <1>5 DEF Views
<1>7. view' = [view EXCEPT ![b] = w] /\ socket' = FitAndResize(socket, w) /\ UNCHANGED host
  BY <1>1, <1>4, <1>5 DEF Drawn
<1>8. PICK l \in Connections : /\ socket' = [socket EXCEPT ![s] = l]
                               /\ l.ws = socket[s].ws /\ l.peer = socket[s].peer /\ l.down = socket[s].down
                                    /\ NoBye(l)
  <2>1. w.on = s
    BY <1>3, <1>6
  <2> QED BY <1>3, <1>7, <2>1, FitIs
<1>9. Good(w, l, host, s)
  BY <1>3, <1>6, <1>8, GoodKept
<1>10. v.ended => host.state # "running"
  BY <1>1, Viewed
<1> QED BY <1>1, <1>2, <1>3, <1>6, <1>7, <1>8, <1>9, <1>10, ViewStays

LEMMA KeptSaid ==
  ASSUME ViewsInv, NEW b \in Browsers, view[b].stage = "on", NEW m \in Ups, m.type # "close",
         socket' = ToServer(view[b].on, m), UNCHANGED <<host, view>>
  PROVE  ViewsInv'
<1>1. PICK s, v : s = view[b].on /\ v = view[b]
  OBVIOUS
<1>2. /\ v \in Views /\ v.on = s /\ s \in Sockets /\ Good(v, socket[s], host, s) /\ v.stage = "on"
      /\ socket[s].ws \in {"open", "closing"} /\ view \in [Browsers -> Views]
  BY <1>1, Each, Viewed
<1>3. PICK l \in Connections : /\ socket' = [socket EXCEPT ![s] = l]
                               /\ l.ws = socket[s].ws /\ l.peer = socket[s].peer /\ l.down = socket[s].down
                                    /\ NoBye(l)
  BY <1>1, <1>2, ToServerIs
<1>4. view' = [view EXCEPT ![b] = v]
  BY <1>1, <1>2
<1>5. Good(v, l, host, s)
  BY <1>2, <1>3, GoodKept
<1>6. v.ended => host.state # "running"
  BY <1>1, Viewed
<1> QED BY <1>1, <1>2, <1>3, <1>4, <1>5, <1>6, ViewStays

LEMMA KeptConnect ==
  ASSUME ViewsInv, NEW b \in Browsers, Connect(b)
  PROVE  ViewsInv'
<1>1. PICK free : free = {s \in Sockets : socket[s].ws = "free" /\ \A i \in DOMAIN host.tail : host.tail[i].of # s}
  OBVIOUS
<1>2. PICK s : s = (CHOOSE x \in free : TRUE)
  OBVIOUS
<1>3. free # {} /\ UNCHANGED host
  BY <1>1 DEF Connect
<1>4. s \in Sockets /\ socket[s].ws = "free"
  BY <1>1, <1>2, <1>3
<1>5. PICK l : l = [FreeSocket EXCEPT !.ws = "open", !.up = <<[type |-> "attach"]>>]
  OBVIOUS
<1>6. PICK w : w = [view[b] EXCEPT !.stage = "on", !.on = s]
  OBVIOUS
<1>7. socket' = [socket EXCEPT ![s] = l] /\ view' = [view EXCEPT ![b] = w]
  <2>1. /\ socket' = [socket EXCEPT ![s] = [FreeSocket EXCEPT !.ws = "open", !.up = <<[type |-> "attach"]>>]]
        /\ view' = [view EXCEPT ![b].stage = "on", ![b].on = s]
    BY <1>1, <1>2 DEF Connect
  <2> QED BY <1>5, <1>6, <2>1, Viewed
<1>8. PICK up : up = <<[type |-> "attach"]>> /\ up \in Seq(Ups) /\ Len(up) = 1 /\ up[1].type = "attach"
  <2>1. [type |-> "attach"] \in Ups
    BY DEF Ups
  <2>2. PICK m : m = [type |-> "attach"] /\ m \in Ups
    BY <2>1
  <2>3. m.type = "attach"
    BY <2>2
  <2>4. <<m>> \in Seq(Ups) /\ Len(<<m>>) = 1 /\ <<m>>[1] = m
    BY <2>2
  <2> QED BY <2>2, <2>3, <2>4
<1>9. l \in Connections /\ l.ws = "open" /\ l.peer = "none" /\ l.down = <<>> /\ l.up = up
  BY <1>5, <1>8, Freed DEF Connections
<1>10. w \in Views /\ w.stage = "on" /\ w.on = s /\ w.ended = view[b].ended
  BY <1>4, <1>6, Viewed DEF Views, Writers
<1>11. NoBye(l)
  BY <1>8, <1>9 DEF NoBye
<1>12. Good(w, l, host, s)
  BY <1>9 DEF Good, Calm, Continues
<1>13. w.ended => host.state # "running"
  BY <1>10, Viewed
<1> QED BY <1>3, <1>4, <1>7, <1>9, <1>10, <1>11, <1>12, <1>13, ViewStays

LEMMA KeptBreaks ==
  ASSUME ViewsInv, NEW b \in Browsers, Breaks(b)
  PROVE  ViewsInv'
<1>1. PICK s, v : s = view[b].on /\ v = view[b]
  OBVIOUS
<1>2. /\ v \in Views /\ s \in Sockets /\ socket[s] \in Connections /\ v.stage = "on"
      /\ socket \in [Sockets -> Connections] /\ <<>> \in Seq(Ups)
  BY <1>1, Each, Viewed DEF Breaks
<1>3. PICK l : l = LeaveSocket(socket[s], <<>>)
  OBVIOUS
<1>4. PICK w : w = Off(v)
  OBVIOUS
<1>5. view' = [view EXCEPT ![b] = w] /\ socket' = [socket EXCEPT ![s] = l] /\ UNCHANGED host
  BY <1>1, <1>2, <1>3, <1>4 DEF Breaks
<1>6. w \in Views /\ w.stage # "on" /\ ~w.drawing /\ ~w.ready /\ w.ended = v.ended
  BY <1>2, <1>4, Offed
<1>7. l \in Connections /\ l.ws = "left" /\ l.peer = socket[s].peer /\ NoBye(l)
  BY <1>2, <1>3, Leaving
<1>8. socket' \in [Sockets -> Connections] /\ socket'[s] = l /\ \A t \in Sockets : t # s => socket'[t] = socket[t]
  BY <1>2, <1>5, <1>7
<1>9. \A t \in Sockets : socket'[t].peer = socket[t].peer /\ NoBye(socket'[t])
  BY <1>7, <1>8, Parts
<1>10. \A t \in Sockets : ~(view[b].stage = "on" /\ view[b].on = t) => socket'[t] = socket[t]
  BY <1>1, <1>2, <1>8
<1>11. w.ended => view[b].ended
  BY <1>1, <1>6
<1> QED BY <1>5, <1>6, <1>8, <1>9, <1>10, <1>11, ViewLeft

LEMMA KeptUnmount ==
  ASSUME ViewsInv, NEW b \in Browsers, Unmount(b)
  PROVE  ViewsInv'
<1>1. PICK w : w = [NewView(FALSE) EXCEPT !.stage = "gone"]
  OBVIOUS
<1>2. w \in Views /\ w.stage = "gone" /\ ~w.drawing /\ ~w.ready /\ ~w.ended
  <2>1. w = [stage |-> "gone", on |-> NoSocket, ready |-> FALSE, writer |-> FALSE, readOnly |-> TRUE,
             ended |-> FALSE, sequence |-> 0, drawing |-> FALSE]
    BY <1>1 DEF NewView
  <2> QED BY <2>1, NewIs
<1>3. view' = [view EXCEPT ![b] = w] /\ UNCHANGED host
  BY <1>1 DEF Unmount
<1>4. socket \in [Sockets -> Connections]
  BY Viewed
<1>5. CASE view[b].stage # "on"
  <2>1. UNCHANGED socket
    BY <1>5 DEF Unmount
  <2> QED BY <1>2, <1>3, <1>4, <2>1, Parts, ViewLeft
<1>6. CASE view[b].stage = "on"
  <2>1. PICK s : s = view[b].on /\ s \in Sockets /\ socket[s] \in Connections
    BY <1>6, Each
  <2>2. PICK l : l = Say(socket[s])
    OBVIOUS
  <2>3. socket' = [socket EXCEPT ![s] = l]
    BY <1>4, <1>6, <2>1, <2>2 DEF Unmount
  <2>4. l \in Connections /\ l.ws = "left" /\ l.peer = socket[s].peer /\ NoBye(l)
    BY <2>1, <2>2, Saying
  <2>5. socket' \in [Sockets -> Connections] /\ socket'[s] = l /\ \A t \in Sockets : t # s
          => socket'[t] = socket[t]
    BY <1>4, <2>1, <2>3, <2>4
  <2>6. \A t \in Sockets : socket'[t].peer = socket[t].peer /\ NoBye(socket'[t])
    BY <2>4, <2>5, Parts
  <2>7. \A t \in Sockets : ~(view[b].stage = "on" /\ view[b].on = t) => socket'[t] = socket[t]
    BY <1>6, <2>1, <2>5
  <2> QED BY <1>2, <1>3, <2>5, <2>6, <2>7, ViewLeft
<1> QED BY <1>5, <1>6

LEMMA KeptRestart ==
  ASSUME ViewsInv, ApiRestarts
  PROVE  ViewsInv'
<1>1. host \in Hosts /\ view \in [Browsers -> Views] /\ NoSocket \in Writers /\ <<>> \in Seq(Tasks)
  BY Parts, Typed DEF ViewTypes, Writers
<1>2. host' = [host EXCEPT !.state = "gone", !.writer = NoSocket, !.tail = <<>>] /\ host.state # "gone"
  BY DEF ApiRestarts
<1>3. host' \in Hosts /\ host'.state = "gone" /\ host'.writer = NoSocket
  BY <1>1, <1>2 DEF Hosts
<1>4. socket' \in [Sockets -> Connections] /\ \A s \in Sockets : socket'[s] = FreeSocket
  BY Freed DEF ApiRestarts
<1>5. ASSUME NEW b \in Browsers
      PROVE  view'[b] \in Views /\ view'[b].stage # "on" /\ ~view'[b].drawing /\ ~view'[b].ready
  <2>1. view'[b] = (IF view[b].stage = "on" THEN Off(view[b]) ELSE view[b])
    BY DEF ApiRestarts
  <2>2. CASE view[b].stage = "on"
    <3>1. view'[b] = Off(view[b]) /\ view[b] \in Views
      BY <2>1, <2>2, Viewed
    <3> QED BY <3>1, Offed
  <2>3. CASE view[b].stage # "on"
    <3>1. view'[b] = view[b]
      BY <2>1, <2>3
    <3>2. view[b] \in Views /\ ~view[b].drawing /\ ~view[b].ready
      BY <2>3, Viewed
    <3> QED BY <2>3, <3>1, <3>2
  <2> QED BY <2>2, <2>3
<1>6. view' \in [Browsers -> Views]
  BY <1>5 DEF ApiRestarts
<1>7. ViewTypes'
  BY <1>3, <1>4, <1>6 DEF ViewTypes
<1>8. OnSockets' /\ Goods'
  BY <1>5 DEF OnSockets, Goods
<1>9. NotEarly' /\ Controlled'
  BY <1>3 DEF NotEarly, Controlled
<1>10. NoPeers'
  BY <1>4, Freed DEF NoPeers
<1>11. SaysBye'
  BY <1>4, Freed DEF SaysBye, NoBye
<1> QED BY <1>7, <1>8, <1>9, <1>10, <1>11 DEF ViewsInv

-----------------------------------------------------------------------------
(* The terminal and its views *)

LEMMA ViewsStart ==
  ASSUME ViewInit
  PROVE  ViewsInv
<1>1. /\ host = [state |-> "running", seq |-> 0, writer |-> NoSocket, tail |-> <<>>]
      /\ socket = [s \in Sockets |-> FreeSocket] /\ view = [b \in Browsers |-> NewView(FALSE)]
  BY DEF ViewInit
<1>2. NoSocket \in Writers /\ <<>> \in Seq(Tasks)
  BY DEF Writers
<1>3. host \in Hosts /\ host.state = "running"
  BY <1>1, <1>2 DEF Hosts
<1>4. socket \in [Sockets -> Connections] /\ \A s \in Sockets : socket[s] = FreeSocket
  BY <1>1, Freed
<1>5. PICK w : w = NewView(FALSE) /\ w \in Views /\ w.stage = "asking" /\ ~w.drawing /\ ~w.ready /\ ~w.ended
  BY NewIs DEF NewView
<1>6. view \in [Browsers -> Views] /\ \A b \in Browsers : view[b] = w
  BY <1>1, <1>5
<1>7. ViewTypes
  BY <1>3, <1>4, <1>6 DEF ViewTypes
<1>8. OnSockets /\ Goods
  BY <1>5, <1>6 DEF OnSockets, Goods
<1>9. NotEarly
  BY <1>5, <1>6 DEF NotEarly
<1>10. Controlled /\ NoPeers
  BY <1>3 DEF Controlled, NoPeers
<1>11. SaysBye
  BY <1>4, Freed DEF SaysBye, NoBye
<1> QED BY <1>7, <1>8, <1>9, <1>10, <1>11 DEF ViewsInv

LEMMA ViewsStep ==
  ASSUME ViewsInv, [ViewNext]_viewVars
  PROVE  ViewsInv'
<1>1. CASE UNCHANGED viewVars
  BY <1>1 DEF viewVars, ViewsInv, ViewTypes, OnSockets, Goods, NotEarly, Controlled, NoPeers, SaysBye
<1>2. CASE RunHostTask
  BY <1>2, KeptTask
<1>3. CASE HostExits
  BY <1>3, KeptExits
<1>4. CASE \E s \in Sockets : HandleUp(s) \/ SocketHeartbeat(s) \/ ServerGivesUp(s)
  BY <1>4, KeptUp, KeptHeartbeat, KeptGivesUp
<1>5. CASE \E b \in Browsers : Connect(b) \/ ReceiveDown(b) \/ Drawn(b) \/ PanelPolls(b) \/ Breaks(b)
  <2>1. \A b \in Browsers : PanelPolls(b) => Unmount(b)
    BY DEF PanelPolls
  <2> QED BY <1>5, <2>1, KeptConnect, KeptReceive, KeptDrawn, KeptUnmount, KeptBreaks
<1>6. CASE \E b \in Browsers : TypeKeys(b) \/ ClickTakeControl(b)
  <2>1. [type |-> "input"] \in Ups /\ [type |-> "takeControl"] \in Ups
    BY DEF Ups
  <2>2. ASSUME NEW b \in Browsers, TypeKeys(b) PROVE ViewsInv'
    <3>1. view[b].stage = "on"
      BY <2>2, Viewed DEF TypeKeys
    <3>2. PICK m : m = [type |-> "input"] /\ m \in Ups /\ m.type # "close"
      BY <2>1
    <3>3. socket' = ToServer(view[b].on, m) /\ UNCHANGED <<host, view>>
      BY <2>2, <3>2 DEF TypeKeys
    <3> QED BY <3>1, <3>2, <3>3, KeptSaid
  <2>3. ASSUME NEW b \in Browsers, ClickTakeControl(b) PROVE ViewsInv'
    <3>1. view[b].stage = "on"
      BY <2>3 DEF ClickTakeControl
    <3>2. PICK m : m = [type |-> "takeControl"] /\ m \in Ups /\ m.type # "close"
      BY <2>1
    <3>3. socket' = ToServer(view[b].on, m) /\ UNCHANGED <<host, view>>
      BY <2>3, <3>2 DEF ClickTakeControl
    <3> QED BY <3>1, <3>2, <3>3, KeptSaid
  <2> QED BY <1>6, <2>2, <2>3
<1>7. CASE HostPrints \/ HostCloses \/ UserDropsHost \/ ApiRestarts
  BY <1>7, KeptPrints, KeptCloses, KeptDrops, KeptRestart
<1> QED BY <1>1, <1>2, <1>3, <1>4, <1>5, <1>6, <1>7 DEF ViewNext, ViewMoves

LEMMA ViewsShow ==
  ASSUME ViewsInv
  PROVE  ViewSafe
<1>1. NoGap
  <2>1. ASSUME NEW b \in Browsers, view[b].stage = "on" PROVE Continues(view[b], socket[view[b].on].down)
    BY <2>1, Each DEF Good, Calm
  <2> QED BY <2>1 DEF NoGap
<1>2. ViewAgrees
  <2>1. ASSUME NEW b \in Browsers, NEW s, s = view[b].on, view[b].stage = "on", socket[s].ws = "open",
               socket[s].peer = "live", socket[s].down = <<>>
        PROVE  /\ view[b].sequence = host.seq
               /\ view[b].writer <=> host.writer = s
               /\ view[b].ended => host.state # "running"
               /\ host.state \in {"exited", "gone"} => view[b].ended
    <3>1. WillShow(view[b], <<>>, host, s) /\ s \in Sockets
      BY <2>1, Each DEF Good
    <3>2. \A T, j : ~SaysLast(<<>>, T, j)
      BY DEF SaysLast
    <3>3. view[b].sequence = host.seq
      BY <3>1, <3>2 DEF WillShow, WillCount
    <3>4. view[b].writer <=> host.writer = s
      BY <3>1, <3>2 DEF WillShow, WillControl
    <3>5. host.state = "exited" => view[b].ended
      BY <3>1, <3>2 DEF WillShow, WillEnd
    <3>6. host.state # "gone"
      BY <2>1, <3>1, Parts DEF NoPeers
    <3>7. view[b].ended => host.state # "running"
      BY Viewed
    <3> QED BY <3>3, <3>4, <3>5, <3>6, <3>7
  <2> QED BY <2>1 DEF ViewAgrees
<1> QED BY <1>1, <1>2 DEF ViewSafe

\* What is on its way to each view, at every step.
THEOREM ViewsInvariant == ViewSpec => []ViewsInv
BY ViewsStart, ViewsStep, PTL DEF ViewSpec

\* No view misses output, and one that has received all it was sent shows the terminal as it is
\* (ViewSafe).
THEOREM ViewsAreSafe == ViewSpec => []ViewSafe
BY ViewsInvariant, ViewsShow, PTL
=============================================================================

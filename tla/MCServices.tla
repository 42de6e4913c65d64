----------------------------- MODULE MCServices -----------------------------
(***************************************************************************)
(* A browser that follows a turn, the agents that run one (Claude and      *)
(* Codex), a terminal, the browsers that show one, the launcher, and the   *)
(* accounts with their logins. They share no state that their models keep, *)
(* so that a behaviour is one of a single part, chosen at the start; the   *)
(* others stay as they are.                                                *)
(***************************************************************************)
EXTENDS ClientStream, ClaudeBackend, CodexWorkers, Terminals, TerminalViews, Launcher, Accounts

VARIABLE part

ServicesInit ==
  /\ part \in {"client", "claude", "codex", "terminal", "views", "launcher", "administrators", "logins"}
  /\ ClientInit /\ ClaudeInit /\ CodexInit /\ TerminalInit /\ ViewInit /\ LauncherInit /\ AccountsInit
  /\ part = "codex" \/ prefers = [t \in Turns |-> "none"]
  /\ \A u \in Users : Administers(u)

\* Two administrators at two pages take the role or the access from accounts ...
Administration ==
  /\ AccountsNext /\ link' = link /\ cuts' = cuts
  /\ \A t \in Tokens : login'[t].state # "expired"
  /\ \A b \in Pages : /\ request'[b].op \in {"none", "login", "session", "manage"}
                      /\ request'[b].given = 0 /\ request'[b].edit \in {"none", "demote", "disable"}

\* ... or everything may happen to the login of one page, while one password or one access changes.
Login ==
  /\ AccountsNext /\ writes' <= 1
  /\ \A b \in Pages : /\ b # (CHOOSE p \in Pages : TRUE) => request'[b] = NoRequestOf
                      /\ request'[b].given <= 1 /\ request'[b].edit \in {"none", "disable"}

ServicesNext ==
  /\ UNCHANGED part
  /\ \/ part = "client" /\ ClientNext
        /\ UNCHANGED <<claudeVars, codexVars, terminalVars, viewVars, launcherVars, accountsVars>>
     \/ part = "claude" /\ ClaudeNext
        /\ UNCHANGED <<clientVars, codexVars, terminalVars, viewVars, launcherVars, accountsVars>>
     \/ part = "codex" /\ CodexNext
        /\ UNCHANGED <<clientVars, claudeVars, terminalVars, viewVars, launcherVars, accountsVars>>
     \/ part = "terminal" /\ TerminalNext
        /\ UNCHANGED <<clientVars, claudeVars, codexVars, viewVars, launcherVars, accountsVars>>
     \/ part = "views" /\ ViewNext
        /\ UNCHANGED <<clientVars, claudeVars, codexVars, terminalVars, launcherVars, accountsVars>>
     \/ part = "launcher" /\ LauncherNext
        /\ UNCHANGED <<clientVars, claudeVars, codexVars, terminalVars, viewVars, accountsVars>>
     \/ /\ \/ part = "administrators" /\ Administration
           \/ part = "logins" /\ Login
        /\ UNCHANGED <<clientVars, claudeVars, codexVars, terminalVars, viewVars, launcherVars>>

\* The server polls on a timer, the browser connects again on its own and every awaited request
\* returns; the agent and the user owe nothing.
ClientFairness ==
  /\ WF_clientVars(part = "client" /\ (PollEvents \/ PollStatus))
  /\ WF_clientVars(part = "client" /\ Reconnect)
  /\ WF_clientVars(part = "client" /\ ReceiveEvent)
  /\ WF_clientVars(part = "client" /\ \E r \in Requests : ReceiveLast(r))
  /\ WF_clientVars(part = "client" /\ \E r \in Requests : SendReturns(r))
  /\ \A r \in Requests : WF_clientVars(part = "client" /\ LoadMoves(r))

\* Awaited calls return; the agent and the user owe nothing.
ClaudeFairness == WF_claudeVars(part = "claude" /\ LoopMoves)

\* Requests to a process that lives are answered, and what it reports is handled in order.
CodexFairness ==
  /\ WF_codexVars(part = "codex" /\ \E t \in Turns : StartMoves(t))
  /\ WF_codexVars(part = "codex" /\ CallMoves)
  /\ WF_codexVars(part = "codex" /\ WorkerMoves)
  /\ WF_codexVars(part = "codex" /\ NoteMoves)
  /\ WF_codexVars(part = "codex" /\ \E t \in Turns : InterruptAnswered(t))

\* The processes run and the sweep comes round; users and the shell owe nothing.
TerminalFairness ==
  /\ WF_terminalVars(part = "terminal" /\ (Register \/ GateExits))
  /\ WF_terminalVars(part = "terminal" /\ (GuardianStops \/ GuardianCleans))
  /\ WF_terminalVars(part = "terminal" /\ RunTask)
  /\ WF_terminalVars(part = "terminal" /\ (GuardianClosed \/ Exited))
  /\ WF_terminalVars(part = "terminal" /\ Sweep)

\* Something moves while something can; users and the shell owe nothing.
ViewFairness == WF_viewVars(part = "views" /\ ViewMoves)

\* The timer of a socket fires and its reading is answered, and a socket that was asked for is answered.
SocketFairness ==
  \A c \in Conns :
    WF_accountsVars(part = "logins" /\ (Admit(c) \/ Watch(c) \/ HeartbeatReads(c) \/ HeartbeatAnswered(c)))

ServicesSpec ==
  /\ ServicesInit
  /\ [][ServicesNext]_<<part, clientVars, claudeVars, codexVars, terminalVars, viewVars, launcherVars, accountsVars>>
  /\ ClientFairness /\ ClaudeFairness /\ CodexFairness /\ TerminalFairness /\ ViewFairness /\ SocketFairness

\* What stays as it was at the start is looked at where it moves.
ServicesTypeOK ==
  /\ part = "client" => ClientTypeOK
  /\ part = "claude" => ClaudeTypeOK
  /\ part = "codex" => CodexTypeOK
  /\ part = "terminal" => TerminalTypeOK
  /\ part = "views" => ViewTypeOK
  /\ part = "launcher" => LauncherTypeOK
  /\ part \in {"administrators", "logins"} => AccountsTypeOK

\* The terminals of an API that is gone leave no shell behind, the browsers that show one come to an
\* end of their connecting, and no socket outlives its login, also one that the logout missed
\* (guardian.mjs, TerminalView.tsx, terminals.gateway.ts).
TerminalsSettle ==
  <>[](/\ part = "terminal" => NoShell
       /\ part = "views" => ViewsSettled
       /\ part = "logins" => SocketsFollowLogin)
=============================================================================

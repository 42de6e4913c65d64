------------------------------ MODULE Accounts ------------------------------
(***************************************************************************)
(* The accounts, the logins and who may act with them: password logins,    *)
(* logout, changes of passwords, the administration of accounts, and the   *)
(* sockets of terminals, which outlive the request that admitted them      *)
(* (auth.service.ts, auth.controller.ts, settings.service.ts,              *)
(* terminals.gateway.ts, page.tsx).                                        *)
(***************************************************************************)
EXTENDS Naturals

CONSTANTS
  Users, NoUser,
  Tokens, NoToken,     \* login tokens, each given once
  Pages,               \* one in each browser, with the cookie of its own
  Conns,               \* WebSocket connections of terminals
  MaxWrites,           \* bound on changes of accounts
  MaxCuts              \* bound on restarts of the API and lost answers

ASSUME AccountsAssumption ==
  /\ NoUser \notin Users /\ NoToken \notin Tokens
  /\ MaxWrites \in Nat /\ MaxCuts \in Nat

VARIABLES
  account,  \* User: [known, admin, active, password], password a number for each one given
  login,    \* AuthSession: [owner, state]
  cookie,   \* the token that the browser of a page sends
  shows,    \* the user its page works for
  request,  \* the request of its page: [op, pc, token, by, of, given, edit]
  link,     \* each connection: [ws, token, by, check]
  script,   \* auth:bootstrap-admin has found no administrator
  writes, cuts,
  crossed,  \* history: an account was changed for one who was no longer an administrator
  late      \* history: connections set up after their login was revoked

accountsVars == <<account, login, cookie, shows, request, link, script, writes, cuts, crossed, late>>

Unknown == [known |-> FALSE, admin |-> FALSE, active |-> FALSE, password |-> 0]
NoLogin == [owner |-> NoUser, state |-> "none"]
NoRequestOf == [op |-> "none", pc |-> "idle", token |-> NoToken, by |-> NoUser, of |-> NoUser,
                given |-> 0, edit |-> "none"]
NoConn == [ws |-> "none", token |-> NoToken, by |-> NoUser, check |-> "none"]

Edits == {"create", "promote", "demote", "enable", "disable", "reset"}
SomeUser == Users \cup {NoUser}
SomeToken == Tokens \cup {NoToken}
Passwords == 0..MaxWrites
Underway == {"asked", "passed", "verified", "found", "revoked"}

\* What a step of a request uses was found by those before it.
Founded(r) ==
  /\ r.op \in {"login", "manage"} /\ r.pc \in Underway => r.of \in Users
  /\ r.op \in {"password", "manage"} /\ r.pc \in Underway \ {"asked"} => r.by \in Users
  /\ r.op = "manage" /\ r.pc \in Underway => r.edit \in Edits
  /\ r.pc \in {"found", "revoked"} => r.op = "logout" /\ r.token \in Tokens

AccountStates == [known : BOOLEAN, admin : BOOLEAN, active : BOOLEAN, password : Passwords]
LoginStates ==
  {l \in [owner : SomeUser, state : {"none", "live", "expired", "revoked"}] :
     l.state # "none" => l.owner \in Users}
RequestStates ==
  {r \in [op : {"none", "login", "session", "logout", "password", "manage"},
          pc : Underway \cup {"idle", "done", "refused", "cut"},
          token : SomeToken, by : SomeUser, of : SomeUser, given : Passwords, edit : Edits \cup {"none"}] :
     Founded(r)}
SocketStates ==
  {s \in [ws : {"none", "asking", "admitted", "open"}, token : SomeToken, by : SomeUser,
          check : {"none", "good", "bad"}] :
     s.ws \in {"admitted", "open"} => s.by \in Users /\ s.token \in Tokens}

AccountsTypeOK ==
  /\ account \in [Users -> AccountStates] /\ login \in [Tokens -> LoginStates]
  /\ cookie \in [Pages -> SomeToken] /\ shows \in [Pages -> SomeUser]
  /\ request \in [Pages -> RequestStates] /\ link \in [Conns -> SocketStates]
  /\ script \in BOOLEAN /\ writes \in 0..MaxWrites /\ cuts \in 0..MaxCuts
  /\ crossed \in BOOLEAN /\ late \subseteq Conns

Administers(u) == account[u].known /\ account[u].admin /\ account[u].active

\* The first run has created an administrator; accounts were added and changed since.
AccountsInit ==
  /\ account \in [Users -> {Unknown} \cup [known : {TRUE}, admin : BOOLEAN, active : BOOLEAN, password : {0}]]
  /\ \E u \in Users : Administers(u)
  /\ login = [t \in Tokens |-> NoLogin] /\ cookie = [b \in Pages |-> NoToken]
  /\ shows = [b \in Pages |-> NoUser] /\ request = [b \in Pages |-> NoRequestOf]
  /\ link = [c \in Conns |-> NoConn] /\ script = FALSE
  /\ writes = 0 /\ cuts = 0 /\ crossed = FALSE /\ late = {}

\* resolveSessionPrincipal: the principal of a token is the owner of a live login, if active.
Principal(t) ==
  IF t \in Tokens /\ login[t].state = "live" /\ account[login[t].owner].active
  THEN login[t].owner ELSE NoUser

-----------------------------------------------------------------------------
\* The page.

Ask(b, r) ==
  /\ request[b].op = "none"
  /\ request' = [request EXCEPT ![b] = [r EXCEPT !.pc = "asked", !.token = cookie[b]]]
  /\ UNCHANGED <<account, login, cookie, link, script, writes, cuts, crossed, late>>

\* Somebody enters an address and a password, one that is or was in use.
SignIn(b, u, p) ==
  /\ shows[b] = NoUser /\ UNCHANGED shows
  /\ Ask(b, [NoRequestOf EXCEPT !.op = "login", !.of = u, !.given = p])

\* The page is loaded, and finds out for whom.
LoadPage(b) ==
  /\ shows' = [shows EXCEPT ![b] = NoUser]
  /\ Ask(b, [NoRequestOf EXCEPT !.op = "session"])

SignOut(b) ==
  /\ shows[b] # NoUser /\ UNCHANGED shows
  /\ Ask(b, [NoRequestOf EXCEPT !.op = "logout"])

ChangePassword(b, p) ==
  /\ shows[b] # NoUser /\ UNCHANGED shows
  /\ Ask(b, [NoRequestOf EXCEPT !.op = "password", !.given = p])

\* One field of an account at a time: what the panel sends are the fields that differ from what it showed.
Manage(b, u, e) ==
  /\ shows[b] # NoUser /\ UNCHANGED shows
  /\ Ask(b, [NoRequestOf EXCEPT !.op = "manage", !.of = u, !.edit = e])

\* An answer comes; a login is followed by the load of its session.
Answer(b) ==
  LET r == request[b] IN
  /\ r.pc \in {"done", "refused"}
  /\ cookie' = [cookie EXCEPT ![b] = CASE r.op = "login" /\ r.pc = "done" -> r.token
                                       [] r.op = "logout" -> NoToken
                                       [] OTHER -> @]
  /\ shows' = [shows EXCEPT ![b] = IF r.op = "session" THEN r.by ELSE IF r.op = "logout" THEN NoUser ELSE @]
  /\ request' = [request EXCEPT ![b] =
       IF r.op = "login" /\ r.pc = "done"
       THEN [NoRequestOf EXCEPT !.op = "session", !.pc = "asked", !.token = r.token] ELSE NoRequestOf]
  /\ UNCHANGED <<account, login, link, script, writes, cuts, crossed, late>>

\* The answer is lost, or the API is gone: the page does not know what was done.
Fail(b) ==
  /\ \/ request[b].pc = "cut" /\ UNCHANGED cuts
     \/ request[b].pc \in {"done", "refused"} /\ cuts < MaxCuts /\ cuts' = cuts + 1
  /\ shows' = [shows EXCEPT ![b] = IF request[b].op \in {"login", "session"} THEN NoUser ELSE @]
  /\ request' = [request EXCEPT ![b] = NoRequestOf]
  /\ UNCHANGED <<account, login, cookie, link, script, writes, crossed, late>>

-----------------------------------------------------------------------------
\* The API: each step reads or writes the database once.

Onto(b, pc) == request' = [request EXCEPT ![b].pc = pc]

\* What is left when the API has done with a request.
Over(r, pc) == [NoRequestOf EXCEPT !.op = r.op, !.pc = pc]
Ends(b, pc) == request' = [request EXCEPT ![b] = Over(@, pc)]

\* The role for administration, that nobody demotes or disables himself, and the account that is meant.
MayManage(by, r) ==
  /\ account[by].admin
  /\ r.of = by => r.edit \notin {"demote", "disable"}
  /\ (r.edit = "create") = ~account[r.of].known

\* The guard of a request.
Guard(b) ==
  LET r == request[b]
      by == Principal(r.token)
      allowed == by # NoUser /\ (r.op = "manage" => MayManage(by, r))
  IN /\ r.pc = "asked" /\ r.op \in {"password", "manage"}
     /\ request' = [request EXCEPT ![b] = IF allowed THEN [r EXCEPT !.pc = "passed", !.by = by]
                                          ELSE Over(r, "refused")]
     /\ UNCHANGED <<account, login, cookie, shows, link, script, writes, cuts, crossed, late>>

\* getSession tells for whom the cookie is, if for anybody.
GetSession(b) ==
  /\ request[b].op = "session" /\ request[b].pc = "asked"
  /\ request' = [request EXCEPT ![b] = [Over(@, "done") EXCEPT !.by = Principal(request[b].token)]]
  /\ UNCHANGED <<account, login, cookie, shows, link, script, writes, cuts, crossed, late>>

\* loginWithPassword and changePassword read the account and verify the password.
Verify(b) ==
  LET r == request[b]
      u == IF r.op = "login" THEN r.of ELSE r.by
      matches == account[u].known /\ account[u].active /\ account[u].password = r.given
  IN /\ \/ r.op = "login" /\ r.pc = "asked"
        \/ r.op = "password" /\ r.pc = "passed"
     /\ IF matches THEN Onto(b, "verified") ELSE Ends(b, "refused")
     /\ UNCHANGED <<account, login, cookie, shows, link, script, writes, cuts, crossed, late>>

CreateSession(b) ==
  LET fresh == {t \in Tokens : login[t] = NoLogin}
      t == CHOOSE x \in fresh : TRUE
  IN
  /\ request[b].op = "login" /\ request[b].pc = "verified" /\ fresh # {}
  /\ login' = [login EXCEPT ![t] = [owner |-> request[b].of, state |-> "live"]]
  /\ request' = [request EXCEPT ![b] = [Over(@, "done") EXCEPT !.token = t]]
  /\ UNCHANGED <<account, cookie, shows, link, script, writes, cuts, crossed, late>>

WritePassword(b) ==
  /\ request[b].op = "password" /\ request[b].pc = "verified"
  /\ writes < MaxWrites /\ writes' = writes + 1
  /\ account' = [account EXCEPT ![request[b].by].password = writes + 1]
  /\ Ends(b, "done")
  /\ UNCHANGED <<login, cookie, shows, link, script, cuts, crossed, late>>

\* What an edit makes of an account; a reset is the only one that touches the password.
Edited(a, e, n) ==
  CASE e = "create" -> [known |-> TRUE, admin |-> FALSE, active |-> TRUE, password |-> n]
    [] e = "promote" -> [a EXCEPT !.admin = TRUE]
    [] e = "demote" -> [a EXCEPT !.admin = FALSE]
    [] e = "enable" -> [a EXCEPT !.active = TRUE]
    [] e = "disable" -> [a EXCEPT !.active = FALSE]
    [] e = "reset" -> [a EXCEPT !.password = n]

\* The write of createUserForAdmin or updateUserForAdmin; an address that was created meanwhile is an error.
WriteAccount(b) ==
  LET r == request[b] IN
  /\ r.op = "manage" /\ r.pc = "passed"
  /\ IF r.edit = "create" /\ account[r.of].known
     THEN Ends(b, "refused") /\ UNCHANGED <<account, writes, crossed>>
     ELSE /\ writes < MaxWrites /\ writes' = writes + 1
          /\ account' = [account EXCEPT ![r.of] = Edited(@, r.edit, writes + 1)]
          /\ crossed' = (crossed \/ ~Administers(r.by))
          /\ Ends(b, "done")
  /\ UNCHANGED <<login, cookie, shows, link, script, cuts, late>>

\* revokeSessionToken: the session is found, revoked, and whoever watches it is told.
FindSession(b) ==
  LET t == request[b].token IN
  /\ request[b].op = "logout" /\ request[b].pc = "asked"
  /\ IF t \notin Tokens \/ login[t].state \in {"none", "revoked"} THEN Ends(b, "done") ELSE Onto(b, "found")
  /\ UNCHANGED <<account, login, cookie, shows, link, script, writes, cuts, crossed, late>>

Revoke_Silent(b) ==
  /\ request[b].op = "logout" /\ request[b].pc = "found"
  /\ login' = [login EXCEPT ![request[b].token].state = "revoked"]
  /\ Ends(b, "done")
  /\ UNCHANGED <<account, cookie, shows, link, script, writes, cuts, crossed, late>>

Revoke(b) ==
  /\ request[b].op = "logout" /\ request[b].pc = "found"
  /\ login' = [login EXCEPT ![request[b].token].state = "revoked"]
  /\ Onto(b, "revoked")
  /\ UNCHANGED <<account, cookie, shows, link, script, writes, cuts, crossed, late>>

Notify(b) ==
  /\ request[b].op = "logout" /\ request[b].pc = "revoked"
  /\ link' = [c \in Conns |-> IF link[c].ws = "open" /\ link[c].token = request[b].token THEN NoConn ELSE link[c]]
  /\ Ends(b, "done")
  /\ UNCHANGED <<account, login, cookie, shows, script, writes, cuts, crossed, late>>

LoginExpires(t) ==
  /\ login[t].state = "live"
  /\ login' = [login EXCEPT ![t].state = "expired"]
  /\ UNCHANGED <<account, cookie, shows, request, link, script, writes, cuts, crossed, late>>

\* Everything in memory is lost; what the database has stays.
RestartApi ==
  /\ cuts < MaxCuts /\ cuts' = cuts + 1
  /\ request' = [b \in Pages |->
       IF request[b].op = "none" THEN NoRequestOf ELSE Over(request[b], "cut")]
  /\ link' = [c \in Conns |-> NoConn]
  /\ UNCHANGED <<account, login, cookie, shows, script, writes, crossed, late>>

-----------------------------------------------------------------------------
\* The sockets of terminals.

\* A socket is asked for with the cookie of a page.
OpenSocket(b, c) ==
  /\ shows[b] # NoUser /\ link[c] = NoConn
  /\ link' = [link EXCEPT ![c] = [NoConn EXCEPT !.ws = "asking", !.token = cookie[b]]]
  /\ late' = late \ {c}
  /\ UNCHANGED <<account, login, cookie, shows, request, script, writes, cuts, crossed>>

\* upgrade reads the login ...
Admit(c) ==
  LET by == Principal(link[c].token) IN
  /\ link[c].ws = "asking"
  /\ link' = [link EXCEPT ![c] = IF by = NoUser THEN NoConn ELSE [@ EXCEPT !.ws = "admitted", !.by = by]]
  /\ UNCHANGED <<account, login, cookie, shows, request, script, writes, cuts, crossed, late>>

\* ... and connection watches it when the answer is there.
Watch(c) ==
  /\ link[c].ws = "admitted"
  /\ link' = [link EXCEPT ![c].ws = "open"]
  /\ late' = IF login[link[c].token].state = "revoked" THEN late \cup {c} ELSE late
  /\ UNCHANGED <<account, login, cookie, shows, request, script, writes, cuts, crossed>>

\* Every 25 seconds the login is read again, one reading at a time.
HeartbeatReads(c) ==
  /\ link[c].ws = "open" /\ link[c].check = "none"
  /\ link' = [link EXCEPT ![c].check = IF Principal(link[c].token) = link[c].by THEN "good" ELSE "bad"]
  /\ UNCHANGED <<account, login, cookie, shows, request, script, writes, cuts, crossed, late>>

HeartbeatAnswered(c) ==
  /\ link[c].ws = "open" /\ link[c].check # "none"
  /\ link' = [link EXCEPT ![c] = IF @.check = "bad" THEN NoConn ELSE [@ EXCEPT !.check = "none"]]
  /\ UNCHANGED <<account, login, cookie, shows, request, script, writes, cuts, crossed, late>>

SocketCloses(c) ==
  /\ link[c].ws = "open"
  /\ link' = [link EXCEPT ![c] = NoConn]
  /\ UNCHANGED <<account, login, cookie, shows, request, script, writes, cuts, crossed, late>>

-----------------------------------------------------------------------------
\* The script that gives an administrator to a database without one.

ScriptLooks ==
  /\ ~script /\ \A u \in Users : ~(account[u].known /\ account[u].admin)
  /\ script' = TRUE
  /\ UNCHANGED <<account, login, cookie, shows, request, link, writes, cuts, crossed, late>>

ScriptWrites(u, p) ==
  /\ script /\ script' = FALSE
  /\ account' = [account EXCEPT ![u] = [known |-> TRUE, admin |-> TRUE, active |-> TRUE, password |-> p]]
  /\ UNCHANGED <<login, cookie, shows, request, link, writes, cuts, crossed, late>>

-----------------------------------------------------------------------------
AccountsNext ==
  \/ \E b \in Pages :
       \/ \E u \in Users, p \in Passwords : SignIn(b, u, p)
       \/ LoadPage(b) \/ SignOut(b) \/ Answer(b) \/ Fail(b)
       \/ \E p \in Passwords : ChangePassword(b, p)
       \/ \E u \in Users, e \in Edits : Manage(b, u, e)
       \/ Guard(b) \/ GetSession(b) \/ Verify(b) \/ WritePassword(b) \/ WriteAccount(b)
       \/ CreateSession(b) \/ FindSession(b) \/ Revoke(b) \/ Notify(b)
       \/ \E c \in Conns : OpenSocket(b, c)
  \/ \E t \in Tokens : LoginExpires(t)
  \/ \E c \in Conns : Admit(c) \/ Watch(c) \/ HeartbeatReads(c) \/ HeartbeatAnswered(c) \/ SocketCloses(c)
  \/ RestartApi \/ ScriptLooks \/ \E u \in Users, p \in Passwords : ScriptWrites(u, p)

AccountsSpec == AccountsInit /\ [][AccountsNext]_accountsVars

-----------------------------------------------------------------------------
\* While no change is made for someone who has meanwhile lost the role, an active administrator is
\* left, although an administrator may be demoted and disabled by another at any await of his own
\* requests (updateUserForAdmin).
AdminRemains == crossed \/ \E u \in Users : Administers(u)

\* A logout reaches every terminal of its login: a socket of a revoked login was set up after the
\* revocation, on what was read before, or the logout is just about to close it (revokeSessionToken,
\* connection).
RevocationReaches ==
  \A c \in Conns :
    link[c].ws = "open" /\ login[link[c].token].state = "revoked" =>
      c \in late \/ \E b \in Pages : request[b].pc = "revoked" /\ request[b].token = link[c].token

AccountsSafe == AdminRemains /\ RevocationReaches

\* No socket is left whose login is over or whose account is disabled (connection: heartbeat).
SocketsFollowLogin == \A c \in Conns : link[c].ws = "open" => Principal(link[c].token) = link[c].by
=============================================================================

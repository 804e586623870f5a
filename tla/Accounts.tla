------------------------------- MODULE Accounts ------------------------------
(***************************************************************************)
(* Accounts and sessions in front of module Teams: registration, login and *)
(* logout of internal/httpserver/auth.go, the session middleware that      *)
(* says on whose behalf a handler runs, and bootstrapAdmin, which every    *)
(* server runs when it starts.  One action per statement.                  *)
(*                                                                         *)
(* A user is an email (UNIQUE (org_id, email), one organization).  Who     *)
(* logs in knows the password, or fails.  A session row that has expired   *)
(* is never found again, as if it were deleted.                            *)
(***************************************************************************)
EXTENDS Teams

CONSTANTS
  Tokens,       \* session tokens
  Admin,        \* the email of BootstrapAdminEmail
  NoToken

ASSUME AdminAssumption   == Admin \in Users
ASSUME NoTokenAssumption == NoToken \notin Tokens

VARIABLES
  account,      \* users: the role of each, "none" if there is no row
  session,      \* sessions: whose a token is, NoUser if there is no valid row
  issued,       \* tokens that have been drawn
  step,         \* where a handler is before, or beside, its work for a team
  user,         \* on whose behalf, NoUser if that is not known
  token,        \* the cookie's token, or the new one
  late,         \* history: the request came after its token's logout was answered
  loggedOut,    \* history: tokens whose logout has been answered
  undeleted     \* history: tokens whose DeleteSession failed

rows         == <<account, session, issued>>
caller       == <<step, user, token, late>>
logouts      == <<loggedOut, undeleted>>
accountsVars == <<vars, rows, caller, logouts>>

AccountsInit ==
  /\ Init
  /\ account = [u \in Users |-> "none"]
  /\ session = [k \in Tokens |-> NoUser]
  /\ issued = {}
  /\ step = [r \in Requests |-> "idle"]
  /\ user = [r \in Requests |-> NoUser]
  /\ token = [r \in Requests |-> NoToken]
  /\ late = [r \in Requests |-> FALSE]
  /\ loggedOut = {}
  /\ undeleted = {}

Free(r) == step[r] = "idle"

At(r, place, u, k) ==
  /\ step' = [step EXCEPT ![r] = place]
  /\ user' = [user EXCEPT ![r] = u]
  /\ token' = [token EXCEPT ![r] = k]

\* The request is over.
Forget(r) ==
  /\ At(r, "idle", NoUser, NoToken)
  /\ late' = [late EXCEPT ![r] = FALSE]

------------------------------------------------------------------------------
\* CreateUser, unless there is a row with the email (ErrConflict).
CreateUser(u, role) ==
  account' = IF account[u] = "none" THEN [account EXCEPT ![u] = role] ELSE account

\* handleRegister: a conflict is the answer; else the session is next.
Register(r, u) ==
  /\ Free(r)
  /\ CreateUser(u, "player")
  /\ IF account[u] = "none"
       THEN At(r, "session", u, NoToken)
       ELSE UNCHANGED <<step, user, token>>
  /\ UNCHANGED <<vars, session, issued, late, logouts>>

\* handleLogin: GetUserByEmail and VerifyPassword.
Login(r, u) ==
  /\ Free(r)
  /\ account[u] # "none"
  /\ At(r, "session", u, NoToken)
  /\ UNCHANGED <<vars, rows, late, logouts>>

\* issueSession: a random token, its row, and the cookie with the answer.
IssueSession(r, k) ==
  /\ step[r] = "session"
  /\ k \notin issued
  /\ session' = [session EXCEPT ![k] = user[r]]
  /\ issued' = issued \cup {k}
  /\ Forget(r)
  /\ UNCHANGED <<vars, account, logouts>>

\* expires_at has passed.
Expire(k) ==
  /\ session[k] # NoUser
  /\ session' = [session EXCEPT ![k] = NoUser]
  /\ UNCHANGED <<vars, account, issued, caller, logouts>>

\* A logout comes with its cookie; nobody need be logged in.
BeginLogout(r, k) ==
  /\ Free(r)
  /\ At(r, "logout", NoUser, k)
  /\ UNCHANGED <<vars, rows, late, logouts>>

\* DeleteSession, by the token's hash.
DeleteSession(r) ==
  /\ step[r] = "logout"
  /\ At(r, "answer", NoUser, token[r])
  /\ session' = [session EXCEPT ![token[r]] = NoUser]
  /\ UNCHANGED <<vars, account, issued, late, logouts>>

\* Its error is dropped.
DeleteSessionFails(r) ==
  /\ StoreErrors
  /\ step[r] = "logout"
  /\ At(r, "answer", NoUser, token[r])
  /\ undeleted' = undeleted \cup {token[r]}
  /\ UNCHANGED <<vars, rows, late, loggedOut>>

\* Mutant: the cookie is cleared and answered before the row is deleted.
AnswerLogout_First(r) ==
  /\ step[r] \in {"logout", "answer"}
  /\ loggedOut' = loggedOut \cup {token[r]}
  /\ IF step[r] = "answer" THEN Forget(r) ELSE UNCHANGED caller
  /\ UNCHANGED <<vars, rows, undeleted>>

\* The cookie is cleared with the answer.
AnswerLogout(r) ==
  /\ step[r] = "answer"
  /\ loggedOut' = loggedOut \cup {token[r]}
  /\ Forget(r)
  /\ UNCHANGED <<vars, rows, undeleted>>

------------------------------------------------------------------------------
\* bootstrapAdmin finds no account with the administrator's email, or fails to
\* look.
BeginBootstrap(r) ==
  /\ Free(r)
  /\ account[Admin] = "none" \/ StoreErrors
  /\ At(r, "bootstrap", Admin, NoToken)
  /\ UNCHANGED <<vars, rows, late, logouts>>

\* Mutant: an account that is there is made the owner's.
CreateOwner_Upsert(r) ==
  /\ step[r] = "bootstrap"
  /\ account' = [account EXCEPT ![Admin] = "owner"]
  /\ Forget(r)
  /\ UNCHANGED <<vars, session, issued, logouts>>

\* It creates the owner, or somebody was faster.
CreateOwner(r) ==
  /\ step[r] = "bootstrap"
  /\ CreateUser(Admin, "owner")
  /\ Forget(r)
  /\ UNCHANGED <<vars, session, issued, logouts>>

------------------------------------------------------------------------------
\* A request for a team comes in, with a token that was given to somebody.
Send(r, k) ==
  /\ Free(r)
  /\ k \in issued
  /\ At(r, "sent", NoUser, k)
  /\ late' = [late EXCEPT ![r] = k \in loggedOut]
  /\ UNCHANGED <<vars, rows, logouts>>

\* sessionMiddleware: SessionUser, once.  Without a user requireAuth refuses.
Identify(r) ==
  /\ step[r] = "sent"
  /\ session[token[r]] # NoUser
  /\ At(r, "known", session[token[r]], token[r])
  /\ UNCHANGED <<vars, rows, late, logouts>>

\* The handler of module Teams runs for the user that was found, to its end.
ServeTeam(r) ==
  /\ step[r] = "known"
  /\ \/ \E c \in Req : c.user = user[r] /\ (BeginCreate(r, c) \/ BeginJoin(r, c))
     \/ InsertTeam(r) \/ InsertCaptain(r) \/ InsertMember(r) \/ Fail(r)
  /\ IF pc'[r] = "idle" THEN Forget(r) ELSE UNCHANGED caller
  /\ UNCHANGED <<rows, logouts>>

\* A request is refused, or a statement fails, or the client or the server is
\* gone, while no handler of Teams runs.
GiveUp(r) ==
  /\ ~Free(r)
  /\ pc[r] = "idle"
  /\ Forget(r)
  /\ UNCHANGED <<vars, rows, logouts>>

AccountsNext ==
  \/ \E r \in Requests :
       \/ \E u \in Users : Register(r, u) \/ Login(r, u)
       \/ \E k \in Tokens : IssueSession(r, k) \/ Send(r, k)
       \/ \E k \in issued : BeginLogout(r, k)
       \/ DeleteSession(r) \/ DeleteSessionFails(r) \/ AnswerLogout(r)
       \/ BeginBootstrap(r) \/ CreateOwner(r)
       \/ Identify(r) \/ ServeTeam(r) \/ GiveUp(r)
  \/ \E k \in Tokens : Expire(k)
  \/ \E m \in members : TellCode(m) /\ UNCHANGED <<rows, caller, logouts>>

AccountsSpec == AccountsInit /\ [][AccountsNext]_accountsVars

------------------------------------------------------------------------------
\* Teams, members and sessions are of people with accounts, and a handler for a
\* team runs for a user that was found.
AccountsTypeOK ==
  /\ TypeOK
  /\ account \in [Users -> {"none", "player", "owner"}]
  /\ session \in [Tokens -> Users \cup {NoUser}]
  /\ step \in [Requests -> {"idle", "session", "logout", "answer", "bootstrap", "sent", "known"}]
  /\ \A k \in Tokens : session[k] # NoUser => k \in issued /\ account[session[k]] # "none"
  /\ \A r \in Requests : pc[r] # "idle" => step[r] = "known" /\ req[r].user = user[r]
  /\ \A m \in members : account[m.user] # "none"

\* A logout that was answered ends the session: no request that comes after it is
\* served for its user, on any server, whatever was under way, unless the
\* deletion failed, an error that the handler drops (handleLogout).
LoggedOutIsOut ==
  \A r \in Requests : step[r] = "known" /\ late[r] => token[r] \in undeleted

\* No step changes an account there is: registrations and the bootstraps of
\* several servers that meet leave the one of them that was first
\* (handleRegister, bootstrapAdmin).
AccountsAreKept ==
  [][\A u \in Users : account[u] # "none" => account'[u] = account[u]]_accountsVars

=============================================================================

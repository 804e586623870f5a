--------------------------- MODULE Accounts_proofs ---------------------------
(***************************************************************************)
(* Proofs about Teams and Accounts for any number of users, tokens, team   *)
(* names and handlers: the invariants of Teams hold, and hold behind the   *)
(* sessions, an account is never changed, and a logged-out session stays   *)
(* out.                                                                    *)
(***************************************************************************)
EXTENDS Accounts, TLAPS

\* A handler that serves a call has one; a creation that has inserted its team
\* is its creator's; an invite code that is out is one of a team with a captain;
\* and who is about to join has been given the code.
HandlersAgree ==
  /\ \A r \in Requests : pc[r] # "idle" => req[r] \in Req
  /\ \A r \in Requests : pc[r] = "captain" => creator[req[r].team] = req[r].user
  /\ \A r \in Requests : pc[r] = "join" => req[r].team \in out
  /\ \A n \in out : Member(creator[n], n, "captain") \in members

IInv == TypeOK /\ OneTeamPerPlayer /\ LedByCreator /\ HandlersAgree

------------------------------------------------------------------------------
\* The empty organization satisfies the invariant.
LEMMA InitIInv == Init => IInv
  BY NoUserAssumption DEF Init, IInv, TypeOK, OneTeamPerPlayer, LedByCreator, HandlersAgree

\* A step that changes no table, and leaves its handler idle or about to insert
\* the team or the member of its call, keeps the invariant.
LEMMA HandlerStep ==
  ASSUME IInv, NEW r \in Requests, UNCHANGED <<creator, members, out>>,
         \/ Done(r)
         \/ \E c \in Req :
              /\ req' = [req EXCEPT ![r] = c]
              /\ \/ pc' = [pc EXCEPT ![r] = "team"]
                 \/ pc' = [pc EXCEPT ![r] = "join"] /\ c.team \in out
  PROVE  IInv'
<1>1. TypeOK'
  BY DEF IInv, TypeOK, Done
<1>2. OneTeamPerPlayer' /\ LedByCreator'
  BY DEF IInv, OneTeamPerPlayer, LedByCreator, Member
<1>3. HandlersAgree'
  BY NoReqAssumption DEF IInv, TypeOK, HandlersAgree, Done, Member
<1>. QED  BY <1>1, <1>2, <1>3 DEF IInv

\* The insert of a team whose name is free.
LEMMA InsertTeamStep ==
  ASSUME IInv, NEW r \in Requests, InsertTeam(r)
  PROVE  IInv'
<1>1. CASE creator[req[r].team] # NoUser
  BY <1>1, HandlerStep DEF InsertTeam
<1>2. CASE creator[req[r].team] = NoUser
  <2>. PICK c \in Req : c = req[r]
    BY DEF IInv, HandlersAgree, InsertTeam
  <2>1. /\ c.user \in Users /\ c.team \in Names
        /\ creator[c.team] = NoUser /\ NoUser \notin Users
    BY <1>2, NoUserAssumption DEF Req
  <2>2. /\ creator' = [creator EXCEPT ![c.team] = c.user]
        /\ pc' = [pc EXCEPT ![r] = "captain"]
        /\ members' = members /\ out' = out /\ req' = req
    BY <1>2 DEF InsertTeam
  <2>3. \A n \in Names : creator[n] # NoUser => n # c.team /\ creator'[n] = creator[n]
    BY <2>1, <2>2 DEF IInv, TypeOK
  <2>4. creator'[c.team] = c.user
    BY <2>1, <2>2 DEF IInv, TypeOK
  <2>5. \A m \in members : m.team \in Names /\ creator'[m.team] = creator[m.team]
    BY <2>3 DEF IInv, TypeOK
  <2>6. \A n \in out : n \in Names /\ creator'[n] = creator[n]
    BY <2>3 DEF IInv, TypeOK
  <2>7. TypeOK'
    <3>1. creator' \in [Names -> Users \cup {NoUser}]
      BY <2>1, <2>2 DEF IInv, TypeOK
    <3>2. out' \subseteq {n \in Names : creator'[n] # NoUser}
      BY <2>2, <2>6 DEF IInv, TypeOK
    <3>3. \A m \in members' : creator'[m.team] # NoUser
      BY <2>2, <2>5 DEF IInv, TypeOK
    <3>. QED  BY <2>2, <3>1, <3>2, <3>3 DEF IInv, TypeOK
  <2>8. OneTeamPerPlayer'
    BY <2>2 DEF IInv, OneTeamPerPlayer
  <2>9. LedByCreator'
    BY <2>2, <2>5 DEF IInv, LedByCreator, Member
  <2>10. HandlersAgree'
    <3>1. \A q \in Requests : pc'[q] # "idle" => req'[q] \in Req
      BY <2>2 DEF IInv, TypeOK, HandlersAgree
    <3>2. \A q \in Requests : pc'[q] = "captain" => creator'[req'[q].team] = req'[q].user
      <4>. SUFFICES ASSUME NEW q \in Requests, pc'[q] = "captain"
                    PROVE  creator'[req[q].team] = req[q].user
        BY <2>2
      <4>1. CASE q = r
        BY <4>1, <2>4
      <4>2. CASE q # r
        <5>1. pc[q] = "captain"
          BY <4>2, <2>2 DEF IInv, TypeOK
        <5>2. req[q] \in Req /\ creator[req[q].team] = req[q].user
          BY <5>1 DEF IInv, HandlersAgree
        <5>. QED  BY <5>2, <2>1, <2>3 DEF Req
      <4>. QED  BY <4>1, <4>2
    <3>3. \A q \in Requests : pc'[q] = "join" => req'[q].team \in out'
      BY <2>2 DEF IInv, TypeOK, HandlersAgree
    <3>4. \A n \in out' : Member(creator'[n], n, "captain") \in members'
      BY <2>2, <2>6 DEF IInv, HandlersAgree, Member
    <3>. QED  BY <3>1, <3>2, <3>3, <3>4 DEF HandlersAgree, Member
  <2>. QED  BY <2>7, <2>8, <2>9, <2>10 DEF IInv
<1>. QED  BY <1>1, <1>2

\* The insert of a member: its captain, or somebody into a team with a captain.
LEMMA AddTeamMemberStep ==
  ASSUME IInv, NEW r \in Requests, NEW role \in {"captain", "member"},
         \/ pc[r] = "captain" /\ role = "captain"
         \/ pc[r] = "join" /\ role = "member",
         AddTeamMember(r, role)
  PROVE  IInv'
<1>1. CASE HasTeam(req[r].user)
  BY <1>1, HandlerStep DEF AddTeamMember
<1>2. CASE ~HasTeam(req[r].user)
  <2>. PICK c \in Req : c = req[r]
    BY DEF IInv, HandlersAgree
  <2>. DEFINE new == Member(c.user, c.team, role)
  <2>1. /\ members' = members \cup {new}
        /\ creator' = creator /\ out' = out
    BY <1>2 DEF AddTeamMember
  <2>2. Done(r)
    BY DEF AddTeamMember
  <2>3. c.user \in Users /\ c.team \in Names
    BY DEF Req
  <2>4. /\ \A m \in members : m.user # c.user
        /\ new.user = c.user /\ new.team = c.team /\ new.role = role
    BY <1>2 DEF HasTeam, Member
  <2>5. /\ creator[c.team] # NoUser
        /\ role = "captain" => creator[c.team] = c.user
        /\ role = "member" => Member(creator[c.team], c.team, "captain") \in members
    BY <2>3, NoUserAssumption DEF IInv, TypeOK, HandlersAgree
  <2>6. TypeOK'
    <3>1. members' \subseteq [user : Users, team : Names, role : {"captain", "member"}]
      BY <2>1, <2>3 DEF IInv, TypeOK, Member
    <3>2. \A m \in members' : creator'[m.team] # NoUser
      BY <2>1, <2>4, <2>5 DEF IInv, TypeOK
    <3>3. pc' \in [Requests -> {"idle", "team", "captain", "join"}]
          /\ req' \in [Requests -> Req \cup {NoReq}]
      BY <2>2 DEF IInv, TypeOK, Done
    <3>. QED  BY <2>1, <3>1, <3>2, <3>3 DEF IInv, TypeOK
  <2>7. OneTeamPerPlayer'
    BY <2>1, <2>4 DEF IInv, OneTeamPerPlayer
  <2>8. LedByCreator'
    <3>. SUFFICES ASSUME NEW m \in members'
                  PROVE  /\ Member(creator[m.team], m.team, "captain") \in members'
                         /\ m.role = "captain" => m.user = creator[m.team]
      BY <2>1 DEF LedByCreator, Member
    <3>1. CASE m \in members
      BY <3>1, <2>1 DEF IInv, LedByCreator
    <3>2. CASE m = new
      BY <3>2, <2>1, <2>4, <2>5
    <3>. QED  BY <3>1, <3>2, <2>1
  <2>9. HandlersAgree'
    <3>1. \A n \in out' : Member(creator'[n], n, "captain") \in members'
      BY <2>1 DEF IInv, HandlersAgree, Member
    <3>2. \A q \in Requests : pc'[q] # "idle" => pc'[q] = pc[q] /\ req'[q] = req[q]
      BY <2>2 DEF IInv, TypeOK, Done
    <3>. QED  BY <2>1, <3>1, <3>2 DEF IInv, HandlersAgree, Member
  <2>. QED  BY <2>6, <2>7, <2>8, <2>9 DEF IInv
<1>. QED  BY <1>1, <1>2

\* An answer with the code goes to a member of a team, which has its captain.
LEMMA TellCodeStep ==
  ASSUME IInv, NEW m \in members, TellCode(m)
  PROVE  IInv'
<1>1. /\ m.team \in Names /\ creator[m.team] # NoUser
      /\ Member(creator[m.team], m.team, "captain") \in members
  BY DEF IInv, TypeOK, LedByCreator
<1>2. TypeOK'
  BY <1>1 DEF IInv, TypeOK, TellCode
<1>3. OneTeamPerPlayer' /\ LedByCreator'
  BY DEF IInv, OneTeamPerPlayer, LedByCreator, TellCode, Member
<1>4. HandlersAgree'
  BY <1>1 DEF IInv, HandlersAgree, TellCode, Member
<1>. QED  BY <1>2, <1>3, <1>4 DEF IInv

\* Every step keeps the invariant.
LEMMA NextIInv == IInv /\ [Next]_vars => IInv'
<1>. SUFFICES ASSUME IInv, [Next]_vars PROVE IInv'
  OBVIOUS
<1>1. CASE UNCHANGED vars
  BY <1>1 DEF IInv, TypeOK, OneTeamPerPlayer, LedByCreator, HandlersAgree, Member, vars
<1>2. ASSUME NEW r \in Requests, NEW c \in Req, BeginCreate(r, c)
      PROVE  IInv'
  BY <1>2, HandlerStep DEF BeginCreate
<1>3. ASSUME NEW r \in Requests, NEW c \in Req, BeginJoin(r, c)
      PROVE  IInv'
  BY <1>3, HandlerStep DEF BeginJoin
<1>4. ASSUME NEW r \in Requests, InsertTeam(r)
      PROVE  IInv'
  BY <1>4, InsertTeamStep
<1>5. ASSUME NEW r \in Requests, InsertCaptain(r)
      PROVE  IInv'
  BY <1>5, AddTeamMemberStep DEF InsertCaptain
<1>6. ASSUME NEW r \in Requests, InsertMember(r)
      PROVE  IInv'
  BY <1>6, AddTeamMemberStep DEF InsertMember
<1>7. ASSUME NEW r \in Requests, Fail(r)
      PROVE  IInv'
  BY <1>7, HandlerStep DEF Fail
<1>8. ASSUME NEW m \in members, TellCode(m)
      PROVE  IInv'
  BY <1>8, TellCodeStep
<1>. QED  BY <1>1, <1>2, <1>3, <1>4, <1>5, <1>6, <1>7, <1>8 DEF Next

\* Every behaviour satisfies the inductive invariant.
THEOREM Invariance == Spec => []IInv
  BY InitIInv, NextIInv, PTL DEF Spec

\* Rows and handlers are of their types, and no row is of a team that is not
\* there (handleCreateTeam, handleJoinTeam).
THEOREM TypeCorrect == Spec => []TypeOK
  BY Invariance, PTL DEF IInv

\* One team per player, for any number of creations and joins at once
\* (AddTeamMember).
THEOREM OneTeam == Spec => []OneTeamPerPlayer
  BY Invariance, PTL DEF IInv

\* Every team with members is led by its creator, whatever creations stop half
\* way (handleCreateTeam).
THEOREM Led == Spec => []LedByCreator
  BY Invariance, PTL DEF IInv

------------------------------------------------------------------------------
(* Accounts. *)

Steps == {"idle", "session", "logout", "answer", "bootstrap", "sent", "known"}

\* A token that finds nobody, unless its deletion failed.
Over(k) == session[k] = NoUser \/ k \in undeleted

RowsOK ==
  /\ account \in [Users -> {"none", "player", "owner"}]
  /\ session \in [Tokens -> Users \cup {NoUser}]
  /\ issued \subseteq Tokens
  /\ loggedOut \subseteq issued
  /\ \A k \in Tokens : session[k] # NoUser => k \in issued /\ account[session[k]] # "none"
  /\ \A k \in loggedOut : Over(k)

CallersTyped ==
  /\ step \in [Requests -> Steps]
  /\ user \in [Requests -> Users \cup {NoUser}]
  /\ token \in [Requests -> Tokens \cup {NoToken}]
  /\ late \in [Requests -> BOOLEAN]

\* What a handler knows of its user and its token at each point.
CallerOK(r) ==
  /\ step[r] \in {"session", "known"} => user[r] \in Users /\ account[user[r]] # "none"
  /\ step[r] \in {"logout", "answer", "sent", "known"} => token[r] \in issued
  /\ step[r] = "answer" => Over(token[r])
  /\ late[r] => step[r] \in {"sent", "known"} /\ token[r] \in loggedOut
  /\ step[r] = "known" /\ late[r] => token[r] \in undeleted

CallersOK == CallersTyped /\ \A r \in Requests : CallerOK(r)

\* Teams and their members are of users with accounts.
TeamsOK ==
  /\ \A r \in Requests : pc[r] # "idle" => step[r] = "known" /\ req[r].user = user[r]
  /\ \A m \in members : account[m.user] # "none"

SInv == IInv /\ RowsOK /\ CallersOK /\ TeamsOK

------------------------------------------------------------------------------
\* Accounts that are there are kept, tokens stay drawn, and what is over stays
\* over.
RowsGrow ==
  /\ \A u \in Users : account[u] # "none" => account'[u] = account[u]
  /\ issued \subseteq issued'
  /\ loggedOut \subseteq loggedOut'
  /\ undeleted \subseteq undeleted'
  /\ \A k \in issued : Over(k) => Over(k)'

\* The empty organization satisfies the invariant.
LEMMA InitSInv == AccountsInit => SInv
<1>. SUFFICES ASSUME AccountsInit PROVE SInv
  OBVIOUS
<1>1. IInv
  BY InitIInv DEF AccountsInit
<1>2. RowsOK /\ CallersOK /\ TeamsOK
  BY NoUserAssumption DEF AccountsInit, Init, RowsOK, CallersOK, CallersTyped, CallerOK, TeamsOK,
                          Steps
<1>. QED  BY <1>1, <1>2 DEF SInv

\* CreateUser keeps the accounts there are, and afterwards there is one.
LEMMA CreateUserStep ==
  ASSUME RowsOK, NEW u \in Users, NEW role \in {"player", "owner"}, CreateUser(u, role)
  PROVE  /\ account' \in [Users -> {"none", "player", "owner"}]
         /\ \A v \in Users : account[v] # "none" => account'[v] = account[v]
         /\ account'[u] # "none"
BY DEF CreateUser, RowsOK

\* A step that moves one handler outside Teams keeps the invariant, if the rows
\* only grow and the handler knows what it should.
LEMMA MoveStep ==
  ASSUME SInv, RowsGrow, RowsOK', UNCHANGED vars, NEW r \in Requests, pc[r] = "idle",
         CallersTyped', CallerOK(r)',
         \A q \in Requests \ {r} : /\ step'[q] = step[q] /\ user'[q] = user[q]
                                   /\ token'[q] = token[q] /\ late'[q] = late[q]
  PROVE  SInv'
<1>1. IInv'
  <2>1. [Next]_vars
    OBVIOUS
  <2>. QED  BY <2>1, NextIInv DEF SInv
<1>2. ASSUME NEW q \in Requests, q # r
      PROVE  CallerOK(q)'
  <2>1. CallerOK(q)
    BY DEF SInv, CallersOK
  <2>. QED  BY <1>2, <2>1 DEF CallerOK, RowsGrow, SInv, RowsOK
<1>3. CallersOK'
  BY <1>2 DEF CallersOK
<1>4. \A q \in Requests : pc[q] # "idle" => step[q] = "known" /\ req[q].user = user[q] /\ q # r
  BY DEF SInv, TeamsOK
<1>5. \A q \in Requests : pc'[q] # "idle" => step'[q] = "known" /\ req'[q].user = user'[q]
  BY <1>4 DEF vars
<1>6. \A m \in members : m.user \in Users
  BY DEF SInv, IInv, TypeOK
<1>7. \A m \in members' : account'[m.user] # "none"
  BY <1>6 DEF SInv, TeamsOK, RowsGrow, vars
<1>. QED  BY <1>1, <1>3, <1>5, <1>7 DEF SInv, TeamsOK

\* A free handler has no team's work to do.
LEMMA FreeIsIdle ==
  ASSUME SInv, NEW r \in Requests, step[r] # "known"
  PROVE  pc[r] = "idle"
BY DEF SInv, TeamsOK

\* Forget and At touch one handler.
LEMMA AtTyped ==
  ASSUME CallersTyped, NEW r \in Requests, NEW place \in Steps,
         NEW u \in Users \cup {NoUser}, NEW k \in Tokens \cup {NoToken}, At(r, place, u, k)
  PROVE  /\ late' \in [Requests -> BOOLEAN] => CallersTyped'
         /\ step'[r] = place /\ user'[r] = u /\ token'[r] = k
         /\ \A q \in Requests \ {r} : step'[q] = step[q] /\ user'[q] = user[q] /\ token'[q] = token[q]
BY DEF At, CallersTyped

LEMMA ForgetTyped ==
  ASSUME CallersTyped, NEW r \in Requests, Forget(r)
  PROVE  /\ CallersTyped'
         /\ step'[r] = "idle" /\ ~late'[r]
         /\ \A q \in Requests \ {r} : /\ step'[q] = step[q] /\ user'[q] = user[q]
                                      /\ token'[q] = token[q] /\ late'[q] = late[q]
BY DEF Forget, At, CallersTyped, Steps


------------------------------------------------------------------------------
\* A registration inserts the account, and knows it from then on.
LEMMA RegisterStep ==
  ASSUME SInv, NEW r \in Requests, NEW u \in Users, Register(r, u)
  PROVE  SInv'
<1>1. pc[r] = "idle"
  BY FreeIsIdle DEF Register, Free
<1>2. /\ account' \in [Users -> {"none", "player", "owner"}]
      /\ \A v \in Users : account[v] # "none" => account'[v] = account[v]
      /\ account'[u] # "none"
  BY CreateUserStep DEF Register, SInv
<1>3. RowsGrow /\ RowsOK'
  BY <1>2, NoUserAssumption DEF Register, rows, logouts, SInv, RowsOK, RowsGrow, Over
<1>4. CASE account[u] = "none"
  <2>1. At(r, "session", u, NoToken) /\ late' = late /\ ~late[r]
    BY <1>4 DEF Register, Free, SInv, CallersOK, CallerOK, CallersTyped
  <2>2. CallersTyped'
    BY <2>1, AtTyped DEF SInv, CallersOK, CallersTyped, Steps
  <2>3. CallerOK(r)'
    BY <1>2, <2>1 DEF At, CallerOK, SInv, CallersOK, CallersTyped
  <2>. QED  BY <1>1, <1>3, <2>1, <2>2, <2>3, MoveStep DEF Register, At
<1>5. CASE account[u] # "none"
  <2>1. UNCHANGED caller
    BY <1>5 DEF Register, caller
  <2>2. CallersTyped' /\ CallerOK(r)'
    BY <1>3, <2>1 DEF caller, CallersTyped, CallerOK, SInv, CallersOK, Register, Free
  <2>. QED  BY <1>1, <1>3, <2>1, <2>2, MoveStep DEF Register, caller
<1>. QED  BY <1>4, <1>5

\* A step that moves a free handler to a place that knows a user, a token or
\* neither, and writes no row.
LEMMA ReadStep ==
  ASSUME SInv, NEW r \in Requests, pc[r] = "idle", UNCHANGED <<vars, rows, logouts>>,
         NEW place \in Steps, NEW u \in Users \cup {NoUser}, NEW k \in Tokens \cup {NoToken},
         At(r, place, u, k), late' \in [Requests -> BOOLEAN],
         \A q \in Requests \ {r} : late'[q] = late[q],
         CallerOK(r)'
  PROVE  SInv'
<1>1. RowsGrow /\ RowsOK'
  BY DEF rows, logouts, RowsGrow, RowsOK, Over, SInv
<1>2. /\ CallersTyped'
      /\ \A q \in Requests \ {r} : step'[q] = step[q] /\ user'[q] = user[q] /\ token'[q] = token[q]
  BY AtTyped DEF SInv, CallersOK
<1>. QED  BY <1>1, <1>2, MoveStep

\* Nothing is late outside a request for a team.
LEMMA NotLate ==
  ASSUME SInv, NEW r \in Requests, step[r] \notin {"sent", "known"}
  PROVE  ~late[r] /\ late \in [Requests -> BOOLEAN]
BY DEF SInv, CallersOK, CallersTyped, CallerOK

LEMMA LoginStep ==
  ASSUME SInv, NEW r \in Requests, NEW u \in Users, Login(r, u)
  PROVE  SInv'
<1>1. pc[r] = "idle" /\ ~late[r] /\ late \in [Requests -> BOOLEAN]
  BY FreeIsIdle, NotLate DEF Login, Free
<1>2. CallerOK(r)'
  BY <1>1 DEF Login, At, rows, logouts, CallerOK, Over, SInv, CallersOK, CallersTyped
<1>. QED  BY <1>1, <1>2, ReadStep DEF Login, Steps

LEMMA BeginLogoutStep ==
  ASSUME SInv, NEW r \in Requests, NEW k \in issued, BeginLogout(r, k)
  PROVE  SInv'
<1>1. pc[r] = "idle" /\ ~late[r] /\ late \in [Requests -> BOOLEAN] /\ k \in Tokens
  BY FreeIsIdle, NotLate DEF BeginLogout, Free, SInv, RowsOK
<1>2. CallerOK(r)'
  BY <1>1 DEF BeginLogout, At, rows, logouts, CallerOK, Over, SInv, CallersOK, CallersTyped
<1>. QED  BY <1>1, <1>2, ReadStep DEF BeginLogout, Steps

LEMMA BeginBootstrapStep ==
  ASSUME SInv, NEW r \in Requests, BeginBootstrap(r)
  PROVE  SInv'
<1>1. pc[r] = "idle" /\ ~late[r] /\ late \in [Requests -> BOOLEAN]
  BY FreeIsIdle, NotLate DEF BeginBootstrap, Free
<1>2. CallerOK(r)'
  BY <1>1 DEF BeginBootstrap, At, rows, logouts, CallerOK, Over, SInv, CallersOK, CallersTyped
<1>. QED  BY <1>1, <1>2, ReadStep, AdminAssumption DEF BeginBootstrap, Steps

\* A request that comes in late carries a token that is over.
LEMMA SendStep ==
  ASSUME SInv, NEW r \in Requests, NEW k \in Tokens, Send(r, k)
  PROVE  SInv'
<1>1. pc[r] = "idle"
  BY FreeIsIdle DEF Send, Free
<1>2. /\ late' \in [Requests -> BOOLEAN] /\ late'[r] = (k \in loggedOut)
      /\ \A q \in Requests \ {r} : late'[q] = late[q]
  BY DEF Send, SInv, CallersOK, CallersTyped
<1>3. CallerOK(r)'
  BY <1>2 DEF Send, At, rows, logouts, CallerOK, Over, SInv, CallersOK, CallersTyped
<1>. QED  BY <1>1, <1>2, <1>3, ReadStep DEF Send, Steps

\* Whoever is found by a late request's token was not deleted.
LEMMA IdentifyStep ==
  ASSUME SInv, NEW r \in Requests, Identify(r)
  PROVE  SInv'
<1>1. pc[r] = "idle"
  BY FreeIsIdle DEF Identify
<1>2. token[r] \in issued /\ token[r] \in Tokens
  BY DEF Identify, SInv, CallersOK, CallerOK, RowsOK
<1>3. /\ session[token[r]] \in Users /\ account[session[token[r]]] # "none"
      /\ token[r] \in loggedOut => token[r] \in undeleted
  BY <1>2 DEF Identify, SInv, RowsOK, Over
<1>4. late \in [Requests -> BOOLEAN] /\ (late[r] => token[r] \in loggedOut)
  BY DEF SInv, CallersOK, CallersTyped, CallerOK
<1>5. CallerOK(r)'
  BY <1>2, <1>3, <1>4 DEF Identify, At, rows, logouts, CallerOK, Over, SInv, CallersOK, CallersTyped
<1>. QED  BY <1>1, <1>2, <1>3, <1>4, <1>5, ReadStep DEF Identify, Steps

\* A request that is over.
LEMMA ForgetStep ==
  ASSUME SInv, NEW r \in Requests, pc[r] = "idle", RowsGrow, RowsOK', UNCHANGED vars, Forget(r)
  PROVE  SInv'
<1>1. /\ CallersTyped'
      /\ step'[r] = "idle" /\ ~late'[r]
      /\ \A q \in Requests \ {r} : /\ step'[q] = step[q] /\ user'[q] = user[q]
                                   /\ token'[q] = token[q] /\ late'[q] = late[q]
  BY ForgetTyped DEF SInv, CallersOK
<1>2. CallerOK(r)'
  BY <1>1 DEF CallerOK
<1>. QED  BY <1>1, <1>2, MoveStep

\* A token is new: nobody has logged out with it, and no request carries it.
LEMMA IssueSessionStep ==
  ASSUME SInv, NEW r \in Requests, NEW k \in Tokens, IssueSession(r, k)
  PROVE  SInv'
<1>1. pc[r] = "idle"
  BY FreeIsIdle DEF IssueSession
<1>2. user[r] \in Users /\ account[user[r]] # "none"
  BY DEF IssueSession, SInv, CallersOK, CallerOK
<1>3. k \notin issued /\ session' = [session EXCEPT ![k] = user[r]] /\ issued' = issued \cup {k}
      /\ account' = account /\ loggedOut' = loggedOut /\ undeleted' = undeleted
  BY DEF IssueSession, logouts
<1>4. RowsGrow
  BY <1>3 DEF RowsGrow, Over, SInv, RowsOK
<1>5. RowsOK'
  BY <1>2, <1>3 DEF RowsOK, Over, SInv
<1>. QED  BY <1>1, <1>4, <1>5, ForgetStep DEF IssueSession

\* A session that ends, by expiry or by a logout, ends for good.
LEMMA SessionEnds ==
  ASSUME SInv, NEW k \in Tokens, session' = [session EXCEPT ![k] = NoUser],
         UNCHANGED <<account, issued, logouts>>
  PROVE  RowsGrow /\ RowsOK' /\ Over(k)'
BY DEF RowsGrow, RowsOK, Over, SInv, logouts

LEMMA ExpireStep ==
  ASSUME SInv, NEW k \in Tokens, Expire(k)
  PROVE  SInv'
<1>1. RowsGrow /\ RowsOK'
  BY SessionEnds DEF Expire
<1>2. IInv'
  BY NextIInv DEF SInv, Expire
<1>3. CallersOK'
  BY <1>1 DEF SInv, CallersOK, CallersTyped, CallerOK, Expire, caller, RowsGrow, RowsOK, logouts
<1>4. TeamsOK'
  BY DEF SInv, TeamsOK, Expire, vars, caller
<1>. QED  BY <1>1, <1>2, <1>3, <1>4 DEF SInv

LEMMA DeleteSessionStep ==
  ASSUME SInv, NEW r \in Requests, DeleteSession(r)
  PROVE  SInv'
<1>1. pc[r] = "idle" /\ ~late[r] /\ late \in [Requests -> BOOLEAN]
  BY FreeIsIdle, NotLate DEF DeleteSession
<1>2. token[r] \in issued /\ token[r] \in Tokens
  BY DEF DeleteSession, SInv, CallersOK, CallerOK, RowsOK
<1>3. /\ CallersTyped' /\ step'[r] = "answer" /\ token'[r] = token[r] /\ late' = late
      /\ \A q \in Requests \ {r} : step'[q] = step[q] /\ user'[q] = user[q] /\ token'[q] = token[q]
  <2>1. At(r, "answer", NoUser, token[r]) /\ late' = late /\ CallersTyped
    BY DEF DeleteSession, SInv, CallersOK
  <2>2. "answer" \in Steps
    BY DEF Steps
  <2>. QED  BY <1>1, <1>2, <2>1, <2>2, AtTyped
<1>4. RowsGrow /\ RowsOK' /\ Over(token[r])'
  <2>1. \A k \in Tokens : session' = [session EXCEPT ![k] = NoUser] => session'[k] = NoUser
    BY DEF SInv, RowsOK
  <2>. QED  BY <1>2, <1>3, <2>1, SessionEnds DEF DeleteSession, Over
<1>5. CallerOK(r)'
  BY <1>1, <1>2, <1>3, <1>4 DEF CallerOK, Over, RowsGrow
<1>. QED  BY <1>1, <1>3, <1>4, <1>5, MoveStep DEF DeleteSession

LEMMA DeleteSessionFailsStep ==
  ASSUME SInv, NEW r \in Requests, DeleteSessionFails(r)
  PROVE  SInv'
<1>1. pc[r] = "idle" /\ ~late[r] /\ late \in [Requests -> BOOLEAN]
  BY FreeIsIdle, NotLate DEF DeleteSessionFails
<1>2. token[r] \in issued /\ token[r] \in Tokens
  BY DEF DeleteSessionFails, SInv, CallersOK, CallerOK, RowsOK
<1>3. /\ CallersTyped' /\ step'[r] = "answer" /\ token'[r] = token[r] /\ late' = late
      /\ \A q \in Requests \ {r} : step'[q] = step[q] /\ user'[q] = user[q] /\ token'[q] = token[q]
  <2>1. At(r, "answer", NoUser, token[r]) /\ late' = late /\ CallersTyped
    BY DEF DeleteSessionFails, SInv, CallersOK
  <2>2. "answer" \in Steps
    BY DEF Steps
  <2>. QED  BY <1>1, <1>2, <2>1, <2>2, AtTyped
<1>4. RowsGrow /\ RowsOK' /\ Over(token[r])'
  BY <1>2, <1>3 DEF DeleteSessionFails, rows, RowsGrow, RowsOK, Over, SInv
<1>5. CallerOK(r)'
  BY <1>1, <1>2, <1>3, <1>4 DEF CallerOK, Over, RowsGrow
<1>. QED  BY <1>1, <1>3, <1>4, <1>5, MoveStep DEF DeleteSessionFails

\* What is answered as logged out is over.
LEMMA AnswerLogoutStep ==
  ASSUME SInv, NEW r \in Requests, AnswerLogout(r)
  PROVE  SInv'
<1>1. pc[r] = "idle"
  BY FreeIsIdle DEF AnswerLogout
<1>2. token[r] \in issued /\ Over(token[r])
  BY DEF AnswerLogout, SInv, CallersOK, CallerOK
<1>3. RowsGrow /\ RowsOK'
  BY <1>2 DEF AnswerLogout, rows, RowsGrow, RowsOK, Over, SInv
<1>. QED  BY <1>1, <1>3, ForgetStep DEF AnswerLogout

LEMMA CreateOwnerStep ==
  ASSUME SInv, NEW r \in Requests, CreateOwner(r)
  PROVE  SInv'
<1>1. pc[r] = "idle"
  BY FreeIsIdle DEF CreateOwner
<1>2. /\ account' \in [Users -> {"none", "player", "owner"}]
      /\ \A v \in Users : account[v] # "none" => account'[v] = account[v]
  BY CreateUserStep, AdminAssumption DEF CreateOwner, SInv
<1>3. RowsGrow /\ RowsOK'
  BY <1>2, NoUserAssumption DEF CreateOwner, logouts, SInv, RowsOK, RowsGrow, Over
<1>. QED  BY <1>1, <1>3, ForgetStep DEF CreateOwner

LEMMA GiveUpStep ==
  ASSUME SInv, NEW r \in Requests, GiveUp(r)
  PROVE  SInv'
<1>1. RowsGrow /\ RowsOK'
  BY DEF GiveUp, rows, logouts, RowsGrow, RowsOK, Over, SInv
<1>. QED  BY <1>1, ForgetStep DEF GiveUp

\* A step of Teams' handler changes the handler's call only, and adds at most a
\* member that is the call's user.
LEMMA TeamsFrame ==
  ASSUME IInv, NEW r \in Requests,
         \/ \E c \in Req : c.user = user[r] /\ (BeginCreate(r, c) \/ BeginJoin(r, c))
         \/ InsertTeam(r) \/ InsertCaptain(r) \/ InsertMember(r) \/ Fail(r)
  PROVE  /\ [Next]_vars
         /\ \A q \in Requests \ {r} : pc'[q] = pc[q] /\ req'[q] = req[q]
         /\ pc'[r] # "idle" => \/ req'[r].user = user[r]
                               \/ pc[r] # "idle" /\ req'[r] = req[r]
         /\ \A m \in members' \ members : pc[r] # "idle" /\ m.user = req[r].user
<1>1. [Next]_vars
  BY DEF Next
<1>2. pc \in [Requests -> {"idle", "team", "captain", "join"}] /\ req \in [Requests -> Req \cup {NoReq}]
  BY DEF IInv, TypeOK
<1>3. CASE \E c \in Req : c.user = user[r] /\ (BeginCreate(r, c) \/ BeginJoin(r, c))
  BY <1>1, <1>2, <1>3 DEF BeginCreate, BeginJoin
<1>4. CASE InsertTeam(r)
  BY <1>1, <1>2, <1>4 DEF InsertTeam, Done
<1>5. CASE InsertCaptain(r) \/ InsertMember(r)
  BY <1>1, <1>2, <1>5 DEF InsertCaptain, InsertMember, AddTeamMember, Done, Member
<1>6. CASE Fail(r)
  BY <1>1, <1>2, <1>6 DEF Fail, Done
<1>. QED  BY <1>3, <1>4, <1>5, <1>6

\* A handler of Teams works for the user that was found, and for nobody else.
LEMMA ServeTeamStep ==
  ASSUME SInv, NEW r \in Requests, ServeTeam(r)
  PROVE  SInv'
<1>1. /\ [Next]_vars
      /\ \A q \in Requests \ {r} : pc'[q] = pc[q] /\ req'[q] = req[q]
      /\ pc'[r] # "idle" => \/ req'[r].user = user[r]
                            \/ pc[r] # "idle" /\ req'[r] = req[r]
      /\ \A m \in members' \ members : pc[r] # "idle" /\ m.user = req[r].user
  BY TeamsFrame DEF SInv, ServeTeam
<1>2. /\ step[r] = "known" /\ account[user[r]] # "none"
      /\ pc[r] # "idle" => req[r].user = user[r]
  BY DEF ServeTeam, SInv, CallersOK, CallerOK, TeamsOK
<1>3. /\ IF pc'[r] = "idle" THEN Forget(r) ELSE UNCHANGED caller
      /\ UNCHANGED <<rows, logouts>>
  BY DEF ServeTeam
<1>4. IInv'
  BY <1>1, NextIInv DEF SInv
<1>5. RowsOK'
  BY <1>3 DEF SInv, RowsOK, Over, rows, logouts
<1>6. /\ CallersTyped'
      /\ pc'[r] = "idle" => step'[r] = "idle" /\ ~late'[r]
      /\ pc'[r] # "idle" => UNCHANGED caller
      /\ \A q \in Requests \ {r} : /\ step'[q] = step[q] /\ user'[q] = user[q]
                                   /\ token'[q] = token[q] /\ late'[q] = late[q]
  <2>1. CASE pc'[r] = "idle"
    BY <1>3, <2>1, ForgetTyped DEF SInv, CallersOK
  <2>2. CASE pc'[r] # "idle"
    BY <1>3, <2>2 DEF SInv, CallersOK, CallersTyped, caller
  <2>. QED  BY <2>1, <2>2
<1>7. CallersOK'
  <2>1. ASSUME NEW q \in Requests
        PROVE  CallerOK(q)'
    <3>1. CallerOK(q)
      BY DEF SInv, CallersOK
    <3>2. CASE q = r /\ pc'[r] = "idle"
      BY <1>6, <3>2 DEF CallerOK
    <3>3. CASE q # r \/ pc'[r] # "idle"
      BY <1>3, <1>6, <3>1, <3>3 DEF CallerOK, Over, rows, logouts, caller
    <3>. QED  BY <3>2, <3>3
  <2>. QED  BY <1>6, <2>1 DEF CallersOK
<1>8. TeamsOK'
  <2>1. account' = account
    BY <1>3 DEF rows
  <2>2. \A m \in members' : account'[m.user] # "none"
    BY <1>1, <1>2, <2>1 DEF SInv, TeamsOK
  <2>3. \A q \in Requests : pc'[q] # "idle" => step'[q] = "known" /\ req'[q].user = user'[q]
    BY <1>1, <1>2, <1>6 DEF SInv, TeamsOK, caller
  <2>. QED  BY <2>2, <2>3 DEF TeamsOK
<1>. QED  BY <1>4, <1>5, <1>7, <1>8 DEF SInv

\* An invite code concerns no account.
LEMMA TellStep ==
  ASSUME SInv, NEW m \in members, TellCode(m), UNCHANGED <<rows, caller, logouts>>
  PROVE  SInv'
<1>1. IInv'
  <2>1. [Next]_vars
    BY DEF Next
  <2>. QED  BY <2>1, NextIInv DEF SInv
<1>2. RowsOK' /\ CallersOK'
  BY DEF SInv, RowsOK, CallersOK, CallersTyped, CallerOK, Over, rows, caller, logouts
<1>3. TeamsOK'
  BY DEF SInv, TeamsOK, TellCode, rows, caller
<1>. QED  BY <1>1, <1>2, <1>3 DEF SInv

\* Every step keeps the invariant.
LEMMA NextSInv == SInv /\ [AccountsNext]_accountsVars => SInv'
<1>. SUFFICES ASSUME SInv, [AccountsNext]_accountsVars PROVE SInv'
  OBVIOUS
<1>1. CASE UNCHANGED accountsVars
  <2>1. UNCHANGED vars /\ UNCHANGED <<rows, caller, logouts>>
    BY <1>1 DEF accountsVars
  <2>2. IInv'
    BY <2>1, NextIInv DEF SInv
  <2>3. RowsOK' /\ CallersOK' /\ TeamsOK'
    BY <2>1 DEF SInv, RowsOK, CallersOK, CallersTyped, CallerOK, TeamsOK, Over, rows, caller,
                logouts, vars
  <2>. QED  BY <2>2, <2>3 DEF SInv
<1>2. ASSUME NEW r \in Requests, NEW u \in Users, Register(r, u) \/ Login(r, u)
      PROVE  SInv'
  BY <1>2, RegisterStep, LoginStep
<1>3. ASSUME NEW r \in Requests, NEW k \in Tokens, IssueSession(r, k) \/ Send(r, k)
      PROVE  SInv'
  BY <1>3, IssueSessionStep, SendStep
<1>4. ASSUME NEW r \in Requests, NEW k \in issued, BeginLogout(r, k)
      PROVE  SInv'
  BY <1>4, BeginLogoutStep
<1>5. ASSUME NEW r \in Requests, DeleteSession(r) \/ DeleteSessionFails(r) \/ AnswerLogout(r)
      PROVE  SInv'
  BY <1>5, DeleteSessionStep, DeleteSessionFailsStep, AnswerLogoutStep
<1>6. ASSUME NEW r \in Requests, BeginBootstrap(r) \/ CreateOwner(r)
      PROVE  SInv'
  BY <1>6, BeginBootstrapStep, CreateOwnerStep
<1>7. ASSUME NEW r \in Requests, Identify(r) \/ ServeTeam(r) \/ GiveUp(r)
      PROVE  SInv'
  BY <1>7, IdentifyStep, ServeTeamStep, GiveUpStep
<1>8. ASSUME NEW k \in Tokens, Expire(k)
      PROVE  SInv'
  BY <1>8, ExpireStep
<1>9. ASSUME NEW m \in members, TellCode(m), UNCHANGED <<rows, caller, logouts>>
      PROVE  SInv'
  BY <1>9, TellStep
<1>. QED  BY <1>1, <1>2, <1>3, <1>4, <1>5, <1>6, <1>7, <1>8, <1>9 DEF AccountsNext

\* Every behaviour satisfies the inductive invariant.
THEOREM AccountsInvariance == AccountsSpec => []SInv
  BY InitSInv, NextSInv, PTL DEF AccountsSpec

\* Sessions, members and handlers are of people with accounts (sessionMiddleware,
\* requireAuth).
THEOREM AccountsTypeCorrect == AccountsSpec => []AccountsTypeOK
<1>1. SInv => AccountsTypeOK
  BY DEF SInv, IInv, RowsOK, CallersOK, CallersTyped, TeamsOK, AccountsTypeOK, Steps
<1>. QED  BY <1>1, AccountsInvariance, PTL

\* No request that comes in after a logout's answer is served, unless the
\* deletion failed (handleLogout).
THEOREM LoggedOut == AccountsSpec => []LoggedOutIsOut
<1>1. SInv => LoggedOutIsOut
  BY DEF SInv, CallersOK, CallerOK, LoggedOutIsOut
<1>. QED  BY <1>1, AccountsInvariance, PTL

\* With accounts and sessions in front of it, module Teams does what it does
\* alone: what is proved of it holds here.
THEOREM ServesTeams == AccountsSpec => Spec
<1>1. AccountsInit => Init
  BY DEF AccountsInit
<1>2. SInv /\ [AccountsNext]_accountsVars => [Next]_vars
  <2>. SUFFICES ASSUME SInv, [AccountsNext]_accountsVars PROVE [Next]_vars
    OBVIOUS
  <2>1. CASE \E r \in Requests : ServeTeam(r)
    BY <2>1, TeamsFrame DEF SInv, ServeTeam
  <2>2. CASE \E m \in members : TellCode(m)
    BY <2>2 DEF Next
  <2>. QED  BY <2>1, <2>2 DEF AccountsNext, accountsVars, Register, Login, IssueSession, Expire,
              BeginLogout, DeleteSession, DeleteSessionFails, AnswerLogout, BeginBootstrap,
              CreateOwner, Send, Identify, GiveUp
<1>. QED  BY <1>1, <1>2, AccountsInvariance, PTL DEF AccountsSpec, Spec

\* Nobody is on two teams, and every team with members is led by its creator,
\* whoever registers, logs in and out (handleCreateTeam, handleJoinTeam).
THEOREM PlayersTeams == AccountsSpec => [](OneTeamPerPlayer /\ LedByCreator)
  BY ServesTeams, Invariance, PTL DEF IInv

\* No step changes an account there is (handleRegister, bootstrapAdmin).
THEOREM AccountsKept == AccountsSpec => AccountsAreKept
<1>1. SInv /\ [AccountsNext]_accountsVars
        => [\A u \in Users : account[u] # "none" => account'[u] = account[u]]_accountsVars
  <2>. SUFFICES ASSUME SInv, AccountsNext, NEW u \in Users, account[u] # "none"
                PROVE  account'[u] = account[u]
    OBVIOUS
  <2>1. CASE \E r \in Requests, v \in Users : Register(r, v)
    BY <2>1, CreateUserStep DEF Register, SInv
  <2>2. CASE \E r \in Requests : CreateOwner(r)
    BY <2>2, CreateUserStep, AdminAssumption DEF CreateOwner, SInv
  <2>. QED  BY <2>1, <2>2 DEF AccountsNext, rows, Login, IssueSession, Expire, BeginLogout,
              DeleteSession, DeleteSessionFails, AnswerLogout, BeginBootstrap, Send, Identify,
              ServeTeam, GiveUp
<1>. QED  BY <1>1, AccountsInvariance, PTL DEF AccountsSpec, AccountsAreKept

=============================================================================

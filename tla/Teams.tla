-------------------------------- MODULE Teams --------------------------------
(***************************************************************************)
(* Global teams: handleCreateTeam and handleJoinTeam, one action per       *)
(* statement they issue.  A team's name is its identity (teams_org_name_   *)
(* uniq), and the two inserts of a creation are two transactions.          *)
(***************************************************************************)
EXTENDS Integers, FiniteSets

CONSTANTS
  Users,
  Names,        \* names of teams of the organization
  Requests,     \* concurrently running handlers
  StoreErrors,  \* may UserTeam fail?
  NoUser,
  NoReq

Req == [user : Users, team : Names]

ASSUME NoUserAssumption == NoUser \notin Users
ASSUME NoReqAssumption  == NoReq \notin Req

VARIABLES
  creator,      \* teams: who created it, NoUser if there is no such team
  members,      \* team_members rows [user, team, role]
  out,          \* teams whose invite code has left the server
  pc,
  req

vars == <<creator, members, out, pc, req>>

Member(u, n, role) == [user |-> u, team |-> n, role |-> role]

HasTeam(u) == \E m \in members : m.user = u

------------------------------------------------------------------------------
Init ==
  /\ creator = [n \in Names |-> NoUser]
  /\ members = {}
  /\ out = {}
  /\ pc = [r \in Requests |-> "idle"]
  /\ req = [r \in Requests |-> NoReq]

Done(r) ==
  /\ pc' = [pc EXCEPT ![r] = "idle"]
  /\ req' = [req EXCEPT ![r] = NoReq]

\* handleCreateTeam: UserTeam finds no team of the caller.  A failing lookup is
\* taken for that too.
BeginCreate(r, c) ==
  /\ pc[r] = "idle"
  /\ ~HasTeam(c.user) \/ StoreErrors
  /\ pc' = [pc EXCEPT ![r] = "team"]
  /\ req' = [req EXCEPT ![r] = c]
  /\ UNCHANGED <<creator, members, out>>

\* Mutant: the code is known before the captain is a member.
InsertTeam_CodeOut(r) ==
  /\ pc[r] = "team"
  /\ creator[req[r].team] = NoUser
  /\ creator' = [creator EXCEPT ![req[r].team] = req[r].user]
  /\ out' = out \cup {req[r].team}
  /\ pc' = [pc EXCEPT ![r] = "captain"]
  /\ UNCHANGED <<members, req>>

\* Mutant: the member is inserted first.
InsertTeam_Later(r) ==
  /\ pc[r] = "team"
  /\ creator[req[r].team] = NoUser
  /\ pc' = [pc EXCEPT ![r] = "captain"]
  /\ UNCHANGED <<creator, members, out, req>>

\* CreateTeam, with the invite code; a name that is taken is a conflict.
InsertTeam(r) ==
  /\ pc[r] = "team"
  /\ IF creator[req[r].team] # NoUser
       THEN Done(r) /\ UNCHANGED creator
       ELSE /\ creator' = [creator EXCEPT ![req[r].team] = req[r].user]
            /\ pc' = [pc EXCEPT ![r] = "captain"]
            /\ UNCHANGED req
  /\ UNCHANGED <<members, out>>

\* Mutant: team_members has no primary key.
AddTeamMember_NoKey(r, role) ==
  /\ members' = members \cup {Member(req[r].user, req[r].team, role)}
  /\ Done(r)
  /\ UNCHANGED <<creator, out>>

\* AddTeamMember: a conflict if the user is a member of any team.
AddTeamMember(r, role) ==
  /\ members' = IF HasTeam(req[r].user)
                  THEN members
                  ELSE members \cup {Member(req[r].user, req[r].team, role)}
  /\ Done(r)
  /\ UNCHANGED <<creator, out>>

InsertCaptain(r) == pc[r] = "captain" /\ AddTeamMember(r, "captain")

\* handleJoinTeam finds the team of an invite code somebody was given.
BeginJoin(r, c) ==
  /\ pc[r] = "idle"
  /\ c.team \in out
  /\ pc' = [pc EXCEPT ![r] = "join"]
  /\ req' = [req EXCEPT ![r] = c]
  /\ UNCHANGED <<creator, members, out>>

InsertMember(r) == pc[r] = "join" /\ AddTeamMember(r, "member")

\* handleCreateTeam's answer to its captain, or handleMyTeam's to any member.
TellCode(m) ==
  /\ m \in members
  /\ out' = out \cup {m.team}
  /\ UNCHANGED <<creator, members, pc, req>>

\* A statement failed, or the client or the server is gone.  What has been
\* inserted stays.
Fail(r) ==
  /\ pc[r] # "idle"
  /\ Done(r)
  /\ UNCHANGED <<creator, members, out>>

Next ==
  \/ \E r \in Requests :
       \/ \E c \in Req : BeginCreate(r, c) \/ BeginJoin(r, c)
       \/ InsertTeam(r)
       \/ InsertCaptain(r)
       \/ InsertMember(r)
       \/ Fail(r)
  \/ \E m \in members : TellCode(m)

Spec == Init /\ [][Next]_vars

------------------------------------------------------------------------------
\* Rows and handlers are of their types, and rows and codes are of teams that
\* exist.
TypeOK ==
  /\ creator \in [Names -> Users \cup {NoUser}]
  /\ members \subseteq [user : Users, team : Names, role : {"captain", "member"}]
  /\ out \subseteq {n \in Names : creator[n] # NoUser}
  /\ \A m \in members : creator[m.team] # NoUser
  /\ pc \in [Requests -> {"idle", "team", "captain", "join"}]
  /\ req \in [Requests -> Req \cup {NoReq}]

\* "one team per player across the platform" (docs/index.html), whatever a
\* player creates and joins at the same time (AddTeamMember).
OneTeamPerPlayer == \A m, n \in members : m.user = n.user => m = n

\* A team with anybody in it has its creator for its one captain: nobody gets
\* into a team whose creation was left half done (handleCreateTeam answers, and
\* so gives the code away, only after the captain's insert).
LedByCreator ==
  \A m \in members :
    /\ Member(creator[m.team], m.team, "captain") \in members
    /\ m.role = "captain" => m.user = creator[m.team]

=============================================================================

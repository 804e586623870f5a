------------------------------ MODULE Instances ------------------------------
(***************************************************************************)
(* Per-team challenge instances: the create, extend and destroy handlers   *)
(* of internal/httpserver/instances.go, one action per database call,      *)
(* interleaved with each other and with the organizer.                     *)
(*                                                                         *)
(* Provisioning is the repository's mock: an instance is its row in the    *)
(* instances table.  A destroyed row never matters again, so only running  *)
(* rows are kept.  Nothing in the program looks at expires_at, which is    *)
(* created_at plus one TTL and one more for every extension.               *)
(***************************************************************************)
EXTENDS Integers, FiniteSets

CONSTANTS
  Challenges,
  Teams,
  Requests,       \* concurrently running handlers
  InstanceIds,    \* names for running rows; bounds how many can run at once
  InstanceMax,    \* cfg.InstanceMax, the global cap
  StoreErrors,    \* may GetActiveInstance or CountRunningInstances fail?
  NoReq

Ops == {"create", "extend", "destroy"}
Req == [op : Ops, ec : Challenges, team : Teams]

ASSUME InstanceMaxAssumption == InstanceMax \in Nat \ {0}
ASSUME RequestsAssumption == IsFiniteSet(Requests) /\ Requests # {}
ASSUME StoreErrorsAssumption == StoreErrors \in BOOLEAN
ASSUME NoReqAssumption == NoReq \notin Req

MaxExtends == 2   \* the limit handleExtendInstance passes to the store

VARIABLES
  instances,      \* running rows [id, ec, team, extends]
  assigned,       \* teams assigned to the event (event_teams)
  spec,           \* per challenge: its instance_spec "set", "null", or "gone"
  pc,
  req,            \* the call a handler serves
  uncounted       \* history: a count has failed and the handler went on to insert

vars == <<instances, assigned, spec, pc, req, uncounted>>

Instance == [id : InstanceIds, ec : Challenges, team : Teams,
             extends : 0..MaxExtends]   \* extensions taken

\* GetActiveInstance: status = 'running', whatever expires_at says.
Active(ec, team) == {i \in instances : i.ec = ec /\ i.team = team}

Running == Cardinality(instances)

------------------------------------------------------------------------------
Init ==
  /\ instances = {}
  /\ assigned = Teams
  /\ spec = [ec \in Challenges |-> "set"]
  /\ pc = [r \in Requests |-> "idle"]
  /\ req = [r \in Requests |-> NoReq]
  /\ uncounted = FALSE

\* The handler goes on to its next database call, or answers ("idle").
Goto(r, from, to) ==
  /\ pc[r] = from
  /\ pc' = [pc EXCEPT ![r] = to]
  /\ req' = IF to = "idle" THEN [req EXCEPT ![r] = NoReq] ELSE req

\* instanceContext, first read: the caller's team is assigned to the event.
Begin(r, c) ==
  /\ c.team \in assigned
  /\ pc[r] = "idle"
  /\ pc' = [pc EXCEPT ![r] = "spec"]
  /\ req' = [req EXCEPT ![r] = c]
  /\ UNCHANGED <<instances, assigned, spec, uncounted>>

\* instanceContext, second read: no challenge is 404, no instance_spec is 400.
ReadSpec(r) ==
  /\ Goto(r, "spec",
          IF spec[req[r].ec] # "set" THEN "idle"
          ELSE IF req[r].op = "create" THEN "lookup" ELSE req[r].op)
  /\ UNCHANGED <<instances, assigned, spec, uncounted>>

\* handleCreateInstance answers with the running instance if the lookup finds
\* one; a lookup that fails is taken for one that finds nothing.
LookupActive(r) ==
  /\ \/ Goto(r, "lookup",
             IF Active(req[r].ec, req[r].team) # {} THEN "idle" ELSE "count")
     \/ StoreErrors /\ Goto(r, "lookup", "count")
  /\ UNCHANGED <<instances, assigned, spec, uncounted>>

\* Mutant: the cap is tested with >.
CheckCap_OffByOne(r) ==
  /\ Goto(r, "count", IF Running > InstanceMax THEN "idle" ELSE "insert")
  /\ UNCHANGED <<instances, assigned, spec, uncounted>>

\* The global cap is tested on a count read in a statement of its own; a count
\* that fails is zero.
CheckCap(r) ==
  /\ \/ /\ Goto(r, "count", IF Running >= InstanceMax THEN "idle" ELSE "insert")
        /\ UNCHANGED uncounted
     \/ /\ StoreErrors
        /\ Goto(r, "count", "insert")
        /\ uncounted' = TRUE
  /\ UNCHANGED <<instances, assigned, spec>>

NewInstance(id, c) ==
  [id |-> id, ec |-> c.ec, team |-> c.team, extends |-> 0]

\* Mutant: instances_active_uniq is missing.
CreateInstance_NoIndex(r) ==
  /\ Goto(r, "insert", "idle")
  /\ \E id \in InstanceIds :
       /\ \A i \in instances : i.id # id
       /\ instances' = instances \cup {NewInstance(id, req[r])}
  /\ UNCHANGED <<assigned, spec, uncounted>>

\* INSERT INTO instances under the partial unique index instances_active_uniq.
\* A conflict is answered with whatever is running by then (the second
\* GetActiveInstance changes nothing); a challenge that is gone is an error.
CreateInstance(r) ==
  LET c == req[r] IN
  /\ Goto(r, "insert", "idle")
  /\ \/ /\ Active(c.ec, c.team) # {} \/ spec[c.ec] = "gone"
        /\ UNCHANGED instances
     \/ /\ Active(c.ec, c.team) = {} /\ spec[c.ec] # "gone"
        /\ \E id \in InstanceIds :
             /\ \A i \in instances : i.id # id
             /\ instances' = instances \cup {NewInstance(id, c)}
  /\ UNCHANGED <<assigned, spec, uncounted>>

Extended(i) == [i EXCEPT !.extends = @ + 1]

\* Mutant: the limit is tested with <=.
ExtendInstance_OffByOne(r) ==
  /\ Goto(r, "extend", "idle")
  /\ instances' = {IF i \in Active(req[r].ec, req[r].team) /\ i.extends <= MaxExtends
                     THEN Extended(i) ELSE i : i \in instances}
  /\ UNCHANGED <<assigned, spec, uncounted>>

\* One UPDATE tests the limit and moves expires_at on.
ExtendInstance(r) ==
  /\ Goto(r, "extend", "idle")
  /\ instances' = {IF i \in Active(req[r].ec, req[r].team) /\ i.extends < MaxExtends
                     THEN Extended(i) ELSE i : i \in instances}
  /\ UNCHANGED <<assigned, spec, uncounted>>

DestroyInstance(r) ==
  /\ Goto(r, "destroy", "idle")
  /\ instances' = instances \ Active(req[r].ec, req[r].team)
  /\ UNCHANGED <<assigned, spec, uncounted>>

\* The client is gone or a statement failed: the handler gives up.
Fail(r) ==
  /\ pc[r] # "idle"
  /\ Goto(r, pc[r], "idle")
  /\ UNCHANGED <<instances, assigned, spec, uncounted>>

------------------------------------------------------------------------------
\* AssignEventTeam and UnassignEventTeam; a team's instances are left alone.
SetAssigned(team) ==
  /\ assigned' = IF team \in assigned THEN assigned \ {team} ELSE assigned \cup {team}
  /\ UNCHANGED <<instances, spec, pc, req, uncounted>>

\* SetInstanceSpec with a spec or with null; running instances are left alone.
SetInstanceSpec(ec, s) ==
  /\ spec[ec] # "gone"
  /\ spec' = [spec EXCEPT ![ec] = s]
  /\ UNCHANGED <<instances, assigned, pc, req, uncounted>>

\* Mutant: the foreign key of instances does not cascade.
DeleteChallenge_NoCascade(ec) ==
  /\ spec[ec] # "gone"
  /\ spec' = [spec EXCEPT ![ec] = "gone"]
  /\ UNCHANGED <<instances, assigned, pc, req, uncounted>>

\* BulkApply "delete": the row of event_challenges goes and, by cascade, its
\* instances.
DeleteChallenge(ec) ==
  /\ spec[ec] # "gone"
  /\ spec' = [spec EXCEPT ![ec] = "gone"]
  /\ instances' = {i \in instances : i.ec # ec}
  /\ UNCHANGED <<assigned, pc, req, uncounted>>

Step(r) ==
  \/ ReadSpec(r)
  \/ LookupActive(r)
  \/ CheckCap(r)
  \/ CreateInstance(r)
  \/ ExtendInstance(r)
  \/ DestroyInstance(r)

Next ==
  \/ \E r \in Requests : (\E c \in Req : Begin(r, c)) \/ Step(r) \/ Fail(r)
  \/ \E t \in Teams : SetAssigned(t)
  \/ \E ec \in Challenges : DeleteChallenge(ec) \/ \E s \in {"set", "null"} : SetInstanceSpec(ec, s)

Spec == Init /\ [][Next]_vars

------------------------------------------------------------------------------
PCs == {"idle", "spec", "lookup", "count", "insert", "extend", "destroy"}

\* Rows and handlers are of their types.
TypeOK ==
  /\ instances \subseteq Instance
  /\ assigned \subseteq Teams
  /\ spec \in [Challenges -> {"set", "null", "gone"}]
  /\ pc \in [Requests -> PCs]
  /\ req \in [Requests -> Req \cup {NoReq}]
  /\ uncounted \in BOOLEAN

\* "one running instance per team per challenge", whatever the members of a
\* team do at once, and none on a challenge that has been deleted while its
\* handlers were under way (CreateInstance, instances_active_uniq, cascade).
OneRunningPerTeam ==
  /\ \A i, j \in instances : i.ec = j.ec /\ i.team = j.team => i = j
  /\ \A i \in instances : spec[i.ec] # "gone"

\* An instance is never granted more than its first TTL and MaxExtends more,
\* however many extend calls race (ExtendInstance).
ExtensionsBounded == \A i \in instances : i.extends <= MaxExtends

\* The cap is tested and used in two statements, so it can be passed, but never
\* by more than the other handlers that were between the two, as long as no
\* count has failed (handleCreateInstance).
CapOvershootBounded ==
  ~uncounted => Running <= InstanceMax + Cardinality(Requests) - 1

=============================================================================

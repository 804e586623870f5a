--------------------------- MODULE Instances_proofs ---------------------------
(***************************************************************************)
(* What Instances guarantees for every number of teams, challenges,        *)
(* handlers and for every cap.                                             *)
(***************************************************************************)
EXTENDS Instances, FiniteSetTheorems, TLAPS

\* Handlers that have found room under the cap and have not inserted yet.
Inserting == {r \in Requests : pc[r] = "insert"}

\* A handler that is not idle serves a call.
Serving == \A r \in Requests : pc[r] # "idle" => req[r] \in Req

\* The reservations not yet used count as instances.
RoomBounded ==
  /\ IsFiniteSet(instances)
  /\ ~uncounted =>
       Running + Cardinality(Inserting) <= InstanceMax + Cardinality(Requests) - 1

IInv == TypeOK /\ Serving /\ OneRunningPerTeam /\ ExtensionsBounded /\ RoomBounded

------------------------------------------------------------------------------
\* A set of handlers is finite and no larger than Requests.
LEMMA HandlerSets ==
  ASSUME NEW S, S \subseteq Requests
  PROVE  /\ IsFiniteSet(S)
         /\ Cardinality(S) \in Nat
         /\ Cardinality(S) <= Cardinality(Requests)
         /\ Cardinality(Requests) \in Nat \ {0}
<1>1. IsFiniteSet(Requests) /\ Requests # {}
  BY RequestsAssumption
<1>2. Cardinality(Requests) \in Nat \ {0}
  BY <1>1, FS_CardinalityType, FS_EmptySet
<1>3. IsFiniteSet(S) /\ Cardinality(S) <= Cardinality(Requests)
  BY <1>1, FS_Subset
<1> QED
  BY <1>2, <1>3, FS_CardinalityType

\* A step that reserves nothing and adds no row keeps the bound.
LEMMA RoomKept ==
  ASSUME RoomBounded, UNCHANGED uncounted,
         Inserting' \subseteq Inserting,
         IsFiniteSet(instances'),
         Cardinality(instances') <= Cardinality(instances)
  PROVE  RoomBounded'
<1>1. Inserting \subseteq Requests
  BY DEF Inserting
<1>2. IsFiniteSet(Inserting) /\ Cardinality(Inserting) \in Nat
  BY <1>1, HandlerSets
<1>3. Cardinality(Inserting') <= Cardinality(Inserting)
  BY <1>2, FS_Subset
<1>4. Cardinality(Inserting') \in Nat
  BY <1>2, FS_Subset, FS_CardinalityType
<1>5. Cardinality(instances) \in Nat /\ Cardinality(instances') \in Nat
  BY FS_CardinalityType DEF RoomBounded
<1>6. Cardinality(Requests) \in Nat /\ InstanceMax \in Nat
  BY <1>1, HandlerSets, InstanceMaxAssumption
<1> QED
  BY <1>2, <1>3, <1>4, <1>5, <1>6 DEF RoomBounded, Running

\* Rows taken away, or changed one by one, leave no more rows.
LEMMA FewerRows ==
  ASSUME IsFiniteSet(instances), instances' \subseteq instances
  PROVE  IsFiniteSet(instances') /\ Cardinality(instances') <= Cardinality(instances)
BY FS_Subset

\* Changed one by one, the rows are finite and no more than before.
LEMMA ChangedRows ==
  ASSUME IsFiniteSet(instances), NEW f,
         f = [i \in instances |-> f[i]],
         instances' = {f[i] : i \in instances}
  PROVE  IsFiniteSet(instances') /\ Cardinality(instances') <= Cardinality(instances)
<1>1. f \in Surjection(instances, instances')
  BY DEF Surjection
<1> QED
  BY <1>1, FS_Surjection

\* What Goto does to the handlers: their types stay, and only a step to
\* "insert" reserves.
LEMMA GotoStep ==
  ASSUME TypeOK, Serving, NEW r \in Requests, NEW from \in PCs \ {"idle"},
         NEW to \in PCs, Goto(r, from, to)
  PROVE  /\ pc' \in [Requests -> PCs]
         /\ req' \in [Requests -> Req \cup {NoReq}]
         /\ Serving'
         /\ to # "insert" => Inserting' \subseteq Inserting \ {r}
<1>1. pc' \in [Requests -> PCs]
  BY DEF Goto, TypeOK
<1>2. req' \in [Requests -> Req \cup {NoReq}]
  BY DEF Goto, TypeOK
<1>3. Serving'
  <2> SUFFICES ASSUME NEW q \in Requests, pc'[q] # "idle"
               PROVE  req'[q] \in Req
    BY DEF Serving
  <2>1. CASE q = r
    <3>1. to # "idle" /\ req' = req /\ pc[r] # "idle"
      BY <2>1 DEF Goto, TypeOK
    <3> QED
      BY <2>1, <3>1 DEF Serving
  <2>2. CASE q # r
    BY <2>2 DEF Goto, TypeOK, Serving
  <2> QED
    BY <2>1, <2>2
<1>4. to # "insert" => Inserting' \subseteq Inserting \ {r}
  BY DEF Inserting, Goto, TypeOK
<1> QED
  BY <1>1, <1>2, <1>3, <1>4

------------------------------------------------------------------------------
\* Steps that leave the rows alone.
LEMMA BeginStep ==
  ASSUME IInv, NEW r \in Requests, NEW c \in Req, Begin(r, c)
  PROVE  IInv'
<1>1. TypeOK'
  BY DEF IInv, TypeOK, Begin, PCs
<1>2. Serving'
  BY DEF IInv, TypeOK, Serving, Begin
<1>3. Inserting' \subseteq Inserting
  BY DEF IInv, TypeOK, Inserting, Begin
<1>4. RoomBounded'
  <2>1. instances' = instances
    BY DEF Begin
  <2>2. IsFiniteSet(instances') /\ Cardinality(instances') <= Cardinality(instances)
    BY <2>1, FewerRows DEF IInv, RoomBounded
  <2> QED
    BY <1>3, <2>2, RoomKept DEF IInv, Begin
<1> QED
  BY <1>1, <1>2, <1>4 DEF IInv, OneRunningPerTeam, ExtensionsBounded, Begin

\* A Goto that reserves nothing and leaves every table alone.
LEMMA QuietStep ==
  ASSUME IInv, NEW r \in Requests, NEW from \in PCs \ {"idle"},
         NEW to \in PCs \ {"insert"},
         Goto(r, from, to), UNCHANGED <<instances, assigned, spec, uncounted>>
  PROVE  IInv'
<1>1. TypeOK' /\ Serving' /\ Inserting' \subseteq Inserting
  BY GotoStep DEF IInv, TypeOK
<1>2. RoomBounded'
  <2>1. IsFiniteSet(instances') /\ Cardinality(instances') <= Cardinality(instances)
    BY FewerRows DEF IInv, RoomBounded
  <2> QED
    BY <1>1, <2>1, RoomKept DEF IInv
<1> QED
  BY <1>1, <1>2 DEF IInv, OneRunningPerTeam, ExtensionsBounded

\* parseInstanceSpec only moves the handler on.
LEMMA ReadSpecStep ==
  ASSUME IInv, NEW r \in Requests, ReadSpec(r)
  PROVE  IInv'
<1>1. req[r] \in Req
  BY DEF IInv, Serving, ReadSpec, Goto
<1>2. PICK to \in PCs \ {"insert"} : Goto(r, "spec", to)
  <2> DEFINE to == IF spec[req[r].ec] # "set" THEN "idle"
                   ELSE IF req[r].op = "create" THEN "lookup" ELSE req[r].op
  <2>1. req[r].op \in {"create", "extend", "destroy"}
    BY <1>1 DEF Req, Ops
  <2>2. to \in PCs \ {"insert"}
    BY <2>1 DEF PCs
  <2>3. Goto(r, "spec", to)
    BY DEF ReadSpec
  <2> QED
    BY <2>2, <2>3
<1> QED
  BY <1>2, QuietStep DEF ReadSpec, PCs

\* GetActiveInstance answers or moves the handler on.
LEMMA LookupActiveStep ==
  ASSUME IInv, NEW r \in Requests, LookupActive(r)
  PROVE  IInv'
<1>1. PICK to \in {"idle", "count"} : Goto(r, "lookup", to)
  BY DEF LookupActive
<1> QED
  BY <1>1, QuietStep DEF LookupActive, PCs

\* A failed statement ends the call and leaves the rows alone.
LEMMA FailStep ==
  ASSUME IInv, NEW r \in Requests, Fail(r)
  PROVE  IInv'
<1>1. pc[r] \in PCs \ {"idle"}
  BY DEF IInv, TypeOK, Fail
<1> QED
  BY <1>1, QuietStep DEF Fail, PCs

\* A reservation: the count was below the cap, so even if every handler holds
\* one the bound is kept.
LEMMA CheckCapStep ==
  ASSUME IInv, NEW r \in Requests, CheckCap(r)
  PROVE  IInv'
<1>1. CASE Goto(r, "count", "insert")
           /\ (uncounted' \/ ~(Running >= InstanceMax))
  <2>1. TypeOK' /\ Serving'
    <3>1. /\ pc' \in [Requests -> PCs] /\ req' \in [Requests -> Req \cup {NoReq}]
          /\ Serving'
      BY <1>1, GotoStep DEF IInv, PCs
    <3>2. uncounted' \in BOOLEAN
      BY DEF IInv, TypeOK, CheckCap
    <3> QED
      BY <3>1, <3>2 DEF IInv, TypeOK, CheckCap
  <2>2. RoomBounded'
    <3>1. Inserting' \subseteq Requests
      BY DEF Inserting
    <3>2. /\ Cardinality(Inserting') \in Nat
          /\ Cardinality(Inserting') <= Cardinality(Requests)
          /\ Cardinality(Requests) \in Nat
      BY <3>1, HandlerSets
    <3>3. Running \in Nat /\ Running' = Running /\ IsFiniteSet(instances')
      BY FS_CardinalityType DEF IInv, RoomBounded, Running, CheckCap
    <3>4. ~uncounted' => Running <= InstanceMax - 1
      BY <1>1, <3>3, InstanceMaxAssumption
    <3> QED
      BY <3>2, <3>3, <3>4, InstanceMaxAssumption DEF RoomBounded
  <2> QED
    BY <2>1, <2>2 DEF IInv, OneRunningPerTeam, ExtensionsBounded, CheckCap
<1>2. CASE Goto(r, "count", "idle") /\ UNCHANGED uncounted
  BY <1>2, QuietStep DEF CheckCap, PCs
<1> QED
  BY <1>1, <1>2 DEF CheckCap

------------------------------------------------------------------------------
\* The insert turns the handler's reservation into a row.
LEMMA CreateInstanceStep ==
  ASSUME IInv, NEW r \in Requests, CreateInstance(r)
  PROVE  IInv'
<1>1. Goto(r, "insert", "idle") /\ req[r] \in Req
  BY DEF CreateInstance, Goto, IInv, Serving
<1>2. CASE UNCHANGED instances
  BY <1>1, <1>2, QuietStep DEF CreateInstance, PCs
<1>3. CASE \E id \in InstanceIds : /\ Active(req[r].ec, req[r].team) = {}
                                   /\ spec[req[r].ec] # "gone"
                                   /\ \A i \in instances : i.id # id
                                   /\ instances' = instances \cup {NewInstance(id, req[r])}
  <2>1. PICK id \in InstanceIds : instances' = instances \cup {NewInstance(id, req[r])}
    BY <1>3
  <2>2. PICK ec \in Challenges, team \in Teams : req[r].ec = ec /\ req[r].team = team
    BY <1>1 DEF Req
  <2> DEFINE new == NewInstance(id, req[r])
  <2>3. /\ new \in Instance /\ new.ec = ec /\ new.team = team
        /\ new.extends = 0
    BY <2>2 DEF NewInstance, Instance, MaxExtends
  <2>4. TypeOK' /\ Serving' /\ Inserting' \subseteq Inserting \ {r}
    <3>1. pc' \in [Requests -> PCs] /\ req' \in [Requests -> Req \cup {NoReq}]
          /\ Serving' /\ Inserting' \subseteq Inserting \ {r}
      BY <1>1, GotoStep DEF IInv, PCs
    <3>2. instances' \subseteq Instance
      BY <2>1, <2>3 DEF IInv, TypeOK
    <3> QED
      BY <3>1, <3>2 DEF IInv, TypeOK, CreateInstance
  <2>5. OneRunningPerTeam'
    <3>1. \A i \in instances : ~(i.ec = ec /\ i.team = team)
      BY <1>3, <2>2 DEF Active
    <3>2. spec' = spec /\ spec[ec] # "gone"
      BY <1>3, <2>2 DEF CreateInstance
    <3> QED
      BY <2>1, <2>3, <3>1, <3>2 DEF IInv, OneRunningPerTeam
  <2>6. ExtensionsBounded'
    BY <2>1, <2>3 DEF IInv, ExtensionsBounded, MaxExtends
  <2>7. RoomBounded'
    <3>1. /\ IsFiniteSet(instances')
          /\ Cardinality(instances') <= Cardinality(instances) + 1
          /\ Cardinality(instances) \in Nat /\ Cardinality(instances') \in Nat
      <4>1. IsFiniteSet(instances)
        BY DEF IInv, RoomBounded
      <4>2. IsFiniteSet(instances \cup {new})
        BY <4>1, FS_AddElement
      <4>3. /\ Cardinality(instances) \in Nat
            /\ Cardinality(instances \cup {new}) \in Nat
        BY <4>1, <4>2, FS_CardinalityType
      <4>4. Cardinality(instances \cup {new}) <= Cardinality(instances) + 1
        BY <4>1, <4>3, FS_AddElement
      <4> QED
        BY <2>1, <4>2, <4>3, <4>4
    <3>2. Inserting \subseteq Requests /\ r \in Inserting
      BY <1>1 DEF Inserting, Goto
    <3>3. IsFiniteSet(Inserting) /\ Cardinality(Inserting) \in Nat
          /\ Cardinality(Requests) \in Nat
      BY <3>2, HandlerSets
    <3>4. /\ IsFiniteSet(Inserting \ {r})
          /\ Cardinality(Inserting \ {r}) = Cardinality(Inserting) - 1
      BY <3>2, <3>3, FS_RemoveElement
    <3>5. /\ Cardinality(Inserting') <= Cardinality(Inserting) - 1
          /\ Cardinality(Inserting') \in Nat
      BY <2>4, <3>4, FS_Subset, FS_CardinalityType
    <3> QED
      BY <3>1, <3>3, <3>5, InstanceMaxAssumption
         DEF IInv, RoomBounded, Running, CreateInstance
  <2> QED
    BY <2>4, <2>5, <2>6, <2>7 DEF IInv
<1> QED
  BY <1>2, <1>3 DEF CreateInstance

\* ExtendInstance's UPDATE touches the expiry, the count and the state only.
LEMMA ExtendedFields ==
  ASSUME NEW i \in Instance, i.extends < MaxExtends
  PROVE  /\ Extended(i) \in Instance
         /\ Extended(i).ec = i.ec /\ Extended(i).team = i.team
         /\ Extended(i).extends = i.extends + 1
BY DEF Extended, Instance, MaxExtends

\* An extension changes rows one by one and keeps their names and owners.
LEMMA ExtendInstanceStep ==
  ASSUME IInv, NEW r \in Requests, ExtendInstance(r)
  PROVE  IInv'
<1> DEFINE new(i) == IF i \in Active(req[r].ec, req[r].team) /\ i.extends < MaxExtends
                       THEN Extended(i) ELSE i
<1>1. instances' = {new(i) : i \in instances}
  BY DEF ExtendInstance
<1>2. ASSUME NEW i \in instances
      PROVE  /\ new(i) \in Instance
             /\ new(i).ec = i.ec /\ new(i).team = i.team
             /\ new(i).extends <= MaxExtends
  <2>1. i \in Instance /\ i.extends <= MaxExtends
    BY DEF IInv, TypeOK, ExtensionsBounded
  <2>2. i.extends \in Nat
    BY <2>1 DEF Instance
  <2>3. CASE new(i) = i
    BY <2>1, <2>3
  <2>4. CASE new(i) = Extended(i) /\ i.extends < MaxExtends
    <3>1. /\ Extended(i) \in Instance
          /\ Extended(i).ec = i.ec /\ Extended(i).team = i.team
          /\ Extended(i).extends = i.extends + 1
      BY <2>1, <2>4, ExtendedFields
    <3> HIDE DEF new
    <3> QED
      BY <2>1, <2>2, <2>4, <3>1 DEF MaxExtends
  <2> QED
    BY <2>3, <2>4
<1> HIDE DEF new
<1>3. TypeOK' /\ Serving' /\ Inserting' \subseteq Inserting
  <2>1. pc' \in [Requests -> PCs] /\ req' \in [Requests -> Req \cup {NoReq}]
        /\ Serving' /\ Inserting' \subseteq Inserting
    BY GotoStep DEF IInv, ExtendInstance, PCs
  <2>2. instances' \subseteq Instance
    BY <1>1, <1>2
  <2> QED
    BY <2>1, <2>2 DEF IInv, TypeOK, ExtendInstance
<1>4. OneRunningPerTeam'
  <2>1. spec' = spec
    BY DEF ExtendInstance
  <2> QED
    BY <1>1, <1>2, <2>1 DEF IInv, OneRunningPerTeam
<1>5. ExtensionsBounded'
  BY <1>1, <1>2 DEF ExtensionsBounded
<1>6. RoomBounded'
  <2> DEFINE f == [i \in instances |-> new(i)]
  <2>1. f = [i \in instances |-> f[i]] /\ instances' = {f[i] : i \in instances}
    BY <1>1
  <2> HIDE DEF f
  <2>2. IsFiniteSet(instances') /\ Cardinality(instances') <= Cardinality(instances)
    BY <2>1, ChangedRows DEF IInv, RoomBounded
  <2> QED
    BY <1>3, <2>2, RoomKept DEF IInv, ExtendInstance
<1> QED
  BY <1>3, <1>4, <1>5, <1>6 DEF IInv

\* Destroying takes rows out of the running ones.
LEMMA DestroyInstanceStep ==
  ASSUME IInv, NEW r \in Requests, DestroyInstance(r)
  PROVE  IInv'
<1>1. instances' \subseteq instances
  BY DEF DestroyInstance
<1>2. TypeOK' /\ Serving' /\ Inserting' \subseteq Inserting
  <2>1. pc' \in [Requests -> PCs] /\ req' \in [Requests -> Req \cup {NoReq}]
        /\ Serving' /\ Inserting' \subseteq Inserting
    BY GotoStep DEF IInv, DestroyInstance, PCs
  <2> QED
    BY <1>1, <2>1 DEF IInv, TypeOK, DestroyInstance
<1>3. OneRunningPerTeam' /\ ExtensionsBounded'
  BY <1>1 DEF IInv, OneRunningPerTeam, ExtensionsBounded, DestroyInstance
<1>4. RoomBounded'
  BY <1>1, <1>2, FewerRows, RoomKept DEF IInv, RoomBounded, DestroyInstance
<1> QED
  BY <1>2, <1>3, <1>4 DEF IInv

------------------------------------------------------------------------------
\* The organizer's steps leave the handlers alone.
LEMMA OrganizerStep ==
  ASSUME IInv, instances' \subseteq instances, UNCHANGED <<pc, req, uncounted>>,
         assigned' \subseteq Teams, spec' \in [Challenges -> {"set", "null", "gone"}],
         \A i \in instances' : spec'[i.ec] # "gone"
  PROVE  IInv'
<1>1. TypeOK' /\ Serving' /\ Inserting' \subseteq Inserting
  BY DEF IInv, TypeOK, Serving, Inserting
<1>2. OneRunningPerTeam' /\ ExtensionsBounded'
  BY DEF IInv, OneRunningPerTeam, ExtensionsBounded
<1>3. RoomBounded'
  BY <1>1, FewerRows, RoomKept DEF IInv, RoomBounded
<1> QED
  BY <1>1, <1>2, <1>3 DEF IInv

\* An assignment changes no row.
LEMMA SetAssignedStep ==
  ASSUME IInv, NEW t \in Teams, SetAssigned(t)
  PROVE  IInv'
BY OrganizerStep DEF IInv, TypeOK, OneRunningPerTeam, SetAssigned

\* A new specification changes no row.
LEMMA SetInstanceSpecStep ==
  ASSUME IInv, NEW ec \in Challenges, NEW s \in {"set", "null"}, SetInstanceSpec(ec, s)
  PROVE  IInv'
<1>1. \A i \in instances : i.ec \in Challenges
  BY DEF IInv, TypeOK, Instance
<1>2. \A i \in instances' : spec'[i.ec] # "gone"
  BY <1>1 DEF IInv, TypeOK, OneRunningPerTeam, SetInstanceSpec
<1> QED
  BY <1>2, OrganizerStep DEF IInv, TypeOK, SetInstanceSpec

\* A deleted challenge takes its rows along.
LEMMA DeleteChallengeStep ==
  ASSUME IInv, NEW ec \in Challenges, DeleteChallenge(ec)
  PROVE  IInv'
<1>1. \A i \in instances : i.ec \in Challenges
  BY DEF IInv, TypeOK, Instance
<1>2. \A i \in instances' : spec'[i.ec] # "gone"
  BY <1>1 DEF IInv, TypeOK, OneRunningPerTeam, DeleteChallenge
<1> QED
  BY <1>2, OrganizerStep DEF IInv, TypeOK, DeleteChallenge

------------------------------------------------------------------------------
\* IInv is inductive.
THEOREM Invariance == Spec => []IInv
<1>1. Init => IInv
  <2> SUFFICES ASSUME Init PROVE IInv
    OBVIOUS
  <2>1. TypeOK /\ Serving /\ OneRunningPerTeam /\ ExtensionsBounded
    BY DEF Init, TypeOK, Serving, OneRunningPerTeam, ExtensionsBounded, PCs
  <2>2. Inserting = {} /\ instances = {}
    BY DEF Init, Inserting
  <2>3. Cardinality({}) = 0 /\ IsFiniteSet({}) /\ Cardinality(Requests) \in Nat \ {0}
    BY FS_EmptySet, HandlerSets
  <2>4. RoomBounded
    BY <2>2, <2>3, InstanceMaxAssumption DEF RoomBounded, Running
  <2> QED
    BY <2>1, <2>4 DEF IInv
<1>2. IInv /\ [Next]_vars => IInv'
  <2> SUFFICES ASSUME IInv, [Next]_vars PROVE IInv'
    OBVIOUS
  <2>1. CASE UNCHANGED vars
    BY <2>1 DEF vars, IInv, TypeOK, Serving, OneRunningPerTeam, ExtensionsBounded,
                RoomBounded, Running, Inserting
  <2>2. ASSUME NEW r \in Requests, (\E c \in Req : Begin(r, c)) \/ Step(r) \/ Fail(r)
        PROVE  IInv'
    BY <2>2, BeginStep, ReadSpecStep, LookupActiveStep, CheckCapStep, CreateInstanceStep,
       ExtendInstanceStep, DestroyInstanceStep, FailStep DEF Step
  <2>3. ASSUME NEW t \in Teams, SetAssigned(t)
        PROVE  IInv'
    BY <2>3, SetAssignedStep
  <2>4. ASSUME NEW ec \in Challenges,
               DeleteChallenge(ec) \/ \E s \in {"set", "null"} : SetInstanceSpec(ec, s)
        PROVE  IInv'
    BY <2>4, DeleteChallengeStep, SetInstanceSpecStep
  <2> QED
    BY <2>1, <2>2, <2>3, <2>4 DEF Next
<1> QED
  BY <1>1, <1>2, PTL DEF Spec

\* Rows and handlers keep their types.
THEOREM TypeCorrect == Spec => []TypeOK
BY Invariance, PTL DEF IInv

\* No interleaving of handlers, of members of one team or with a deletion, gives
\* a team two running instances of a challenge or one of a deleted challenge.
THEOREM OneRunning == Spec => []OneRunningPerTeam
BY Invariance, PTL DEF IInv

\* No interleaving of extend calls grants more than MaxExtends extensions.
THEOREM ExtensionsCorrect == Spec => []ExtensionsBounded
BY Invariance, PTL DEF IInv

\* However many handlers race for the last place under the cap, it is passed by
\* fewer than there are handlers, if no count has failed.
THEOREM OvershootCorrect == Spec => []CapOvershootBounded
<1>1. IInv => CapOvershootBounded
  <2> SUFFICES ASSUME IInv, ~uncounted
               PROVE  Running <= InstanceMax + Cardinality(Requests) - 1
    BY DEF CapOvershootBounded
  <2>1. Inserting \subseteq Requests
    BY DEF Inserting
  <2>2. Cardinality(Inserting) \in Nat /\ Cardinality(Requests) \in Nat
    BY <2>1, HandlerSets
  <2>3. Running \in Nat
    BY FS_CardinalityType DEF IInv, RoomBounded, Running
  <2> QED
    BY <2>2, <2>3, InstanceMaxAssumption DEF IInv, RoomBounded
<1> QED
  BY <1>1, Invariance, PTL

=============================================================================

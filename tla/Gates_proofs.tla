----------------------------- MODULE Gates_proofs -----------------------------
(***************************************************************************)
(* What schedules and unlock rules promise, for every rule, schedule and   *)
(* number of submissions: the windows of module Schedule, the evaluation   *)
(* of module Unlock, and the gates of Submit and Gallery.                  *)
(***************************************************************************)
EXTENDS Gallery, FiniteSetTheorems, WellFoundedInduction, TLAPS

\* A duration is an integer, or a text that is none (Window.Duration).
Duration == Int \cup {Unparsed}

\* Every duration counts as an integer, and as a positive one where it recurs.
LEMMA DurationCounts ==
  ASSUME NEW d \in Duration
  PROVE  /\ ParseISODuration(d) \in Int
         /\ RecurringFor(ParseISODuration(d)) \in Int
         /\ RecurringFor(ParseISODuration(d)) > 0
BY DayAssumption, UnparsedAssumption DEF Duration, ParseISODuration, RecurringFor

\* OpenAt asks the RRULE library only for the occurrences between t - duration
\* and t, both included, and tests each: nothing outside that span could be open
\* at t, however far back the rule began, and the occurrence at exactly
\* t - duration that the span includes is not (OpenAt, within).
THEOREM RecurringIsOpen ==
  ASSUME NEW times \in SUBSET Int, NEW d \in Duration, NEW t \in Int
  PROVE  WindowOpen(Recurring(times, d), t)
           <=> \E occ \in times : /\ occ <= t
                                  /\ t < occ + RecurringFor(ParseISODuration(d))
<1> DEFINE dur == RecurringFor(ParseISODuration(d))
           w   == Recurring(times, d)
<1>1. dur \in Int /\ dur > 0
  BY DurationCounts
<1>2. w.kind = "recurring" /\ w.times = times /\ w.dur = d
  BY DEF Recurring
<1>3. WindowOpen(w, t) <=> \E occ \in Between(times, t - dur, t) : Within(t, occ, dur)
  BY <1>2 DEF WindowOpen
<1> HIDE DEF dur, w
<1>4. ASSUME NEW occ \in times
      PROVE  (occ \in Between(times, t - dur, t) /\ Within(t, occ, dur))
               <=> (occ <= t /\ t < occ + dur)
  BY <1>1 DEF Between, Within
<1>5. WindowOpen(w, t) <=> \E occ \in times : occ <= t /\ t < occ + dur
  BY <1>3, <1>4 DEF Between
<1> QED
  BY <1>5 DEF dur, w

\* A one-off window whose duration cannot be read never closes again, as one that
\* gives none: there is no error (parseISODuration, within).
THEOREM UnparsedStaysOpen ==
  ASSUME NEW start \in Int, NEW t \in Int, NEW u \in Int, t <= u,
         WindowOpen(Once(start, Unparsed), t)
  PROVE  WindowOpen(Once(start, Unparsed), u)
<1>1. Within(t, start, 0)
  BY DEF WindowOpen, Once, ParseISODuration
<1>2. Within(u, start, 0)
  BY <1>1 DEF Within
<1> QED
  BY <1>2 DEF WindowOpen, Once, ParseISODuration

------------------------------------------------------------------------------
(***************************************************************************)
(* Rules are evaluated from their leaves up: Eval and Lasting are defined  *)
(* for every rule.                                                         *)
(***************************************************************************)

\* A non-empty set of subsets of a finite set has a least one.
LEMMA LeastSubset ==
  ASSUME NEW S, IsFiniteSet(S), NEW some \in SUBSET (SUBSET S), some # {}
  PROVE  \E m \in some : \A x \in some : x \subseteq m => x = m
<1>1. IsWellFoundedOn(StrictSubsetOrdering(S), SUBSET S)
  BY FS_StrictSubsetOrderingWellFounded, FS_FiniteSubsetsOfFinite
<1>2. PICK m \in some : \A x \in some : <<x, m>> \notin StrictSubsetOrdering(S)
  BY <1>1, WFMin
<1>. QED  BY <1>2 DEF StrictSubsetOrdering

\* A rule's value from the values that f gives its parts, and only from those.
FromParts(N) ==
  /\ N \in [Rules \X [Rules -> BOOLEAN] -> BOOLEAN]
  /\ \A rule \in Rules, f, g \in [Rules -> BOOLEAN] :
       (\A q \in Parts(rule) : f[q] = g[q]) => N[<<rule, f>>] = N[<<rule, g>>]

\* f is right for the rules outside some, and these have their parts outside.
SolvedOutside(N, f, some) ==
  /\ f \in [Rules -> BOOLEAN]
  /\ \A rule \in Rules \ some : f[rule] = N[<<rule, f>>] /\ Parts(rule) \cap some = {}

\* Such a value is defined for every rule: were a smallest set of rules left over,
\* one with no part in it could be given its value.
LEMMA FromTheLeaves ==
  ASSUME NEW N, FromParts(N)
  PROVE  \E f \in [Rules -> BOOLEAN] : \A rule \in Rules : f[rule] = N[<<rule, f>>]
<1>. DEFINE Left == {some \in SUBSET Rules : \E f : SolvedOutside(N, f, some)}
<1>1. Rules \in Left
  <2>1. SolvedOutside(N, [rule \in Rules |-> TRUE], Rules)
    BY DEF SolvedOutside
  <2>. QED  BY <2>1
<1>2. PICK least \in Left : \A x \in Left : x \subseteq least => x = least
  <2>1. Left \in SUBSET (SUBSET Rules) /\ IsFiniteSet(Rules) /\ Left # {}
    BY <1>1, RulesAssumption
  <2>. HIDE DEF Left
  <2>. QED  BY <2>1, LeastSubset
<1>3. PICK f : SolvedOutside(N, f, least)
  BY <1>2
<1>4. least = {}
  <2>. SUFFICES ASSUME least # {} PROVE FALSE
    OBVIOUS
  <2>1. PICK rule \in least : Parts(rule) \cap least = {}
    BY RulesAssumption
  <2>2. rule \in Rules
    OBVIOUS
  <2>. DEFINE g == [f EXCEPT ![rule] = N[<<rule, f>>]]
              rest == least \ {rule}
  <2>3. /\ g \in [Rules -> BOOLEAN]
        /\ g[rule] = N[<<rule, f>>]
        /\ \A q \in Rules : q # rule => g[q] = f[q]
    BY <1>3, <2>2 DEF SolvedOutside, FromParts
  <2>. HIDE DEF g
  <2>4. ASSUME NEW q \in Rules \ rest PROVE g[q] = N[<<q, g>>] /\ Parts(q) \cap rest = {}
    <3>1. Parts(q) \cap least = {}
      BY <1>3, <2>1, <2>4 DEF SolvedOutside
    <3>2. \A x \in Parts(q) : g[x] = f[x]
      BY <2>1, <2>3, <3>1, RulesAssumption
    <3>3. N[<<q, g>>] = N[<<q, f>>]
      <4>1. q \in Rules /\ g \in [Rules -> BOOLEAN] /\ f \in [Rules -> BOOLEAN]
        BY <1>3, <2>3 DEF SolvedOutside
      <4>2. \A r \in Rules, x, y \in [Rules -> BOOLEAN] :
              (\A p \in Parts(r) : x[p] = y[p]) => N[<<r, x>>] = N[<<r, y>>]
        BY Zenon DEF FromParts
      <4>. QED  BY <3>2, <4>1, <4>2, Zenon
    <3>4. g[q] = N[<<q, f>>]
      BY <1>3, <2>3, <2>4 DEF SolvedOutside
    <3>. QED  BY <3>1, <3>3, <3>4
  <2>5. SolvedOutside(N, g, rest)
    BY <2>3, <2>4 DEF SolvedOutside
  <2>6. rest \in Left
    BY <2>5
  <2>. QED  BY <1>2, <2>1, <2>6
<1>. QED  BY <1>3, <1>4 DEF SolvedOutside

\* One node of Eval, and one of Lasting.
EvalNode(r, st, eval) ==
  \/ r.kind = "empty"
  \/ r.kind = "all"    /\ \A q \in r.of : eval[q]
  \/ r.kind = "any"    /\ (r.of = {} \/ \E q \in r.of : eval[q])
  \/ r.kind = "not"    /\ ~eval[r.arg]
  \/ r.kind = "solved" /\ r.ec \in st.solved
  \/ r.kind = "points" /\ st.points >= r.n
  \/ r.kind = "count"  /\ Cardinality(st.solved) >= r.n
  \/ r.kind = "after"  /\ st.now >= r.t
  \/ /\ r.kind = "block"
     /\ st.blockTotal[r.block] > 0
     /\ st.blockSolved[r.block] >= st.blockTotal[r.block]

LastingNode(r, lasting) ==
  /\ r.kind \notin {"not", "block"}
  /\ r.kind \in {"all", "any"} => \A q \in r.of : lasting[q]

Evals(f, st) == f = [r \in Rules |-> EvalNode(r, st, f)]
Lastings(f)  == f = [r \in Rules |-> LastingNode(r, f)]

LEMMA EvalChosen ==
  ASSUME NEW rule, NEW st
  PROVE  Eval(rule, st) = (CHOOSE f : Evals(f, st))[rule]
BY Zenon DEF Eval, Evals, EvalNode

LEMMA LastingChosen ==
  ASSUME NEW rule
  PROVE  Lasting(rule) = (CHOOSE f : Lastings(f))[rule]
BY Zenon DEF Lasting, Lastings, LastingNode

LEMMA PartsOf ==
  ASSUME NEW rule
  PROVE  /\ rule.kind \in {"all", "any"} => Parts(rule) = rule.of
         /\ rule.kind = "not" => Parts(rule) = {rule.arg}
BY DEF Parts

\* What Eval makes of a rule, by the values of its parts.
LEMMA EvalOf ==
  ASSUME NEW st
  PROVE  \A rule \in Rules : Eval(rule, st) = EvalNode(rule, st, [q \in Rules |-> Eval(q, st)])
<1>. DEFINE N == [p \in Rules \X [Rules -> BOOLEAN] |-> EvalNode(p[1], st, p[2])]
<1>1. \A rule \in Rules, f \in [Rules -> BOOLEAN] : N[<<rule, f>>] = EvalNode(rule, st, f)
  OBVIOUS
<1>2. N \in [Rules \X [Rules -> BOOLEAN] -> BOOLEAN]
  <2>1. \A p \in Rules \X [Rules -> BOOLEAN] : EvalNode(p[1], st, p[2]) \in BOOLEAN
    BY DEF EvalNode
  <2>. QED  BY <2>1
<1>. HIDE DEF N
<1>3. ASSUME NEW rule \in Rules, NEW f \in [Rules -> BOOLEAN], NEW g \in [Rules -> BOOLEAN],
             \A q \in Parts(rule) : f[q] = g[q]
      PROVE  EvalNode(rule, st, f) = EvalNode(rule, st, g)
  BY <1>3, PartsOf DEF EvalNode
<1>4. FromParts(N)
  BY <1>1, <1>2, <1>3 DEF FromParts
<1>5. PICK f \in [Rules -> BOOLEAN] : \A rule \in Rules : f[rule] = N[<<rule, f>>]
  BY <1>4, FromTheLeaves
<1>6. Evals(f, st)
  BY <1>1, <1>5 DEF Evals
<1>7. PICK h : h = (CHOOSE x : Evals(x, st))
  OBVIOUS
<1>8. Evals(h, st)
  BY <1>6, <1>7
<1>9. h = [q \in Rules |-> Eval(q, st)]
  BY <1>7, <1>8, EvalChosen DEF Evals
<1>. QED  BY <1>8, <1>9 DEF Evals

\* What Lasting makes of it.
LEMMA LastingOf ==
  \A rule \in Rules : Lasting(rule) = LastingNode(rule, [q \in Rules |-> Lasting(q)])
<1>. DEFINE N == [p \in Rules \X [Rules -> BOOLEAN] |-> LastingNode(p[1], p[2])]
<1>1. \A rule \in Rules, f \in [Rules -> BOOLEAN] : N[<<rule, f>>] = LastingNode(rule, f)
  OBVIOUS
<1>2. N \in [Rules \X [Rules -> BOOLEAN] -> BOOLEAN]
  <2>1. \A p \in Rules \X [Rules -> BOOLEAN] : LastingNode(p[1], p[2]) \in BOOLEAN
    BY DEF LastingNode
  <2>. QED  BY <2>1
<1>. HIDE DEF N
<1>3. ASSUME NEW rule \in Rules, NEW f \in [Rules -> BOOLEAN], NEW g \in [Rules -> BOOLEAN],
             \A q \in Parts(rule) : f[q] = g[q]
      PROVE  LastingNode(rule, f) = LastingNode(rule, g)
  BY <1>3, PartsOf DEF LastingNode
<1>4. FromParts(N)
  BY <1>1, <1>2, <1>3 DEF FromParts
<1>5. PICK f \in [Rules -> BOOLEAN] : \A rule \in Rules : f[rule] = N[<<rule, f>>]
  BY <1>4, FromTheLeaves
<1>6. Lastings(f)
  BY <1>1, <1>5 DEF Lastings
<1>7. PICK h : h = (CHOOSE x : Lastings(x))
  OBVIOUS
<1>8. Lastings(h)
  BY <1>6, <1>7
<1>9. h = [q \in Rules |-> Lasting(q)]
  BY <1>7, <1>8, LastingChosen DEF Lastings
<1>. QED  BY <1>8, <1>9 DEF Lastings

\* What is known of a team, and that it is no more than what is known later.
Known(st) == st.solved \subseteq Challenges /\ st.points \in Int /\ st.now \in Int

Before(st, later) ==
  /\ st.solved \subseteq later.solved
  /\ st.now <= later.now
  /\ st.points <= later.points

\* A lasting rule that holds goes on holding: of the rules for which it does not,
\* one would have no part among them, and its own node can only become true.
LEMMA LastingHolds ==
  ASSUME NEW st, NEW later, Known(st), Known(later), Before(st, later)
  PROVE  \A rule \in Rules : Lasting(rule) /\ Eval(rule, st) => Eval(rule, later)
<1>. DEFINE Lost == {rule \in Rules : Lasting(rule) /\ Eval(rule, st) /\ ~Eval(rule, later)}
<1>. SUFFICES ASSUME Lost # {} PROVE FALSE
  OBVIOUS
<1>1. PICK rule \in Lost : Parts(rule) \cap Lost = {}
  BY RulesAssumption
<1>2. rule \in Rules /\ Lasting(rule) /\ Eval(rule, st) /\ ~Eval(rule, later)
  OBVIOUS
<1>3. Parts(rule) \subseteq Rules
  BY <1>2, RulesAssumption
<1>4. \A q \in Parts(rule) : Lasting(q) /\ Eval(q, st) => Eval(q, later)
  BY <1>1, <1>3
<1>. HIDE DEF Lost
<1>5. /\ rule.kind \notin {"not", "block"}
      /\ rule.kind \in {"all", "any"} => \A q \in Parts(rule) : Lasting(q)
  <2>1. LastingNode(rule, [q \in Rules |-> Lasting(q)])
    BY <1>2, LastingOf
  <2>. QED  BY <2>1, <1>3, PartsOf DEF LastingNode
<1>6. EvalNode(rule, st, [q \in Rules |-> Eval(q, st)])
  BY <1>2, EvalOf
<1>7. ~EvalNode(rule, later, [q \in Rules |-> Eval(q, later)])
  BY <1>2, EvalOf
<1>8. CASE rule.kind = "empty"
  BY <1>7, <1>8 DEF EvalNode
<1>9. CASE rule.kind = "all"
  BY <1>3, <1>4, <1>5, <1>6, <1>7, <1>9, PartsOf DEF EvalNode
<1>10. CASE rule.kind = "any"
  BY <1>3, <1>4, <1>5, <1>6, <1>7, <1>10, PartsOf DEF EvalNode
<1>11. CASE rule.kind = "solved"
  BY <1>6, <1>7, <1>11 DEF EvalNode, Before
<1>12. CASE rule.kind = "points"
  <2>1. rule.n \in Int
    BY <1>2, <1>12, NumbersAssumption
  <2>. QED  BY <1>5, <1>6, <1>7, <1>12, <2>1 DEF EvalNode, Before, Known
<1>13. CASE rule.kind = "count"
  <2>1. rule.n \in Int
    BY <1>2, <1>13, NumbersAssumption
  <2>2. /\ Cardinality(st.solved) <= Cardinality(later.solved)
        /\ Cardinality(st.solved) \in Nat /\ Cardinality(later.solved) \in Nat
    <3>1. IsFiniteSet(later.solved) /\ st.solved \subseteq later.solved
      BY RowsAssumption, FS_Subset DEF Known, Before
    <3>. QED  BY <3>1, FS_Subset, FS_CardinalityType
  <2>. QED  BY <1>6, <1>7, <1>13, <2>1, <2>2 DEF EvalNode
<1>14. CASE rule.kind = "after"
  <2>1. rule.t \in Int
    BY <1>2, <1>14, NumbersAssumption
  <2>. QED  BY <1>6, <1>7, <1>14, <2>1 DEF EvalNode, Before, Known
<1>15. rule.kind \in {"empty", "all", "any", "solved", "points", "count", "after"}
  BY <1>5, <1>6 DEF EvalNode
<1>. QED  BY <1>8, <1>9, <1>10, <1>11, <1>12, <1>13, <1>14, <1>15

------------------------------------------------------------------------------
(***************************************************************************)
(* Submissions.  SInv says of each request that what it has read lies      *)
(* between the team it started with and the team as it is now.             *)
(***************************************************************************)
Past == [solved : SUBSET Challenges, points : Int, now : Int]
Gate == [solved : SUBSET Challenges, blockSolved : [Blocks -> Nat], points : Int]

TeamTyped ==
  /\ now \in 0..MaxTime
  /\ row \in [Challenges -> Row]
  /\ blk \in [Blocks -> BlockRow]
  /\ solved \subseteq Challenges
  /\ awards \subseteq DOMAIN Awards
  /\ points \in Int

HandlersTyped ==
  /\ pc \in [Requests -> {"idle", "team", "challenge", "block", "solved", "points",
                          "totals", "record", "locked"}]
  /\ ec \in [Requests -> Challenges \cup {None}]
  /\ got \in [Requests -> Row \cup {None}]
  /\ blockRule \in [Requests -> Rules]
  /\ gate \in [Requests -> Gate \cup {None}]
  /\ skipped \in [Requests -> BOOLEAN]
  /\ started \in [Requests -> Past \cup {None}]
  /\ lost \in [Requests -> BOOLEAN]

\* What a request has at each point of the handler.
HasRead(r) ==
  /\ pc[r] = "idle" <=> ec[r] = None
  /\ pc[r] \in {"idle", "team", "challenge"} <=> got[r] = None
  /\ got[r] # None => got[r].state = "published"
  /\ pc[r] # "idle" => started[r] \in Past
  /\ pc[r] \in {"points", "totals"} => gate[r] \in Gate

\* The block's rule is that of the block, if it has been read at all.
BlockRead(r) ==
  \/ blockRule[r] = Always
  \/ /\ got[r] # None
     /\ got[r].block \in Blocks
     /\ blockRule[r] = blk[got[r].block].rule

\* Its reads are of the team at some moment since it started.
ReadSince(r) ==
  pc[r] # "idle" /\ ~lost[r] =>
    /\ Before(started[r], TeamState)
    /\ pc[r] \in {"points", "totals"} =>
         started[r].solved \subseteq gate[r].solved /\ gate[r].solved \subseteq solved
    /\ pc[r] = "totals" =>
         started[r].points <= gate[r].points /\ gate[r].points <= points

Admitted(r) ==
  pc[r] = "record" /\ ~skipped[r] /\ ~lost[r] =>
    \A rule \in LastingRules(r) : Eval(rule, TeamState)

Refused(r) ==
  pc[r] = "locked" =>
    \/ lost[r]
    \/ \E rule \in LastingRules(r) : ~Eval(rule, started[r])
    \/ LastingRules(r) # {got[r].rule, blockRule[r]}

RequestOK(r) == HasRead(r) /\ BlockRead(r) /\ ReadSince(r) /\ Admitted(r) /\ Refused(r)

SInv == TeamTyped /\ HandlersTyped /\ \A r \in Requests : RequestOK(r)

\* A request that takes no step.
Same(r) ==
  /\ pc'[r] = pc[r] /\ ec'[r] = ec[r] /\ got'[r] = got[r] /\ blockRule'[r] = blockRule[r]
  /\ gate'[r] = gate[r] /\ skipped'[r] = skipped[r] /\ started'[r] = started[r]

\* It loses nothing, unless that is remembered.
Gains(r) == pc[r] # "idle" /\ ~lost'[r] => ~lost[r] /\ Before(TeamState, TeamState')

\* The team's types stay, and blocks keep their rules.
Kept == TeamTyped' /\ \A b \in Blocks : blk'[b].rule = blk[b].rule

LEMMA TeamKnown ==
  ASSUME TeamTyped
  PROVE  Known(TeamState)
BY PointsAssumption DEF TeamTyped, Known, TeamState

LEMMA RulesRead ==
  ASSUME HandlersTyped, NEW r \in Requests, got[r] # None
  PROVE  got[r] \in Row /\ got[r].rule \in Rules /\ blockRule[r] \in Rules
<1>1. got[r] \in Row
  BY DEF HandlersTyped
<1>. QED  BY <1>1 DEF Row, HandlersTyped

\* What holds of a request goes on holding while others act, and the team gains.
LEMMA Undisturbed ==
  ASSUME SInv, Kept, NEW r \in Requests, Same(r), Gains(r)
  PROVE  RequestOK(r)'
<1>. USE DEF SInv, RequestOK, Kept
<1>1. HasRead(r)'
  BY DEF HasRead, Same
<1>2. BlockRead(r)'
  BY DEF BlockRead, Same
<1>3. ReadSince(r)'
  <2>. SUFFICES ASSUME pc[r] # "idle", ~lost'[r]
                PROVE  /\ Before(started[r], TeamState')
                       /\ pc[r] \in {"points", "totals"} =>
                            /\ started[r].solved \subseteq gate[r].solved
                            /\ gate[r].solved \subseteq solved'
                       /\ pc[r] = "totals" =>
                            /\ started[r].points <= gate[r].points
                            /\ gate[r].points <= points'
    BY DEF ReadSince, Same
  <2>1. ~lost[r] /\ Before(TeamState, TeamState') /\ Before(started[r], TeamState)
    BY DEF Gains, ReadSince
  <2>2. started[r] \in Past
    BY DEF HasRead
  <2>3. Before(started[r], TeamState')
    BY <2>1, <2>2, PointsAssumption DEF Before, TeamState, Past, TeamTyped
  <2>4. solved \subseteq solved' /\ points <= points'
    BY <2>1 DEF Before, TeamState
  <2>5. pc[r] = "totals" => gate[r].points \in Int
    BY DEF HasRead, Gate
  <2>6. pc[r] \in {"points", "totals"} =>
          started[r].solved \subseteq gate[r].solved /\ gate[r].solved \subseteq solved'
    BY <2>1, <2>4 DEF ReadSince
  <2>7. pc[r] = "totals" => started[r].points <= gate[r].points /\ gate[r].points <= points'
    BY <2>1, <2>4, <2>5 DEF ReadSince, TeamTyped
  <2>. QED  BY <2>3, <2>6, <2>7
<1>4. Admitted(r)'
  <2>. SUFFICES ASSUME pc[r] = "record", ~skipped[r], ~lost'[r], NEW rule \in LastingRules(r)
                PROVE  Eval(rule, TeamState')
    BY DEF Admitted, Same, LastingRules
  <2>1. rule \in Rules /\ Lasting(rule)
    BY RulesRead DEF LastingRules, HasRead
  <2>2. ~lost[r] /\ Before(TeamState, TeamState')
    BY DEF Gains
  <2>3. Eval(rule, TeamState)
    BY <2>2 DEF Admitted
  <2>4. Known(TeamState) /\ Known(TeamState')
    BY PointsAssumption DEF TeamTyped, Known, TeamState
  <2>. QED  BY <2>1, <2>2, <2>3, <2>4, LastingHolds
<1>5. Refused(r)'
  <2>1. pc[r] = "locked" /\ lost[r] => lost'[r]
    BY DEF Gains
  <2>. QED  BY <2>1 DEF Refused, Same, LastingRules
<1>. QED  BY <1>1, <1>2, <1>3, <1>4, <1>5

\* A team as it is now is no more than itself.
LEMMA StillThere ==
  ASSUME SInv, UNCHANGED <<solved, points>>, now' = now \/ now' = now + 1
  PROVE  Before(TeamState, TeamState')
BY PointsAssumption DEF Before, TeamState, SInv, TeamTyped

LEMMA CountsTyped ==
  ASSUME TeamTyped
  PROVE  BlockSolvedCounts \in [Blocks -> Nat] /\ BlockTotalCounts \in [Blocks -> Nat]
<1>1. \A S \in SUBSET Challenges : Cardinality(S) \in Nat
  BY RowsAssumption, FS_Subset, FS_CardinalityType
<1>2. \A b \in Blocks : InBlock(b, solved) \in SUBSET Challenges
  BY DEF InBlock, TeamTyped
<1>3. \A b \in Blocks : {c \in InBlock(b, Challenges) : row[c].state = "published"} \in SUBSET Challenges
  BY DEF InBlock
<1>. QED  BY <1>1, <1>2, <1>3 DEF BlockSolvedCounts, BlockTotalCounts

\* An action of request r that leaves the others alone.
Only(r) ==
  /\ HandlersTyped'
  /\ \A q \in Requests \ {r} : Same(q) /\ lost'[q] = lost[q]

\* It is enough to look at r.
LEMMA OneRequest ==
  ASSUME SInv, Kept, Before(TeamState, TeamState'), NEW r \in Requests, Only(r),
         RequestOK(r)'
  PROVE  SInv'
<1>1. \A q \in Requests \ {r} : Gains(q)
  BY DEF Only, Gains
<1>. QED  BY <1>1, Undisturbed DEF Only, SInv, Kept

\* And at none if no request takes a step.
LEMMA NoRequest ==
  ASSUME SInv, Kept, Before(TeamState, TeamState'), UNCHANGED handler
  PROVE  SInv'
<1>1. HandlersTyped'
  BY DEF SInv, HandlersTyped, handler
<1>2. \A r \in Requests : Same(r) /\ Gains(r)
  BY DEF Same, Gains, handler
<1>. QED  BY <1>1, <1>2, Undisturbed DEF SInv, Kept

LEMMA SubmitStarts == ASSUME Init PROVE SInv
<1>. USE DEF Init
<1>1. TeamTyped
  BY RowsAssumption, PointsAssumption DEF TeamTyped
<1>2. HandlersTyped
  BY RulesAssumption DEF HandlersTyped
<1>3. \A r \in Requests : RequestOK(r)
  BY DEF RequestOK, HasRead, BlockRead, ReadSince, Admitted, Refused
<1>. QED  BY <1>1, <1>2, <1>3 DEF SInv

\* A request that has been answered.
LEMMA Answered ==
  ASSUME SInv, Kept, Before(TeamState, TeamState'), NEW r \in Requests, Done(r)
  PROVE  SInv'
<1>1. Only(r)
  BY RulesAssumption DEF Only, Done, Same, SInv, HandlersTyped
<1>2. RequestOK(r)'
  BY DEF Done, RequestOK, HasRead, BlockRead, ReadSince, Admitted, Refused, SInv, HandlersTyped
<1>. QED  BY <1>1, <1>2, OneRequest

\* Steps of the handler before its last leave the team alone.
LEMMA TeamLeft ==
  ASSUME SInv, UNCHANGED <<now, board, team>>
  PROVE  /\ Kept
         /\ Before(TeamState, TeamState')
         /\ TeamState' = TeamState
<1>1. Kept
  BY DEF SInv, TeamTyped, Kept, board, team
<1>2. Before(TeamState, TeamState')
  BY StillThere DEF team
<1>3. TeamState' = TeamState
  BY DEF TeamState, BlockSolvedCounts, BlockTotalCounts, InBlock, board, team
<1>. QED  BY <1>1, <1>2, <1>3

LEMMA BeginSubmitOK ==
  ASSUME SInv, NEW r \in Requests, NEW c \in Challenges, BeginSubmit(r, c)
  PROVE  SInv'
<1>. USE DEF BeginSubmit, Goto
<1>1. Kept /\ Before(TeamState, TeamState')
  BY TeamLeft
<1>2. Only(r)
  BY PointsAssumption DEF Only, Same, SInv, HandlersTyped, TeamTyped, Past
<1>3. started'[r] = [solved |-> solved, points |-> points, now |-> now] /\ pc'[r] = "team"
  BY DEF SInv, HandlersTyped
<1>4. HasRead(r)'
  <2>1. got'[r] = None /\ ec'[r] = c /\ c # None
    BY RowsAssumption DEF SInv, RequestOK, HasRead, HandlersTyped
  <2>2. started'[r] \in Past
    BY <1>3, PointsAssumption DEF Past, SInv, TeamTyped
  <2>. QED  BY <1>3, <2>1, <2>2 DEF HasRead
<1>5. ReadSince(r)'
  BY <1>3, PointsAssumption DEF ReadSince, Before, TeamState, SInv, TeamTyped, board, team
<1>6. Admitted(r)' /\ Refused(r)'
  BY <1>3 DEF Admitted, Refused
<1>7. BlockRead(r)'
  BY DEF SInv, RequestOK, BlockRead, board
<1>. QED  BY <1>1, <1>2, <1>4, <1>5, <1>6, <1>7, OneRequest DEF RequestOK

LEMMA FindTeamOK ==
  ASSUME SInv, NEW r \in Requests, FindTeam(r)
  PROVE  SInv'
<1>. USE DEF FindTeam, Goto
<1>1. Kept /\ Before(TeamState, TeamState') /\ TeamState' = TeamState
  BY TeamLeft
<1>2. Only(r)
  BY DEF Only, Same, SInv, HandlersTyped
<1>3. RequestOK(r)'
  BY <1>1 DEF RequestOK, HasRead, BlockRead, ReadSince, Admitted, Refused, board, SInv, HandlersTyped
<1>. QED  BY <1>1, <1>2, <1>3, OneRequest

LEMMA ReadChallengeOK ==
  ASSUME SInv, NEW r \in Requests, ReadChallenge(r)
  PROVE  SInv'
<1>. USE DEF ReadChallenge, Goto
<1>1. Kept /\ Before(TeamState, TeamState') /\ TeamState' = TeamState
  BY TeamLeft
<1>2. ec[r] \in Challenges
  BY DEF SInv, RequestOK, HasRead, HandlersTyped
<1>3. row[ec[r]] \in Row /\ row[ec[r]] # None
  BY <1>2, RowsAssumption DEF SInv, TeamTyped
<1>4. Only(r)
  BY <1>3 DEF Only, Same, SInv, HandlersTyped
<1>5. RequestOK(r)'
  BY <1>1, <1>3 DEF RequestOK, HasRead, BlockRead, ReadSince, Admitted, Refused, board, SInv, HandlersTyped
<1>. QED  BY <1>1, <1>4, <1>5, OneRequest

LEMMA ReadBlockOK ==
  ASSUME SInv, NEW r \in Requests, ReadBlock(r)
  PROVE  SInv'
<1>. USE DEF ReadBlock, Goto
<1>1. Kept /\ Before(TeamState, TeamState') /\ TeamState' = TeamState
  BY TeamLeft
<1>2. got[r] # None
  BY DEF SInv, RequestOK, HasRead
<1>3. got[r] \in Row
  BY <1>2, RulesRead DEF SInv
<1>4. got[r].block # None => blk[got[r].block].rule \in Rules
  BY <1>3 DEF Row, BlockRow, SInv, TeamTyped
<1>5. Only(r)
  <2>1. blockRule' \in [Requests -> Rules] /\ skipped' \in [Requests -> BOOLEAN]
    BY <1>4 DEF SInv, HandlersTyped
  <2>2. /\ pc' \in [Requests -> {"idle", "team", "challenge", "block", "solved", "points",
                                 "totals", "record", "locked"}]
        /\ \A q \in Requests \ {r} : Same(q)
    BY DEF SInv, HandlersTyped, Same
  <2>. QED  BY <2>1, <2>2 DEF Only, SInv, HandlersTyped
<1>6. pc'[r] = "solved" /\ pc[r] = "block"
  BY DEF SInv, HandlersTyped
<1>7. BlockRead(r)'
  <2>1. CASE got[r].block # None /\ blockRule' = [blockRule EXCEPT ![r] = blk[got[r].block].rule]
    BY <1>2, <1>3, <2>1 DEF BlockRead, Row, SInv, HandlersTyped, board
  <2>2. CASE UNCHANGED blockRule
    BY <2>2 DEF BlockRead, SInv, RequestOK, board
  <2>. QED  BY <2>1, <2>2
<1>8. RequestOK(r)'
  BY <1>1, <1>6, <1>7 DEF RequestOK, HasRead, ReadSince, Admitted, Refused, SInv
<1>. QED  BY <1>1, <1>5, <1>8, OneRequest

LEMMA ReadSolvedOK ==
  ASSUME SInv, NEW r \in Requests, ReadSolved(r)
  PROVE  SInv'
<1>. USE DEF ReadSolved, Goto
<1>1. Kept /\ Before(TeamState, TeamState') /\ TeamState' = TeamState
  BY TeamLeft
<1>2. PICK g : g = [solved |-> solved, blockSolved |-> BlockSolvedCounts, points |-> 0]
  OBVIOUS
<1>3. g \in Gate /\ g.solved = solved
  BY <1>2, CountsTyped DEF SInv, TeamTyped, Gate
<1>4. gate' = [gate EXCEPT ![r] = g]
  BY <1>2
<1>5. Only(r)
  BY <1>3, <1>4 DEF Only, Same, SInv, HandlersTyped
<1>6. gate'[r] = g /\ pc'[r] = "points" /\ pc[r] = "solved"
  BY <1>4 DEF SInv, HandlersTyped
<1>7. HasRead(r)'
  BY <1>3, <1>6 DEF HasRead, RequestOK, SInv
<1>8. ReadSince(r)'
  <2>1. ~lost[r] => started[r].solved \subseteq solved
    BY <1>6 DEF SInv, RequestOK, ReadSince, Before, TeamState
  <2>. QED  BY <1>1, <1>3, <1>6, <2>1 DEF ReadSince, RequestOK, SInv, team
<1>9. Admitted(r)' /\ Refused(r)'
  BY <1>6 DEF Admitted, Refused
<1>10. BlockRead(r)'
  BY DEF SInv, RequestOK, BlockRead, board
<1>. QED  BY <1>1, <1>5, <1>7, <1>8, <1>9, <1>10, OneRequest DEF RequestOK

LEMMA ReadPointsOK ==
  ASSUME SInv, NEW r \in Requests, ReadPoints(r)
  PROVE  SInv'
<1>. USE DEF ReadPoints, Goto
<1>1. Kept /\ Before(TeamState, TeamState') /\ TeamState' = TeamState
  BY TeamLeft
<1>2. gate[r] \in Gate
  BY DEF SInv, RequestOK, HasRead
<1>3. PICK g : g = [gate[r] EXCEPT !.points = points]
  OBVIOUS
<1>4. g \in Gate /\ g.solved = gate[r].solved /\ g.points = points
  BY <1>2, <1>3 DEF SInv, TeamTyped, Gate
<1>5. gate' = [gate EXCEPT ![r] = g]
  BY <1>3
<1>6. Only(r)
  BY <1>4, <1>5 DEF Only, Same, SInv, HandlersTyped
<1>7. gate'[r] = g /\ pc'[r] = "totals" /\ pc[r] = "points"
  BY <1>5 DEF SInv, HandlersTyped
<1>8. HasRead(r)'
  BY <1>4, <1>7 DEF HasRead, RequestOK, SInv
<1>9. ReadSince(r)'
  <2>1. ~lost[r] => started[r].points <= points
    BY <1>7 DEF SInv, RequestOK, ReadSince, Before, TeamState
  <2>2. points <= points
    BY DEF SInv, TeamTyped
  <2>3. ~lost[r] =>
          started[r].solved \subseteq gate[r].solved /\ gate[r].solved \subseteq solved
    BY <1>7 DEF SInv, RequestOK, ReadSince
  <2>. QED  BY <1>1, <1>4, <1>7, <2>1, <2>2, <2>3 DEF ReadSince, RequestOK, SInv, team
<1>10. Admitted(r)' /\ Refused(r)'
  BY <1>7 DEF Admitted, Refused
<1>11. BlockRead(r)'
  BY DEF SInv, RequestOK, BlockRead, board
<1>. QED  BY <1>1, <1>6, <1>8, <1>9, <1>10, <1>11, OneRequest DEF RequestOK

\* The team as the handler has put it together lies between the team it started
\* with and the team as it is: what passes its rules still holds, and what does
\* not pass did not hold then.
LEMMA ReadTotalsOK ==
  ASSUME SInv, NEW r \in Requests, ReadTotals(r)
  PROVE  SInv'
<1>. USE DEF ReadTotals, Goto
<1>1. Kept /\ Before(TeamState, TeamState') /\ TeamState' = TeamState
  BY TeamLeft
<1>2. Only(r)
  BY DEF Only, Same, SInv, HandlersTyped
<1>3. pc[r] = "totals" /\ pc'[r] = IF Passes(r) THEN "record" ELSE "locked"
  BY DEF SInv, HandlersTyped
<1>4. HasRead(r)' /\ BlockRead(r)' /\ ReadSince(r)'
  BY <1>1, <1>3 DEF HasRead, BlockRead, ReadSince, RequestOK, SInv, board
<1>5. PICK full : full = FullGate(r)
  OBVIOUS
<1>6. ASSUME ~lost[r]
      PROVE  /\ Known(started[r]) /\ Known(full) /\ Known(TeamState)
             /\ Before(started[r], full) /\ Before(full, TeamState)
  <2>1. /\ gate[r] \in Gate /\ started[r] \in Past
        /\ started[r].solved \subseteq gate[r].solved /\ gate[r].solved \subseteq solved
        /\ started[r].points <= gate[r].points /\ gate[r].points <= points
        /\ started[r].now <= now
    BY <1>3, <1>6 DEF SInv, RequestOK, HasRead, ReadSince, Before, TeamState
  <2>2. full.solved = gate[r].solved /\ full.points = gate[r].points /\ full.now = now
    BY <1>5 DEF FullGate
  <2>3. Known(started[r])
    BY <2>1 DEF Known, Past
  <2>4. Known(full)
    BY <2>1, <2>2, PointsAssumption DEF Known, Gate, SInv, TeamTyped
  <2>5. Known(TeamState)
    BY TeamKnown DEF SInv
  <2>6. Before(started[r], full)
    BY <2>1, <2>2 DEF Before
  <2>7. Before(full, TeamState)
    BY <2>1, <2>2, PointsAssumption DEF Before, TeamState, SInv, TeamTyped
  <2>. QED  BY <2>3, <2>4, <2>5, <2>6, <2>7
<1>7. got[r].rule \in Rules /\ blockRule[r] \in Rules
  BY <1>3, RulesRead DEF SInv, RequestOK, HasRead
<1>8. Passes(r) <=> Eval(got[r].rule, full) /\ Eval(blockRule[r], full)
  BY <1>5 DEF Passes
<1>9. Admitted(r)'
  <2>. SUFFICES ASSUME Passes(r), ~lost[r], NEW rule \in LastingRules(r)
                PROVE  Eval(rule, TeamState)
    BY <1>1, <1>3 DEF Admitted, LastingRules
  <2>1. rule \in Rules /\ Lasting(rule) /\ Eval(rule, full)
    BY <1>7, <1>8 DEF LastingRules
  <2>. QED  BY <1>6, <2>1, LastingHolds
<1>10. Refused(r)'
  <2>. SUFFICES ASSUME ~Passes(r), ~lost[r], LastingRules(r) = {got[r].rule, blockRule[r]}
                PROVE  \E rule \in LastingRules(r) : ~Eval(rule, started[r])
    BY <1>3 DEF Refused, LastingRules
  <2>1. PICK rule \in {got[r].rule, blockRule[r]} : ~Eval(rule, full)
    BY <1>8
  <2>2. rule \in Rules /\ Lasting(rule)
    BY <1>7 DEF LastingRules
  <2>3. ~Eval(rule, started[r])
    BY <1>6, <2>1, <2>2, LastingHolds
  <2>. QED  BY <2>3
<1>. QED  BY <1>1, <1>2, <1>4, <1>9, <1>10, OneRequest DEF RequestOK

LEMMA SkipGateOK ==
  ASSUME SInv, NEW r \in Requests, SkipGate(r)
  PROVE  SInv'
<1>. USE DEF SkipGate
<1>1. Kept /\ Before(TeamState, TeamState') /\ TeamState' = TeamState
  BY TeamLeft
<1>2. Only(r)
  BY DEF Only, Same, SInv, HandlersTyped
<1>3. pc'[r] = "record" /\ skipped'[r]
  BY DEF SInv, HandlersTyped
<1>4. RequestOK(r)'
  BY <1>1, <1>3 DEF RequestOK, HasRead, BlockRead, ReadSince, Admitted, Refused, board, SInv
<1>. QED  BY <1>1, <1>2, <1>4, OneRequest

LEMMA RecordSolveOK ==
  ASSUME SInv, NEW r \in Requests, RecordSolve(r)
  PROVE  SInv'
<1>. USE DEF RecordSolve
<1>1. ec[r] \in Challenges
  BY DEF SInv, RequestOK, HasRead, HandlersTyped
<1>2. Kept
  BY <1>1, PointsAssumption DEF SInv, TeamTyped, Kept, board
<1>3. Before(TeamState, TeamState')
  BY PointsAssumption DEF Before, TeamState, SInv, TeamTyped
<1>. QED  BY <1>2, <1>3, Answered

LEMMA GiveUpOK ==
  ASSUME SInv, NEW r \in Requests, GiveUp(r)
  PROVE  SInv'
<1>1. Kept /\ Before(TeamState, TeamState')
  BY TeamLeft DEF GiveUp
<1>. QED  BY <1>1, Answered DEF GiveUp

\* What takes from the team is remembered of every request under way.
LEMMA LossOK ==
  ASSUME SInv, Kept, RememberLoss, now' = now
  PROVE  SInv'
<1>1. HandlersTyped'
  BY DEF SInv, HandlersTyped, RememberLoss, Loses
<1>2. ASSUME NEW r \in Requests PROVE Same(r) /\ Gains(r)
  <2>1. Same(r)
    BY DEF Same, RememberLoss
  <2>2. Gains(r)
    <3>. SUFFICES ASSUME pc[r] # "idle", ~lost'[r]
                  PROVE  ~lost[r] /\ Before(TeamState, TeamState')
      BY DEF Gains
    <3>1. lost'[r] = (lost[r] \/ (pc[r] # "idle" /\ Loses))
      BY Zenon DEF RememberLoss
    <3>2. ~lost[r] /\ ~Loses
      BY <3>1, Zenon
    <3>. QED  BY <3>2, PointsAssumption DEF Loses, Before, TeamState, SInv, TeamTyped, Kept
  <2>. QED  BY <2>1, <2>2
<1>. QED  BY <1>1, <1>2, Undisturbed DEF SInv, Kept

\* Awards, organizers and the clock.
LEMMA OthersOK ==
  ASSUME SInv,
         \/ \E ref \in DOMAIN Awards : Award(ref) \/ Revoke(ref)
         \/ \E c \in Challenges : DeleteChallenge(c)
         \/ \E e \in Edits : SetChallenge(e)
         \/ \E b \in Blocks, sched \in BlockSchedules : SetBlockSchedule(b, sched)
         \/ \E a \in Assignments : SetAssigned(a)
         \/ Tick
  PROVE  SInv'
<1>1. ASSUME NEW ref \in DOMAIN Awards, Award(ref) \/ Revoke(ref) PROVE SInv'
  <2>1. Awards[ref] \in Int
    BY PointsAssumption
  <2>2. Kept
    BY <1>1, <2>1 DEF Award, Revoke, SInv, TeamTyped, Kept, board
  <2>. QED  BY <1>1, <2>2, LossOK DEF Award, Revoke
<1>6. ASSUME NEW c \in Challenges, DeleteChallenge(c) PROVE SInv'
  <2>1. row' \in [Challenges -> Row]
    BY <1>6 DEF DeleteChallenge, SInv, TeamTyped, Row
  <2>2. Kept
    BY <1>6, <2>1 DEF DeleteChallenge, SInv, TeamTyped, Kept
  <2>. QED  BY <1>6, <2>2, LossOK DEF DeleteChallenge
<1>2. ASSUME NEW e \in Edits, SetChallenge(e) PROVE SInv'
  <2>1. row' \in [Challenges -> Row]
    BY <1>2, EditsAssumption DEF SetChallenge, SInv, TeamTyped, Row
  <2>2. Kept
    BY <1>2, <2>1 DEF SetChallenge, SInv, TeamTyped, Kept, team
  <2>3. Before(TeamState, TeamState')
    BY <1>2, StillThere DEF SetChallenge, team
  <2>. QED  BY <1>2, <2>2, <2>3, NoRequest DEF SetChallenge
<1>3. ASSUME NEW b \in Blocks, NEW sched \in BlockSchedules, SetBlockSchedule(b, sched)
      PROVE  SInv'
  <2>1. blk' \in [Blocks -> BlockRow] /\ \A q \in Blocks : blk'[q].rule = blk[q].rule
    BY <1>3, EditsAssumption DEF SetBlockSchedule, SInv, TeamTyped, BlockRow
  <2>2. Kept
    BY <1>3, <2>1 DEF SetBlockSchedule, SInv, TeamTyped, Kept, team
  <2>3. Before(TeamState, TeamState')
    BY <1>3, StillThere DEF SetBlockSchedule, team
  <2>. QED  BY <1>3, <2>2, <2>3, NoRequest DEF SetBlockSchedule
<1>4. ASSUME NEW a \in Assignments, SetAssigned(a) PROVE SInv'
  <2>1. Kept /\ Before(TeamState, TeamState')
    BY <1>4, StillThere DEF SetAssigned, SInv, TeamTyped, Kept, team
  <2>. QED  BY <1>4, <2>1, NoRequest DEF SetAssigned
<1>5. ASSUME Tick PROVE SInv'
  <2>1. Kept /\ Before(TeamState, TeamState')
    BY <1>5, StillThere, PointsAssumption DEF Tick, SInv, TeamTyped, Kept, team, board
  <2>. QED  BY <1>5, <2>1, NoRequest DEF Tick
<1>. QED  BY <1>1, <1>2, <1>3, <1>4, <1>5, <1>6

LEMMA SubmitStepOK == ASSUME SInv, [Next]_vars PROVE SInv'
<1>1. CASE Next
  BY <1>1, BeginSubmitOK, FindTeamOK, ReadChallengeOK, ReadBlockOK, ReadSolvedOK, ReadPointsOK,
     ReadTotalsOK, SkipGateOK, RecordSolveOK, GiveUpOK, OthersOK DEF Next
<1>2. CASE UNCHANGED vars
  <2>1. Kept /\ Before(TeamState, TeamState')
    BY <1>2, TeamLeft DEF vars
  <2>. QED  BY <1>2, <2>1, NoRequest DEF vars
<1>. QED  BY <1>1, <1>2

LEMMA SubmitInvariance == Spec => []SInv
BY SubmitStarts, SubmitStepOK, PTL DEF Spec

\* Every submission has read what it needs at each point of the handler, and from
\* the challenge's read on it is for one that was published (handleSubmit).
THEOREM SubmitTypeCorrect == Spec => []TypeOK
<1>1. SInv => TypeOK
  BY DEF SInv, TeamTyped, HandlersTyped, RequestOK, HasRead, TypeOK, Row, States
<1>. QED  BY <1>1, SubmitInvariance, PTL

\* However the reads of a submission fall among other submissions, awards and
\* edits, a solve that is about to be recorded has its lasting rules fulfilled at
\* that moment, unless a read failed or the team has lost points or a solve since
\* the request came in (handleSubmit, TeamGateState).
THEOREM AdmittedCorrect == Spec => []AdmittedIsUnlocked
<1>1. SInv => AdmittedIsUnlocked
  BY DEF SInv, RequestOK, Admitted, AdmittedIsUnlocked
<1>. QED  BY <1>1, SubmitInvariance, PTL

\* And "challenge is locked" is an answer only to a team for which one of the rules
\* did not hold when the request came in, or is not of the lasting kind, or to one
\* that has lost points or a solve since then (handleSubmit).
THEOREM RefusedCorrect == Spec => []LockedWasLocked
<1>1. SInv => LockedWasLocked
  BY DEF SInv, RequestOK, Refused, LockedWasLocked
<1>. QED  BY <1>1, SubmitInvariance, PTL

------------------------------------------------------------------------------
(***************************************************************************)
(* The list of challenges.  GInv adds to SInv that the page's reads are    *)
(* not ahead of the team unless it says so, that what is shown as open is  *)
(* open, and that what a submission relies on was so when it began.        *)
(***************************************************************************)
Seen ==
  [solved : SUBSET Challenges, points : Int,
   blockSolved : [Blocks -> Nat], blockTotal : [Blocks -> Nat]]

Shown ==
  [rule : Rules, block : Blocks \cup {None}, blockRule : Rules, blind : BOOLEAN]

ListRows   == UNION {[some -> Row] : some \in SUBSET Challenges}
ListBlks   == UNION {[some -> BlockRow] : some \in SUBSET Blocks}

ListTyped ==
  /\ view \in [at : {"idle", "blocks", "team", "solved", "points", "totals", "show"},
               rows : ListRows, blocks : ListBlks, now : Int, state : Seen,
               ahead : BOOLEAN]
  /\ page \in [Challenges -> Shown \cup {None}]
  /\ promise \in [Requests -> Shown \cup {None}]

ViewNotAhead ==
  /\ view.now <= now
  /\ view.at \in {"idle", "blocks", "team"} => view.state = EmptyTeam
  /\ ~view.ahead =>
       /\ view.state.solved \subseteq solved
       /\ view.at \in {"totals", "show"} => view.state.points <= points

\* Unless it was made without blocks, a challenge is judged by its block's rule.
Fits(shown) ==
  shown # None /\ ~shown.blind =>
    shown.blockRule = IF shown.block = None THEN Always ELSE blk[shown.block].rule

BlocksSeen ==
  /\ \A b \in DOMAIN view.blocks : view.blocks[b].rule = blk[b].rule
  /\ \A c \in Challenges : Fits(page[c])
  /\ \A r \in Requests : Fits(promise[r])

Holds(shown, st) ==
  shown # None =>
    \A rule \in {shown.rule, shown.blockRule} : Lasting(rule) => Eval(rule, st)

PageHolds == \A c \in Challenges : Holds(page[c], TeamState)

PromiseHeld == \A r \in Requests : pc[r] # "idle" => Holds(promise[r], started[r])

GInv == SInv /\ ListTyped /\ ViewNotAhead /\ BlocksSeen /\ PageHolds /\ PromiseHeld

LEMMA EmptyTyped == EmptyTeam \in Seen /\ <<>> \in ListRows /\ <<>> \in ListBlks
<1>1. EmptyTeam \in Seen
  BY DEF EmptyTeam, EmptyCounts, Seen
<1>2. <<>> \in [{} -> Row] /\ <<>> \in [{} -> BlockRow]
  OBVIOUS
<1>3. {} \in SUBSET Challenges /\ {} \in SUBSET Blocks
  OBVIOUS
<1>. QED  BY <1>1, <1>2, <1>3 DEF ListRows, ListBlks

\* What a challenge on the page is judged by.
LEMMA RulesShown ==
  ASSUME ListTyped, SInv, BlocksSeen, NEW c \in DOMAIN view.rows
  PROVE  /\ Judged(view.rows[c]) \in Shown
         /\ Fits(Judged(view.rows[c]))
         /\ RulesOf(view.rows[c]) =
              {Judged(view.rows[c]).rule, Judged(view.rows[c]).blockRule}
<1>1. view.rows \in ListRows /\ view.blocks \in ListBlks
  BY DEF ListTyped
<1>2. view.rows[c] \in Row
  BY <1>1 DEF ListRows
<1>3. PICK b : b = view.rows[c].block
  OBVIOUS
<1>4. DOMAIN view.blocks \subseteq Blocks
  BY <1>1 DEF ListBlks
<1>5. b \in DOMAIN view.blocks => view.blocks[b] \in BlockRow
  BY <1>1 DEF ListBlks
<1>6. BlockOf(view.rows[c]).rule =
        IF b \in DOMAIN view.blocks THEN view.blocks[b].rule ELSE Always
  BY <1>3 DEF BlockOf
<1>7. BlockOf(view.rows[c]).rule \in Rules
  BY <1>5, <1>6, RulesAssumption DEF BlockRow
<1>8. view.rows[c].rule \in Rules /\ b \in Blocks \cup {None}
  BY <1>2, <1>3 DEF Row
<1>9. PICK blind \in BOOLEAN : blind = (b # None /\ b \notin DOMAIN view.blocks)
  OBVIOUS
<1>10. PICK own, theirs : own = view.rows[c].rule /\ theirs = BlockOf(view.rows[c]).rule
  OBVIOUS
<1>11. PICK shown :
         shown = [rule |-> own, block |-> b, blockRule |-> theirs, blind |-> blind]
  OBVIOUS
<1>12. Judged(view.rows[c]) = shown
  BY <1>3, <1>9, <1>10, <1>11, Zenon DEF Judged
<1>13. shown \in Shown
  BY <1>7, <1>8, <1>10, <1>11 DEF Shown
<1>14. Fits(shown)
  <2>1. None \notin Blocks
    BY RowsAssumption
  <2>. QED  BY <1>4, <1>6, <1>8, <1>9, <1>10, <1>11, <2>1 DEF Fits, BlocksSeen
<1>15. RulesOf(view.rows[c]) = {shown.rule, shown.blockRule}
  BY <1>10, <1>11 DEF RulesOf
<1>. QED  BY <1>12, <1>13, <1>14, <1>15

LEMMA GalleryStarts == ASSUME GalleryInit PROVE GInv
<1>. USE DEF GalleryInit
<1>1. SInv
  BY SubmitStarts
<1>2. ListTyped
  BY EmptyTyped DEF ListTyped, Idle
<1>3. ViewNotAhead
  BY DEF ViewNotAhead, Idle, EmptyTeam, Init
<1>4. BlocksSeen /\ PageHolds /\ PromiseHeld
  BY DEF BlocksSeen, Fits, Holds, PageHolds, PromiseHeld, Idle
<1>. QED  BY <1>1, <1>2, <1>3, <1>4 DEF GInv

\* A step of the list leaves the submissions and the team alone.
LEMMA SubmissionsLeft ==
  ASSUME GInv, UNCHANGED vars
  PROVE  SInv' /\ TeamState' = TeamState
<1>1. UNCHANGED <<now, board, team>>
  BY DEF vars
<1>. QED  BY <1>1, SubmitStepOK, TeamLeft DEF GInv

\* What the list reads is of the team and the blocks as they are.
LEMMA ReadOK ==
  ASSUME GInv, UNCHANGED <<vars, page, promise>>, ListTyped', ViewNotAhead',
         \A b \in DOMAIN view'.blocks : view'.blocks[b].rule = blk[b].rule
  PROVE  GInv'
<1>1. SInv' /\ TeamState' = TeamState
  BY SubmissionsLeft
<1>2. BlocksSeen'
  BY DEF GInv, BlocksSeen, Fits, vars, board
<1>3. PageHolds' /\ PromiseHeld'
  BY <1>1 DEF GInv, PageHolds, PromiseHeld, Holds, vars, handler
<1>. QED  BY <1>1, <1>2, <1>3 DEF GInv

LEMMA ListingOK ==
  ASSUME GInv, ListChallenges \/ ListBlocks
  PROVE  GInv'
<1>. USE DEF ListChallenges, ListBlocks, Read
<1>1. ListTyped'
  <2>1. ASSUME ListChallenges PROVE ListTyped'
    <3>1. PICK rows : rows = [c \in {d \in Challenges : row[d].state = "published"} |-> row[c]]
      OBVIOUS
    <3>2. rows \in ListRows
      <4>1. PICK some \in SUBSET Challenges : some = {d \in Challenges : row[d].state = "published"}
        OBVIOUS
      <4>2. rows \in [some -> Row]
        BY <3>1, <4>1 DEF GInv, SInv, TeamTyped
      <4>. QED  BY <4>2 DEF ListRows
    <3>3. view' = [view EXCEPT !.at = "blocks", !.rows = rows]
      BY <2>1, <3>1
    <3>. QED  BY <2>1, <3>2, <3>3 DEF ListTyped, GInv
  <2>2. ASSUME ListBlocks PROVE ListTyped'
    <3>1. blk \in ListBlks
      BY DEF ListBlks, GInv, SInv, TeamTyped
    <3>. QED  BY <2>2, <3>1 DEF ListTyped, GInv
  <2>. QED  BY <2>1, <2>2
<1>2. /\ view'.state = view.state /\ view'.now = view.now /\ view'.ahead = view.ahead
      /\ view.at \in {"idle", "blocks"} /\ view'.at \in {"blocks", "team"}
  BY DEF GInv, ListTyped
<1>3. ViewNotAhead'
  BY <1>2 DEF GInv, ViewNotAhead, vars, team, EmptyTeam, EmptyCounts
<1>4. \A b \in DOMAIN view'.blocks : view'.blocks[b].rule = blk[b].rule
  <2>1. view'.blocks = view.blocks \/ view'.blocks = blk
    BY DEF GInv, ListTyped
  <2>. QED  BY <2>1 DEF GInv, BlocksSeen
<1>. QED  BY <1>1, <1>3, <1>4, ReadOK

LEMMA FindMyTeamOK == ASSUME GInv, FindMyTeam PROVE GInv'
<1>. USE DEF FindMyTeam, Read
<1>1. now \in Int
  BY PointsAssumption DEF GInv, SInv, TeamTyped
<1>2. view.at = "team" /\ view.state = EmptyTeam
  BY DEF GInv, ViewNotAhead
<1>3. EmptyTeam.solved = {} /\ EmptyTeam.points = 0
  BY DEF EmptyTeam
<1>4. /\ ListTyped' /\ view'.state = EmptyTeam /\ view'.now = now
      /\ view'.blocks = view.blocks /\ view'.at \in {"solved", "show"}
      /\ view'.at = "show" /\ points < 0 => view'.ahead
  BY <1>1, <1>2 DEF ListTyped, GInv
<1>5. now <= now /\ points \in Int
  BY <1>1 DEF GInv, SInv, TeamTyped
<1>6. ViewNotAhead'
  BY <1>3, <1>4, <1>5 DEF ViewNotAhead, vars, team
<1>. QED  BY <1>4, <1>6, ReadOK DEF GInv, BlocksSeen

LEMMA SeeOK ==
  ASSUME GInv, SeeSolved \/ SeePoints \/ SeeTotals
  PROVE  GInv'
<1>. USE DEF SeeSolved, SeePoints, SeeTotals, Read
<1>1. PICK bs, bt : bs = BlockSolvedCounts /\ bt = BlockTotalCounts
  OBVIOUS
<1>2. /\ bs \in [Blocks -> Nat] /\ bt \in [Blocks -> Nat]
      /\ solved \in SUBSET Challenges /\ points \in Int /\ points <= points
  BY <1>1, CountsTyped DEF GInv, SInv, TeamTyped
<1>3. view.state \in Seen
  BY DEF GInv, ListTyped
<1>4. ASSUME SeeSolved
      PROVE  ListTyped' /\ view'.at = "points" /\ view'.state.solved = solved
  BY <1>1, <1>2, <1>3, <1>4 DEF GInv, ListTyped, Seen
<1>5. ASSUME SeePoints
      PROVE  ListTyped' /\ view'.at = "totals" /\ view'.state.solved = view.state.solved
             /\ view'.state.points = points
  BY <1>1, <1>2, <1>3, <1>5 DEF GInv, ListTyped, Seen
<1>6. ASSUME SeeTotals
      PROVE  ListTyped' /\ view.at = "totals" /\ view'.at = "show"
             /\ view'.state.solved = view.state.solved
             /\ view'.state.points = view.state.points
  BY <1>1, <1>2, <1>3, <1>6 DEF GInv, ListTyped, Seen
<1>7. view'.now = view.now /\ view'.ahead = view.ahead /\ view'.blocks = view.blocks
  BY DEF GInv, ListTyped
<1>8. ViewNotAhead'
  BY <1>2, <1>4, <1>5, <1>6, <1>7 DEF GInv, ViewNotAhead, vars, team
<1>. QED  BY <1>4, <1>5, <1>6, <1>7, <1>8, ReadOK DEF GInv, BlocksSeen

LEMMA SeeFailsOK == ASSUME GInv, SeeFails PROVE GInv'
<1>. USE DEF SeeFails, Read
<1>1. PICK none : none = EmptyTeam
  OBVIOUS
<1>2. none \in Seen /\ none.solved = {} /\ none.points = 0
  BY <1>1, EmptyTyped DEF EmptyTeam
<1>3. /\ ListTyped' /\ view'.now = view.now /\ view'.state = none
      /\ view'.at = "show" /\ view'.blocks = view.blocks
      /\ points < 0 => view'.ahead
  BY <1>1, <1>2 DEF GInv, ListTyped
<1>4. points \in Int
  BY DEF GInv, SInv, TeamTyped
<1>5. ViewNotAhead'
  BY <1>2, <1>3, <1>4 DEF GInv, ViewNotAhead, vars, team
<1>. QED  BY <1>3, <1>5, ReadOK DEF GInv, BlocksSeen

LEMMA ShowPageOK == ASSUME GInv, ShowPage PROVE GInv'
<1>. USE DEF ShowPage
<1>1. SInv' /\ TeamState' = TeamState
  BY SubmissionsLeft
<1>2. ASSUME NEW c \in Challenges, page'[c] # None
      PROVE  /\ c \in DOMAIN view.rows /\ ShownOpen(view.rows[c]) /\ ~view.ahead
             /\ page'[c] = Judged(view.rows[c])
  BY <1>2
<1>3. ASSUME NEW c \in Challenges, page'[c] # None
      PROVE  page'[c] \in Shown /\ Fits(page'[c])
  BY <1>2, <1>3, RulesShown DEF GInv
<1>4. ListTyped'
  <2>1. page' \in [Challenges -> Shown \cup {None}]
    BY <1>3
  <2>. QED  BY <2>1, EmptyTyped DEF ListTyped, Idle, GInv
<1>5. ViewNotAhead'
  BY PointsAssumption
     DEF ViewNotAhead, Idle, EmptyTeam, EmptyCounts, GInv, SInv, TeamTyped, vars
<1>6. BlocksSeen'
  <2>1. blk' = blk /\ promise' = promise /\ DOMAIN view'.blocks = {}
    BY DEF vars, board, Idle
  <2>2. \A c \in Challenges : Fits(page'[c])
    BY <1>3 DEF Fits
  <2>. QED  BY <2>1, <2>2 DEF GInv, BlocksSeen, Fits
<1>7. ASSUME ~view.ahead
      PROVE  Known(ViewedTeam) /\ Known(TeamState) /\ Before(ViewedTeam, TeamState)
  <2>1. Known(ViewedTeam)
    BY DEF GInv, ListTyped, Seen, Known, ViewedTeam
  <2>2. Known(TeamState)
    BY TeamKnown DEF GInv, SInv
  <2>3. Before(ViewedTeam, TeamState)
    BY <1>7 DEF GInv, ViewNotAhead, Before, ViewedTeam, TeamState
  <2>. QED  BY <2>1, <2>2, <2>3
<1>8. ASSUME NEW c \in Challenges, page'[c] # None,
             NEW rule \in {page'[c].rule, page'[c].blockRule}, Lasting(rule)
      PROVE  Eval(rule, TeamState)
  <2>1. PICK shown : shown = page'[c]
    OBVIOUS
  <2>2. /\ ShownOpen(view.rows[c]) /\ ~view.ahead /\ shown \in Shown
        /\ RulesOf(view.rows[c]) = {shown.rule, shown.blockRule}
    BY <1>2, <1>3, <1>8, <2>1, RulesShown DEF GInv
  <2>3. rule \in RulesOf(view.rows[c]) /\ rule \in Rules
    BY <1>8, <2>1, <2>2 DEF Shown
  <2>4. Eval(rule, ViewedTeam)
    BY <2>2, <2>3 DEF ShownOpen
  <2>. QED  BY <1>7, <1>8, <2>2, <2>3, <2>4, LastingHolds
<1>9. PageHolds'
  BY <1>1, <1>8 DEF PageHolds, Holds
<1>10. PromiseHeld'
  BY DEF PromiseHeld, Holds, GInv, vars, handler
<1>. QED  BY <1>1, <1>4, <1>5, <1>6, <1>9, <1>10 DEF GInv

\* Of a request that takes a step, either it began with it, and then knows the team
\* as it was, or it knows no other start than before.
LEMMA StartKept ==
  ASSUME SInv, Next, NEW r \in Requests, pc'[r] # "idle"
  PROVE  \/ /\ pc[r] = "idle"
            /\ ec'[r] \in Challenges
            /\ started'[r] = [solved |-> solved, points |-> points, now |-> now]
         \/ pc[r] # "idle" /\ started'[r] = started[r]
<1>. USE DEF SInv, HandlersTyped
<1>1. ASSUME NEW q \in Requests, NEW c \in Challenges, BeginSubmit(q, c), q = r
      PROVE  /\ pc[r] = "idle"
             /\ ec'[r] \in Challenges
             /\ started'[r] = [solved |-> solved, points |-> points, now |-> now]
  BY <1>1 DEF BeginSubmit, Goto
<1>2. ASSUME NEW q \in Requests, NEW c \in Challenges, BeginSubmit(q, c), q # r
      PROVE  pc[r] # "idle" /\ started'[r] = started[r]
  BY <1>2 DEF BeginSubmit, Goto
<1>3. ASSUME NEW q \in Requests,
             FindTeam(q) \/ ReadChallenge(q) \/ ReadBlock(q) \/ ReadSolved(q) \/ ReadPoints(q)
               \/ ReadTotals(q) \/ SkipGate(q)
      PROVE  pc[r] # "idle" /\ started'[r] = started[r]
  BY <1>3 DEF FindTeam, ReadChallenge, ReadBlock, ReadSolved, ReadPoints, ReadTotals, SkipGate,
     Goto
<1>4. ASSUME NEW q \in Requests, RecordSolve(q) \/ GiveUp(q)
      PROVE  pc[r] # "idle" /\ started'[r] = started[r]
  BY <1>4 DEF RecordSolve, GiveUp, Done
<1>5. ASSUME \/ \E ref \in DOMAIN Awards : Award(ref) \/ Revoke(ref)
             \/ \E c \in Challenges : DeleteChallenge(c)
             \/ \E e \in Edits : SetChallenge(e)
             \/ \E b \in Blocks, sched \in BlockSchedules : SetBlockSchedule(b, sched)
             \/ \E a \in Assignments : SetAssigned(a)
             \/ Tick
      PROVE  pc[r] # "idle" /\ started'[r] = started[r]
  BY <1>5 DEF Award, Revoke, DeleteChallenge, RememberLoss, SetChallenge, SetBlockSchedule,
     SetAssigned, Tick, handler
<1>. QED  BY <1>1, <1>2, <1>3, <1>4, <1>5 DEF Next

\* Blocks keep their rules, and the clock does not go back.
LEMMA RulesKept ==
  ASSUME SInv, Next
  PROVE  /\ \A b \in Blocks : blk'[b].rule = blk[b].rule
         /\ now' = now \/ now' = now + 1
<1>1. blk' = blk \/ \E b \in Blocks, sched \in BlockSchedules : SetBlockSchedule(b, sched)
  BY DEF Next, BeginSubmit, FindTeam, ReadChallenge, ReadBlock, ReadSolved, ReadPoints,
     ReadTotals, SkipGate, RecordSolve, GiveUp, Award, Revoke, DeleteChallenge, SetChallenge,
     SetAssigned, Tick, board
<1>2. now' = now \/ now' = now + 1
  BY DEF Next, BeginSubmit, FindTeam, ReadChallenge, ReadBlock, ReadSolved, ReadPoints,
     ReadTotals, SkipGate, RecordSolve, GiveUp, Award, Revoke, DeleteChallenge, SetChallenge,
     SetBlockSchedule, SetAssigned, Tick
<1>3. ASSUME NEW b \in Blocks, NEW sched \in BlockSchedules, SetBlockSchedule(b, sched)
      PROVE  \A q \in Blocks : blk'[q].rule = blk[q].rule
  BY <1>3 DEF SetBlockSchedule, SInv, TeamTyped, BlockRow
<1>. QED  BY <1>1, <1>2, <1>3

LEMMA SubmissionOK == ASSUME GInv, SubmitStep PROVE GInv'
<1>. USE DEF SubmitStep
<1>1. SInv /\ SInv'
  BY SubmitStepOK DEF GInv
<1>2. Known(TeamState) /\ Known(TeamState')
  BY <1>1, PointsAssumption DEF SInv, TeamTyped, Known, TeamState
<1>3. ~Loses => Before(TeamState, TeamState')
  BY <1>1, RulesKept, PointsAssumption DEF Loses, Before, TeamState, SInv, TeamTyped
<1>4. ASSUME NEW r \in Requests, pc'[r] # "idle"
      PROVE  /\ pc[r] = "idle" => /\ ec'[r] \in Challenges
                                  /\ promise'[r] = page[ec'[r]]
                                  /\ started'[r].solved = solved
                                  /\ started'[r].points = points
                                  /\ started'[r].now = now
             /\ pc[r] # "idle" => promise'[r] = promise[r] /\ started'[r] = started[r]
  <2>1. /\ pc[r] = "idle" => promise'[r] = page[ec'[r]]
        /\ pc[r] # "idle" => promise'[r] = promise[r]
    BY <1>4
  <2>. QED  BY <1>1, <1>4, <2>1, StartKept
<1>5. page' = page \/ page' = [c \in Challenges |-> None]
  OBVIOUS
<1>6. ASSUME NEW r \in Requests
      PROVE  \/ promise'[r] = None
             \/ promise'[r] = promise[r]
             \/ \E c \in Challenges : promise'[r] = page[c]
  <2>1. CASE pc'[r] = "idle"
    BY <2>1
  <2>2. CASE pc'[r] # "idle"
    BY <1>4, <2>2
  <2>. QED  BY <2>1, <2>2
<1>7. /\ view' \in [at : {"idle", "blocks", "team", "solved", "points", "totals", "show"},
                    rows : ListRows, blocks : ListBlks, now : Int, state : Seen,
                    ahead : BOOLEAN]
      /\ view'.at = view.at /\ view'.now = view.now /\ view'.state = view.state
      /\ view'.blocks = view.blocks
      /\ Loses /\ view.at # "idle" => view'.ahead
      /\ ~Loses => view'.ahead = view.ahead
  <2>1. (view.at # "idle") \in BOOLEAN
    OBVIOUS
  <2>2. CASE Loses
    <3>1. view' = [view EXCEPT !.ahead = (view.at # "idle")]
      BY <2>2, Zenon
    <3>. QED  BY <2>1, <2>2, <3>1 DEF GInv, ListTyped
  <2>3. CASE ~Loses
    BY <2>3 DEF GInv, ListTyped
  <2>. QED  BY <2>2, <2>3
<1>8. ListTyped'
  <2>1. promise' \in [Requests -> Shown \cup {None}]
    <3>1. \A r \in Requests : promise'[r] \in Shown \cup {None}
      BY <1>6 DEF GInv, ListTyped
    <3>. QED  BY <3>1
  <2>. QED  BY <1>5, <1>7, <2>1 DEF ListTyped, GInv
<1>9. ViewNotAhead'
  <2>1. view.now <= now'
    BY <1>1, RulesKept, PointsAssumption DEF GInv, ViewNotAhead, ListTyped, SInv, TeamTyped
  <2>2. view.at \in {"idle", "blocks", "team"} => view.state = EmptyTeam
    BY DEF GInv, ViewNotAhead
  <2>3. ASSUME ~view'.ahead
        PROVE  /\ view.state.solved \subseteq solved'
               /\ view.at \in {"totals", "show"} => view.state.points <= points'
    <3>1. CASE Loses
      BY <1>7, <2>2, <2>3, <3>1 DEF EmptyTeam
    <3>2. CASE ~Loses
      <4>1. solved \subseteq solved' /\ points <= points'
        BY <1>3, <3>2 DEF Before, TeamState
      <4>2. view.state.points \in Int /\ points \in Int /\ points' \in Int
        BY <1>1 DEF GInv, ListTyped, Seen, SInv, TeamTyped
      <4>. QED  BY <1>7, <2>3, <3>2, <4>1, <4>2 DEF GInv, ViewNotAhead
    <3>. QED  BY <3>1, <3>2
  <2>4. EmptyTeam' = EmptyTeam
    BY DEF EmptyTeam, EmptyCounts
  <2>. QED  BY <1>7, <2>1, <2>2, <2>3, <2>4 DEF ViewNotAhead
<1>10. BlocksSeen'
  <2>1. ASSUME NEW shown \in Shown \cup {None}, Fits(shown)
        PROVE  shown # None /\ ~shown.blind =>
                 shown.blockRule = IF shown.block = None THEN Always ELSE blk'[shown.block].rule
    BY <1>1, <2>1, RulesKept DEF Fits, Shown
  <2>2. \A c \in Challenges : page'[c] # None => page'[c] = page[c]
    BY <1>5
  <2>3. /\ \A c \in Challenges : page[c] \in Shown \cup {None} /\ Fits(page[c])
        /\ \A r \in Requests : promise[r] \in Shown \cup {None} /\ Fits(promise[r])
    BY DEF GInv, ListTyped, BlocksSeen
  <2>4. \A b \in DOMAIN view'.blocks : view'.blocks[b].rule = blk'[b].rule
    <3>1. DOMAIN view.blocks \subseteq Blocks
      BY DEF GInv, ListTyped, ListBlks
    <3>. QED  BY <1>1, <1>7, <3>1, RulesKept DEF GInv, BlocksSeen
  <2>5. \A c \in Challenges : Fits(page[c])'
    BY <2>1, <2>2, <2>3 DEF Fits
  <2>6. \A r \in Requests : Fits(promise[r])'
    BY <1>6, <2>1, <2>3 DEF Fits
  <2>. QED  BY <2>4, <2>5, <2>6 DEF BlocksSeen
<1>11. PageHolds'
  <2>. SUFFICES ASSUME NEW c \in Challenges, page'[c] # None,
                       NEW rule \in {page[c].rule, page[c].blockRule}, Lasting(rule)
                PROVE  Eval(rule, TeamState')
    BY <1>5 DEF PageHolds, Holds
  <2>1. page[c] # None /\ ~Loses
    BY <1>5
  <2>2. page[c] \in Shown
    BY <2>1 DEF GInv, ListTyped
  <2>3. rule \in Rules /\ Eval(rule, TeamState)
    BY <2>1, <2>2 DEF GInv, PageHolds, Holds, Shown
  <2>. QED  BY <1>2, <1>3, <2>1, <2>3, LastingHolds
<1>12. PromiseHeld'
  <2>. SUFFICES ASSUME NEW r \in Requests, pc'[r] # "idle"
                PROVE  Holds(promise'[r], started'[r])
    BY DEF PromiseHeld, Holds
  <2>1. CASE pc[r] # "idle"
    BY <1>4, <2>1 DEF GInv, PromiseHeld
  <2>2. CASE pc[r] = "idle"
    <3>1. PICK c \in Challenges : promise'[r] = page[c]
      BY <1>4, <2>2
    <3>2. PICK start : start = started'[r]
      OBVIOUS
    <3>3. Known(start) /\ Before(TeamState, start)
      BY <1>2, <1>4, <2>2, <3>2 DEF Known, Before, TeamState
    <3>4. ASSUME page[c] # None, NEW rule \in {page[c].rule, page[c].blockRule}, Lasting(rule)
          PROVE  Eval(rule, start)
      <4>1. page[c] \in Shown
        BY <3>4 DEF GInv, ListTyped
      <4>2. rule \in Rules /\ Eval(rule, TeamState)
        BY <3>4, <4>1 DEF GInv, PageHolds, Holds, Shown
      <4>. QED  BY <1>2, <3>3, <3>4, <4>2, LastingHolds
    <3>. QED  BY <3>1, <3>2, <3>4 DEF Holds
  <2>. QED  BY <2>1, <2>2
<1>. QED  BY <1>1, <1>8, <1>9, <1>10, <1>11, <1>12 DEF GInv

LEMMA GalleryStepOK == ASSUME GInv, [GalleryNext]_galleryVars PROVE GInv'
<1>1. CASE GalleryNext
  BY <1>1, ListingOK, FindMyTeamOK, SeeOK, SeeFailsOK, ShowPageOK, SubmissionOK
     DEF GalleryNext, ListStep
<1>2. CASE UNCHANGED galleryVars
  <2>1. UNCHANGED <<vars, page, promise, view>>
    BY <1>2 DEF galleryVars
  <2>2. ListTyped' /\ ViewNotAhead'
    BY <2>1 DEF GInv, ListTyped, ViewNotAhead, EmptyTeam, EmptyCounts, vars, team
  <2>. QED  BY <2>1, <2>2, ReadOK DEF GInv, BlocksSeen
<1>. QED  BY <1>1, <1>2

\* Page and submission each read the team in three statements of their own, and
\* still agree: when a page shows a challenge as open, a submission that begins
\* with that page is refused as locked only if the page was made without blocks,
\* since ListBlocks failed, or the challenge has been edited since, or one of its
\* rules is not of the lasting kind, or the team has lost points or a solve
\* (handleListChallenges, handleSubmit).
THEOREM GalleryCorrect == GallerySpec => []OpenIsAccepted
<1>1. GInv => OpenIsAccepted
  <2>. SUFFICES ASSUME GInv, NEW r \in Requests, pc[r] = "locked", promise[r] # None,
                       ~promise[r].blind, ~Edited(r), ~lost[r],
                       LastingRules(r) = {got[r].rule, blockRule[r]}
                PROVE  FALSE
    BY DEF OpenIsAccepted
  <2>1. PICK rule \in LastingRules(r) : ~Eval(rule, started[r])
    BY DEF GInv, SInv, RequestOK, Refused
  <2>2. Lasting(rule) /\ rule \in {got[r].rule, blockRule[r]}
    BY DEF LastingRules
  <2>3. Holds(promise[r], started[r]) /\ Fits(promise[r])
    BY DEF GInv, PromiseHeld, BlocksSeen
  <2>4. got[r].rule = promise[r].rule /\ got[r].block = promise[r].block
    BY DEF Edited
  <2>5. CASE rule = got[r].rule
    BY <2>1, <2>2, <2>3, <2>4, <2>5 DEF Holds
  <2>6. CASE rule = blockRule[r]
    <3>1. CASE rule = Always
      <4>1. Always \in Rules /\ Always.kind = "empty"
        BY RulesAssumption DEF Always
      <4>2. Eval(Always, started[r])
        BY <4>1, EvalOf DEF EvalNode
      <4>. QED  BY <2>1, <3>1, <4>2
    <3>2. CASE rule # Always
      <4>1. got[r].block \in Blocks /\ rule = blk[got[r].block].rule
        BY <2>6, <3>2 DEF GInv, SInv, RequestOK, BlockRead
      <4>2. got[r].block # None
        BY <4>1, RowsAssumption
      <4>3. rule = promise[r].blockRule
        BY <2>3, <2>4, <4>1, <4>2 DEF Fits
      <4>. QED  BY <2>1, <2>2, <2>3, <4>3 DEF Holds
    <3>. QED  BY <3>1, <3>2
  <2>. QED  BY <2>2, <2>5, <2>6
<1>. QED  BY <1>1, GalleryStarts, GalleryStepOK, PTL DEF GallerySpec

=============================================================================

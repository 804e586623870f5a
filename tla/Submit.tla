------------------------------- MODULE Submit --------------------------------
(***************************************************************************)
(* handleSubmit of internal/httpserver/submit.go for the members of one    *)
(* team: every check in the order of the code, each with the statement it  *)
(* reads from, interleaved with the team's other submissions, with plugin  *)
(* awards and their revocation, and with the organizers, who may delete a  *)
(* challenge and the team's solve with it.  TeamGateState is three         *)
(* statements, not a snapshot.  RecordSolve, PluginAward and               *)
(* DeletePluginAward are one step each (module Scoring takes them apart).  *)
(*                                                                         *)
(* The rate limiter (module RateLimit) may refuse any submission, and a    *)
(* wrong flag only adds a row that nothing here reads: both are GiveUp.    *)
(***************************************************************************)
EXTENDS Unlock, Schedule

CONSTANTS
  Challenges,
  Blocks,
  Requests,      \* concurrently running submissions of the team
  Schedules,     \* values of the schedule columns, None and JSONNull among them
  FirstRows,     \* event_challenges at first: functions of Challenges
  FirstBlocks,   \* blocks at first: functions of Blocks
  Edits,         \* what organizers may set: [ec, field, value]
  BlockSchedules, \* schedules they may give a block
  Assignments,   \* what they may set for the team: TRUE, FALSE
  EventTicks,    \* ticks between the event's start and its end
  MaxTime,       \* bound on the clock
  Awards,        \* points of the plugins' awards, by reference
  SolvePoints,
  StoreErrors,   \* may GetBlock or TeamGateState fail?
  JSONNull,      \* what a request with "schedule": null stores
  None           \* no block; SQL NULL for a schedule

\* A row of event_challenges and one of blocks, as far as the gates read them.
States   == {"draft", "published", "hidden"}
Row      == [state : States \cup {"deleted"}, block : Blocks \cup {None},
             rule : Rules, sched : Schedules]
BlockRow == [rule : Rules, sched : Schedules]

ASSUME RowsAssumption ==
  /\ IsFiniteSet(Challenges)
  /\ FirstRows \subseteq [Challenges -> Row]
  /\ FirstBlocks \subseteq [Blocks -> BlockRow]
  /\ None \notin Challenges \cup Blocks \cup Row

ASSUME EditsAssumption ==
  /\ \A e \in Edits : /\ e.ec \in Challenges
                     /\ \/ e.field = "state" /\ e.value \in States
                        \/ e.field = "block" /\ e.value \in Blocks \cup {None}
                        \/ e.field = "rule"  /\ e.value \in Rules
                        \/ e.field = "sched" /\ e.value \in Schedules
  /\ BlockSchedules \subseteq Schedules

ASSUME PointsAssumption ==
  /\ Awards \in [DOMAIN Awards -> Int]
  /\ SolvePoints \in Nat
  /\ MaxTime \in Nat

VARIABLES
  now,
  row,           \* per challenge: [state, block, rule, sched]
  blk,           \* per block: [rule, sched]
  assigned,      \* the team is assigned to the event
  solved,        \* challenges the team has a correct submission for
  awards,        \* references of the awards in the stream
  points,        \* the team's scoreboard_entries.points
  pc,
  ec,            \* the challenge a request is for
  got,           \* the row the handler has read
  blockRule,     \* blockUnlock
  gate,          \* TeamGateState, as far as it is read and still needed
  skipped,       \* history: an error made the handler skip a gate
  started,       \* history: the team and the clock when the request came
  lost           \* history: since then the team has lost points or a solve

board   == <<row, blk, assigned>>
team    == <<solved, awards, points>>
handler == <<pc, ec, got, blockRule, gate, skipped, started, lost>>
vars    == <<now, board, team, handler>>

\* A count per block.
InBlock(b, ecs)      == {c \in ecs : row[c].block = b}
BlockSolvedCounts    == [b \in Blocks |-> Cardinality(InBlock(b, solved))]
BlockTotalCounts     ==
  [b \in Blocks |-> Cardinality({c \in InBlock(b, Challenges) : row[c].state = "published"})]

TeamState ==
  [solved |-> solved, points |-> points, blockSolved |-> BlockSolvedCounts,
   blockTotal |-> BlockTotalCounts, now |-> now]

\* OpenAt of a column's value: SQL NULL and JSON null are always open.
Open(sched, t) == sched \notin {None, JSONNull} => OpenAt(sched, t)

\* The challenge's schedule, or its block's when it has none (length zero).
EffectiveSchedule(c, b) == IF c.sched = None THEN b.sched ELSE c.sched

------------------------------------------------------------------------------
Init ==
  /\ now = 0
  /\ row \in FirstRows
  /\ blk \in FirstBlocks
  /\ assigned = TRUE
  /\ solved = {}
  /\ awards = {}
  /\ points = 0
  /\ pc = [r \in Requests |-> "idle"]
  /\ ec = [r \in Requests |-> None]
  /\ got = [r \in Requests |-> None]
  /\ blockRule = [r \in Requests |-> Always]
  /\ gate = [r \in Requests |-> None]
  /\ skipped = [r \in Requests |-> FALSE]
  /\ started = [r \in Requests |-> None]
  /\ lost = [r \in Requests |-> FALSE]

\* The handler has answered.
Done(r) ==
  /\ pc' = [pc EXCEPT ![r] = "idle"]
  /\ ec' = [ec EXCEPT ![r] = None]
  /\ got' = [got EXCEPT ![r] = None]
  /\ blockRule' = [blockRule EXCEPT ![r] = Always]
  /\ gate' = [gate EXCEPT ![r] = None]
  /\ skipped' = [skipped EXCEPT ![r] = FALSE]
  /\ started' = [started EXCEPT ![r] = None]
  /\ lost' = [lost EXCEPT ![r] = FALSE]

Goto(r, from, to) ==
  /\ pc[r] = from
  /\ pc' = [pc EXCEPT ![r] = to]

\* The event is read, and the clock: it has started and has not ended.
BeginSubmit(r, c) ==
  /\ now \in EventTicks
  /\ Goto(r, "idle", "team")
  /\ ec' = [ec EXCEPT ![r] = c]
  /\ started' = [started EXCEPT ![r] = [solved |-> solved, points |-> points, now |-> now]]
  /\ UNCHANGED <<now, board, team, got, blockRule, gate, skipped, lost>>

\* PlayerTeamForEvent; then the rate limiter.
FindTeam(r) ==
  /\ assigned
  /\ Goto(r, "team", "challenge")
  /\ UNCHANGED <<now, board, team, ec, got, blockRule, gate, skipped, started, lost>>

\* Mutant: the state is not looked at.
ReadChallenge_AnyState(r) ==
  /\ Goto(r, "challenge", "block")
  /\ got' = [got EXCEPT ![r] = row[ec[r]]]
  /\ UNCHANGED <<now, board, team, ec, blockRule, gate, skipped, started, lost>>

\* GetChallenge: only a published challenge is found.
ReadChallenge(r) ==
  /\ Goto(r, "challenge", "block")
  /\ row[ec[r]].state = "published"
  /\ got' = [got EXCEPT ![r] = row[ec[r]]]
  /\ UNCHANGED <<now, board, team, ec, blockRule, gate, skipped, started, lost>>

\* GetBlock, and the schedule it completes.  Its failure leaves the challenge
\* with its own schedule and no block rule.
ReadBlock(r) ==
  LET c == got[r] IN
  /\ Goto(r, "block", "solved")
  /\ \/ /\ c.block # None
        /\ Open(EffectiveSchedule(c, blk[c.block]), now)
        /\ blockRule' = [blockRule EXCEPT ![r] = blk[c.block].rule]
        /\ UNCHANGED skipped
     \/ /\ c.block = None \/ StoreErrors
        /\ Open(c.sched, now)
        /\ skipped' = [skipped EXCEPT ![r] = c.block # None]
        /\ UNCHANGED blockRule
  /\ UNCHANGED <<now, board, team, ec, got, gate, started, lost>>

\* Mutant: solves of challenges hidden since then do not count.
ReadSolved_PublishedOnly(r) ==
  /\ Goto(r, "solved", "points")
  /\ gate' = [gate EXCEPT ![r] =
                [solved |-> {c \in solved : row[c].state = "published"},
                 blockSolved |-> BlockSolvedCounts, points |-> 0]]
  /\ UNCHANGED <<now, board, team, ec, got, blockRule, skipped, started, lost>>

\* TeamGateState, first statement: correct submissions and their blocks.
ReadSolved(r) ==
  /\ Goto(r, "solved", "points")
  /\ gate' = [gate EXCEPT ![r] =
                [solved |-> solved, blockSolved |-> BlockSolvedCounts, points |-> 0]]
  /\ UNCHANGED <<now, board, team, ec, got, blockRule, skipped, started, lost>>

\* Second statement: the team's points, zero if it has no row yet.
ReadPoints(r) ==
  /\ Goto(r, "points", "totals")
  /\ gate' = [gate EXCEPT ![r].points = points]
  /\ UNCHANGED <<now, board, team, ec, got, blockRule, skipped, started, lost>>

\* What the handler knows once the third statement has answered.
FullGate(r) ==
  [solved |-> gate[r].solved, points |-> gate[r].points,
   blockSolved |-> gate[r].blockSolved, blockTotal |-> BlockTotalCounts, now |-> now]

Passes(r) == Eval(got[r].rule, FullGate(r)) /\ Eval(blockRule[r], FullGate(r))

\* Mutant: the block's rule is not evaluated.
ReadTotals_ChallengeRuleOnly(r) ==
  /\ pc[r] = "totals"
  /\ Goto(r, "totals", IF Eval(got[r].rule, FullGate(r)) THEN "record" ELSE "locked")
  /\ gate' = [gate EXCEPT ![r] = None]
  /\ UNCHANGED <<now, board, team, ec, got, blockRule, skipped, started, lost>>

\* Third statement: published challenges per block.  Then both rules decide.
ReadTotals(r) ==
  /\ pc[r] = "totals"
  /\ Goto(r, "totals", IF Passes(r) THEN "record" ELSE "locked")
  /\ gate' = [gate EXCEPT ![r] = None]
  /\ UNCHANGED <<now, board, team, ec, got, blockRule, skipped, started, lost>>

\* A statement of TeamGateState fails: the rules are not evaluated at all.
SkipGate(r) ==
  /\ StoreErrors
  /\ pc[r] \in {"solved", "points", "totals"}
  /\ pc' = [pc EXCEPT ![r] = "record"]
  /\ skipped' = [skipped EXCEPT ![r] = TRUE]
  /\ gate' = [gate EXCEPT ![r] = None]
  /\ UNCHANGED <<now, board, team, ec, got, blockRule, started, lost>>

\* The flag is right: RecordSolve.  A second solve changes nothing, and one of a
\* challenge that is gone fails.
RecordSolve(r) ==
  /\ pc[r] = "record"
  /\ row[ec[r]].state # "deleted"
  /\ solved' = solved \cup {ec[r]}
  /\ points' = IF ec[r] \in solved THEN points ELSE points + SolvePoints
  /\ Done(r)
  /\ UNCHANGED <<now, board, awards>>

\* Any other answer: refused, rate limited, a wrong flag, an error, "locked".
GiveUp(r) ==
  /\ pc[r] # "idle"
  /\ Done(r)
  /\ UNCHANGED <<now, board, team>>

------------------------------------------------------------------------------
\* Does the team lose points or a solve in this step?
Loses == points' < points \/ ~(solved \subseteq solved')

RememberLoss ==
  /\ lost' = [r \in Requests |-> lost[r] \/ (pc[r] # "idle" /\ Loses)]
  /\ UNCHANGED <<pc, ec, got, blockRule, gate, skipped, started>>

\* PluginAward.  A reference is paid once; the points may be negative.
Award(ref) ==
  /\ ref \notin awards
  /\ awards' = awards \cup {ref}
  /\ points' = points + Awards[ref]
  /\ UNCHANGED <<now, board, solved>>
  /\ RememberLoss

\* DeletePluginAward.
Revoke(ref) ==
  /\ ref \in awards
  /\ awards' = awards \ {ref}
  /\ points' = points - Awards[ref]
  /\ UNCHANGED <<now, board, solved>>
  /\ RememberLoss

\* BulkApply's "delete": submissions go with their challenge, points stay.
DeleteChallenge(c) ==
  /\ row' = [row EXCEPT ![c].state = "deleted"]
  /\ solved' = solved \ {c}
  /\ UNCHANGED <<now, blk, assigned, awards, points>>
  /\ RememberLoss

\* SetChallengeState, SetChallengeUnlock, SetChallengeSchedule, and
\* BulkApply's "assign_block".
SetChallenge(e) ==
  /\ row[e.ec].state # "deleted"
  /\ row' = CASE e.field = "state" -> [row EXCEPT ![e.ec].state = e.value]
              [] e.field = "block" -> [row EXCEPT ![e.ec].block = e.value]
              [] e.field = "rule"  -> [row EXCEPT ![e.ec].rule = e.value]
              [] e.field = "sched" -> [row EXCEPT ![e.ec].sched = e.value]
  /\ UNCHANGED <<now, blk, assigned, team, handler>>

\* SetBlockSchedule.
SetBlockSchedule(b, sched) ==
  /\ blk' = [blk EXCEPT ![b].sched = sched]
  /\ UNCHANGED <<now, row, assigned, team, handler>>

\* AssignEventTeam, UnassignEventTeam.
SetAssigned(a) ==
  /\ assigned' = a
  /\ UNCHANGED <<now, row, blk, team, handler>>

Tick ==
  /\ now < MaxTime
  /\ now' = now + 1
  /\ UNCHANGED <<board, team, handler>>

Next ==
  \/ \E r \in Requests :
       \/ \E c \in Challenges : BeginSubmit(r, c)
       \/ FindTeam(r)
       \/ ReadChallenge(r)
       \/ ReadBlock(r)
       \/ ReadSolved(r)
       \/ ReadPoints(r)
       \/ ReadTotals(r)
       \/ SkipGate(r)
       \/ RecordSolve(r)
       \/ GiveUp(r)
  \/ \E ref \in DOMAIN Awards : Award(ref) \/ Revoke(ref)
  \/ \E c \in Challenges : DeleteChallenge(c)
  \/ \E e \in Edits : SetChallenge(e)
  \/ \E b \in Blocks, sched \in BlockSchedules : SetBlockSchedule(b, sched)
  \/ \E a \in Assignments : SetAssigned(a)
  \/ Tick

Spec == Init /\ [][Next]_vars

------------------------------------------------------------------------------
\* Handlers have read what they need at each point; from the challenge's read
\* on it is a published one.
TypeOK ==
  /\ now \in 0..MaxTime
  /\ solved \subseteq Challenges
  /\ awards \subseteq DOMAIN Awards
  /\ \A c \in Challenges : row[c].state \in States \cup {"deleted"}
  /\ pc \in [Requests -> {"idle", "team", "challenge", "block", "solved", "points",
                          "totals", "record", "locked"}]
  /\ \A r \in Requests :
       /\ pc[r] = "idle" <=> ec[r] = None
       /\ pc[r] \in {"idle", "team", "challenge"} <=> got[r] = None
       /\ got[r] # None => got[r].state = "published"

\* A rule that more solves, more points and time can only make true.  (Hiding and
\* publishing challenges moves block_completed both ways.)
Lasting(rule) ==
  LET lasting[r \in Rules] ==
        /\ r.kind \notin {"not", "block"}
        /\ r.kind \in {"all", "any"} => \A q \in r.of : lasting[q]
  IN  lasting[rule]

\* The rules a handler has read, or should have.
LastingRules(r) == {rule \in {got[r].rule, blockRule[r]} : Lasting(rule)}

\* Though TeamGateState is no snapshot and time passes after it, the rules of a
\* challenge whose solve is about to be recorded hold at that moment, if they
\* are of the lasting kind, the team has lost nothing since the request came, and
\* no read failed: a read that fails opens the gate (handleSubmit).
AdmittedIsUnlocked ==
  \A r \in Requests :
    pc[r] = "record" /\ ~skipped[r] /\ ~lost[r] =>
      \A rule \in LastingRules(r) : Eval(rule, TeamState)

\* The other way round: "challenge is locked" is never answered to a team whose
\* rules were lasting and all fulfilled when its request came in, if it has lost
\* nothing since then (handleSubmit).
LockedWasLocked ==
  \A r \in Requests :
    pc[r] = "locked" =>
      \/ lost[r]
      \/ \E rule \in LastingRules(r) : ~Eval(rule, started[r])
      \/ LastingRules(r) # {got[r].rule, blockRule[r]}

=============================================================================

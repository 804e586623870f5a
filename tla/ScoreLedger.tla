----------------------------- MODULE ScoreLedger -----------------------------
(***************************************************************************)
(* What the scoring store promises, with no transactions in sight: the     *)
(* score stream (score_events) is a set of rows with unique ref ids, the   *)
(* standing (scoreboard_entries) is its running total per team, and both   *)
(* change in the same atomic step.  Only a plugin award is ever taken back.*)
(***************************************************************************)
EXTENDS Integers

CONSTANTS
  Teams,
  Challenges,
  PluginRefs,     \* the ref_ids plugins use for their awards
  Amounts         \* the points a row can carry

VARIABLES
  score_events,   \* the stream: a set of rows [ref, team, points]
  entries         \* the standing: [Teams -> [points, solves]]

ledgerVars == <<score_events, entries>>

(***************************************************************************)
(* (source, ref_id) of a row: "solve:<ec>:<team>" and "firstblood:<ec>" of *)
(* source "core", and the plugin's own ref_id of source "plugin:<id>".     *)
(***************************************************************************)
SolveRef(ec, team) == [kind |-> "solve", ec |-> ec, team |-> team]
BloodRef(ec)       == [kind |-> "firstblood", ec |-> ec]
AwardRef(ref)      == [kind |-> "plugin", ref |-> ref]

ScoreRow(ref, team, points) == [ref |-> ref, team |-> team, points |-> points]

Fresh(ref) == \A e \in score_events : e.ref # ref

Credit(team, points, solves) ==
  entries' = [entries EXCEPT ![team] = [points |-> @.points + points,
                                        solves |-> @.solves + solves]]

Init ==
  /\ score_events = {}
  /\ entries = [t \in Teams |-> [points |-> 0, solves |-> 0]]

\* A team's solve enters the stream once and counts once.
PostSolve(ec, team, points) ==
  /\ Fresh(SolveRef(ec, team))
  /\ score_events' = score_events \cup {ScoreRow(SolveRef(ec, team), team, points)}
  /\ Credit(team, points, 1)

\* The first solve of a challenge also posts the bonus row, in the same step.
PostFirstBlood(ec, team, points, bonus) ==
  /\ Fresh(SolveRef(ec, team))
  /\ Fresh(BloodRef(ec))
  /\ score_events' = score_events \cup {ScoreRow(SolveRef(ec, team), team, points),
                                        ScoreRow(BloodRef(ec), team, bonus)}
  /\ Credit(team, points + bonus, 1)

\* A plugin award with a new ref_id.
PostAward(ref, team, points) ==
  /\ Fresh(AwardRef(ref))
  /\ score_events' = score_events \cup {ScoreRow(AwardRef(ref), team, points)}
  /\ Credit(team, points, 0)

\* A plugin takes its own award back.
Revoke(ref) ==
  \E e \in score_events :
    /\ e.ref = AwardRef(ref)
    /\ score_events' = score_events \ {e}
    /\ Credit(e.team, -e.points, 0)

Next ==
  \/ \E ec \in Challenges, t \in Teams, n \in Amounts : PostSolve(ec, t, n)
  \/ \E ec \in Challenges, t \in Teams, n, b \in Amounts : PostFirstBlood(ec, t, n, b)
  \/ \E ref \in PluginRefs, t \in Teams, n \in Amounts : PostAward(ref, t, n)
  \/ \E ref \in PluginRefs : Revoke(ref)

Spec == Init /\ [][Next]_ledgerVars

=============================================================================

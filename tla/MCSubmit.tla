------------------------------ MODULE MCSubmit -------------------------------
(***************************************************************************)
(* A small instance of Submit and Gallery for TLC: c1 is free, c2 is in    *)
(* block k and gated by rules of its own and of the block.  In "two" two   *)
(* submissions run at once; in "list" the list is looked at beside one     *)
(* submission at a time, amid edits; in "move" c1 is put into the block,   *)
(* and the team may be unassigned; in "loss" the award is revoked and      *)
(* challenges are deleted.                                                 *)
(***************************************************************************)
EXTENDS Gallery, TLC

CONSTANTS c1, c2, k

VARIABLE mode

Published(block, rule, sched) ==
  [state |-> "published", block |-> block, rule |-> rule, sched |-> sched]

Rows(rules, scheds) ==
  {c1 :> Published(None, AnyOf({}), None) @@ c2 :> Published(k, rule, sched) :
     rule \in rules, sched \in scheds}

BlockRows(rules) == {k :> [rule |-> rule, sched |-> {Once(0, 2)}] : rule \in rules}

GateRules == {AnyOf({TeamPointsGte(2), AllOf({Solved(c1), After(1)})})}

RECURSIVE WithParts(_)
WithParts(rules) == rules \cup UNION {WithParts(Parts(rule)) : rule \in rules}

AllRules == WithParts(GateRules \cup {Always, AnyOf({}), SolvedCountGte(1), Not(Solved(c1))})

GateRows    == Rows(GateRules, {None})
GateBlocks  == BlockRows({SolvedCountGte(1)})
GateEdits   == {[ec |-> c1, field |-> "state", value |-> "hidden"],
                [ec |-> c2, field |-> "rule", value |-> Not(Solved(c1))],
                [ec |-> c1, field |-> "block", value |-> k]}

MCInit == GalleryInit /\ mode \in {"two", "list", "move", "loss"}

\* One submission, whose reads do not fail.
Alone ==
  /\ \A r, s \in Requests : pc[r] = "idle" \/ pc[s] = "idle" \/ r = s
  /\ \A r \in Requests : ~skipped[r]

Revoked == awards \ awards' # {}

Moved == \E c \in Challenges : row'[c].block # row[c].block

Rewritten == \E c \in Challenges : row'[c].rule # row[c].rule

Deleted == \E c \in Challenges : row[c].state # "deleted" /\ row'[c].state = "deleted"

\* What may change in each mode.
Beside ==
  CASE mode = "two"  -> /\ UNCHANGED <<blk, assigned>>
                        /\ ~Moved /\ ~Rewritten /\ ~Revoked /\ ~Deleted
    [] mode = "list" -> /\ Alone'
                        /\ UNCHANGED assigned
                        /\ ~Moved /\ ~Revoked /\ ~Deleted
    [] mode = "move" -> /\ Alone'
                        /\ UNCHANGED <<now, blk>>
                        /\ ~Revoked
                        /\ row' = row \/ Moved
    [] mode = "loss" -> /\ Alone'
                        /\ UNCHANGED <<now, blk, assigned>>
                        /\ row' = row \/ Deleted

\* A second page is asked for only when the first shows nothing open.
MCNext ==
  /\ \/ mode # "two" /\ ListStep /\ \A c \in Challenges : page[c] = None
     \/ SubmitStep /\ Beside
  /\ UNCHANGED mode

MCSpec == MCInit /\ [][MCNext]_<<galleryVars, mode>>

\* From the event's last tick on; the second window never opens.
LateSchedule == {{Recurring({-2, 1}, Unparsed), Unreadable}}

OneAward == "a" :> 2

AllSchedules == LateSchedule \cup {{Once(0, 2)}, None, JSONNull}

RequestSymmetry == Permutations(Requests)

=============================================================================

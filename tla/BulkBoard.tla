------------------------------ MODULE BulkBoard ------------------------------
(***************************************************************************)
(* What bulk administration promises ("runs as a single transaction, so it *)
(* never half-applies; reports exactly how many objects it touched"): the  *)
(* challenges of an event and the log of bulk jobs change together, all    *)
(* rows of an action in one step, and so does its undo.                    *)
(***************************************************************************)
EXTENDS Integers, Sequences

CONSTANTS
  Challenges,
  Actions,     \* bulk actions
  Edits,       \* actions of the single-challenge handlers
  Gone         \* in place of the row of a deleted challenge

VARIABLES
  row,         \* event_challenges
  jobs         \* bulk_jobs, oldest first

boardVars == <<row, jobs>>

\* What an action makes of a row.
Applied(act, r) ==
  CASE act.type = "set_state"    -> [r EXCEPT !.state = act.value]
    [] act.type = "assign_block" -> [r EXCEPT !.block = act.value]
    [] act.type = "add_tags"     -> [r EXCEPT !.tags = @ \cup act.value]
    [] act.type = "remove_tags"  -> [r EXCEPT !.tags = @ \ act.value]
    [] act.type = "set_schedule" -> [r EXCEPT !.schedule = act.value]
    [] act.type = "delete"       -> Gone

\* What a snapshot keeps of a row, and what the undo writes back.
Saved(r) == [state |-> r.state, block |-> r.block, tags |-> r.tags]

Restored(r, s) == [r EXCEPT !.state = s.state, !.block = s.block, !.tags = s.tags]

Existing(ids) == {c \in ids : row[c] # Gone}

Job(act, affected, undo) ==
  [act |-> act, affected |-> affected, undo |-> undo, undone |-> FALSE]

------------------------------------------------------------------------------
\* All rows and the job, at once.  What the job's snapshot holds is open.
Bulk(ids, act) ==
  /\ row' = [c \in Challenges |->
               IF c \in Existing(ids) THEN Applied(act, row[c]) ELSE row[c]]
  /\ Len(jobs') = Len(jobs) + 1
  /\ jobs' = Append(jobs, Job(act, Existing(ids), jobs'[Len(jobs) + 1].undo))

\* The rows of the job's snapshot that still exist, at once.
Undo(j) ==
  LET undo == jobs[j].undo IN
  /\ row' = [c \in Challenges |->
               IF c \in Existing(DOMAIN undo) THEN Restored(row[c], undo[c]) ELSE row[c]]
  /\ jobs' = [jobs EXCEPT ![j].undone = TRUE]

Edit(c, act) ==
  /\ c \in Existing(Challenges)
  /\ row' = [row EXCEPT ![c] = Applied(act, @)]
  /\ UNCHANGED jobs

Next ==
  \/ \E ids \in SUBSET Challenges, act \in Actions : Bulk(ids, act)
  \/ \E j \in DOMAIN jobs : Undo(j)
  \/ \E c \in Challenges, act \in Edits : Edit(c, act)

=============================================================================

-------------------------------- MODULE MCBulk -------------------------------
(***************************************************************************)
(* A small instance of Bulk for TLC, which is one of two: actions that     *)
(* race for two challenges, rows in either order, or reversible actions on *)
(* one challenge amid single edits.                                        *)
(***************************************************************************)
EXTENDS Bulk, TLC

VARIABLE amidEdits    \* which of the two

MCTags     == {"t", "u"}
MCFirstRow == [state |-> "draft", block |-> "none", tags |-> {"t"}, schedule |-> "none"]

\* All challenges are there, or just one.
MCFirstRows == {f \in [Challenges -> {MCFirstRow, Gone}] :
                  \/ \A c \in Challenges : f[c] # Gone
                  \/ \E c \in Challenges : {d \in Challenges : f[d] # Gone} = {c}}

Drafts == [mode |-> "filter", state |-> "draft", exclude |-> {}]
Every  == [mode |-> "ids", ids |-> Challenges, exclude |-> {}]
MCSelectors == {Drafts} \cup {[Every EXCEPT !.exclude = out] : out \in SUBSET Challenges}

Publish     == [type |-> "set_state", value |-> "published"]
Hide        == [type |-> "set_state", value |-> "hidden"]
AssignBlock == [type |-> "assign_block", value |-> "b"]
AddTags     == [type |-> "add_tags", value |-> {"u"}]
RemoveTags  == [type |-> "remove_tags", value |-> {"t"}]
SetSchedule == [type |-> "set_schedule", value |-> "s"]
Delete      == [type |-> "delete"]

RaceActions == {Publish, AddTags, RemoveTags, Delete}
UndoActions == {Publish, AssignBlock, RemoveTags, SetSchedule}
MCActions   == RaceActions \cup UndoActions
MCEdits     == {Hide}

MCInit == Init /\ amidEdits = \E c \in Challenges : row[c] = Gone

MCNext ==
  /\ IF amidEdits
       THEN Administer({Every}, UndoActions, MCEdits)
       ELSE Administer(MCSelectors, RaceActions, {})
  /\ UNCHANGED amidEdits

MCSpec == MCInit /\ [][MCNext]_<<vars, amidEdits>>

BulkSymmetry == Permutations(Admins) \cup Permutations(Challenges)

=============================================================================

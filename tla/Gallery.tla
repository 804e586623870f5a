------------------------------- MODULE Gallery -------------------------------
(***************************************************************************)
(* handleListChallenges of internal/httpserver/challenges.go beside the    *)
(* submissions of module Submit: one member of the team looks at the       *)
(* challenges while the others play.  The page judges schedules and rules  *)
(* with code of its own, from statements of its own; where a submission    *)
(* that cannot read the team's state skips the rules, the page takes the   *)
(* state to be empty.                                                      *)
(*                                                                         *)
(* Organizers see every challenge as open; that list reads nothing more    *)
(* and is left out, as are the counts of solves on the page.               *)
(***************************************************************************)
EXTENDS Submit

VARIABLES
  view,      \* what the list's handler has read; history, ahead: it may be
             \* more than the team has now
  page,      \* history: what each challenge was judged by, if the page on the
             \* screen has it as "open" and the team has lost nothing since
  promise    \* history: page of the challenge a submission is for, when it came

galleryVars == <<vars, view, page, promise>>

EmptyCounts == [b \in Blocks |-> 0]

\* Not on a team, or the state could not be read.
EmptyTeam ==
  [solved |-> {}, points |-> 0, blockSolved |-> EmptyCounts, blockTotal |-> EmptyCounts]

Idle == [at |-> "idle", rows |-> <<>>, blocks |-> <<>>, now |-> 0, state |-> EmptyTeam,
         ahead |-> FALSE]

GalleryInit ==
  /\ Init
  /\ view = Idle
  /\ page = [c \in Challenges |-> None]
  /\ promise = [r \in Requests |-> None]

Read(from, to) ==
  /\ view.at = from
  /\ view' = to
  /\ UNCHANGED <<vars, page, promise>>

------------------------------------------------------------------------------
\* ListChallenges, published ones only.
ListChallenges ==
  Read("idle", [view EXCEPT !.at = "blocks",
    !.rows = [c \in {d \in Challenges : row[d].state = "published"} |-> row[c]]])

\* ListBlocks.  Its error is dropped, and the map of blocks is empty then.
ListBlocks ==
  \/ Read("blocks", [view EXCEPT !.at = "team", !.blocks = blk])
  \/ StoreErrors /\ Read("blocks", [view EXCEPT !.at = "team"])

\* The clock; then PlayerTeamForEvent, and what to do without a team.
FindMyTeam ==
  \/ /\ assigned
     /\ Read("team", [view EXCEPT !.at = "solved", !.now = now])
  \/ /\ ~assigned \/ StoreErrors
     /\ Read("team", [view EXCEPT !.at = "show", !.now = now, !.ahead = @ \/ points < 0])

\* The three statements of TeamGateState.
SeeSolved ==
  Read("solved", [view EXCEPT !.at = "points", !.state.solved = solved,
                              !.state.blockSolved = BlockSolvedCounts])
SeePoints == Read("points", [view EXCEPT !.at = "totals", !.state.points = points])
SeeTotals == Read("totals", [view EXCEPT !.at = "show", !.state.blockTotal = BlockTotalCounts])

\* One of them fails: nothing of the state is used.
SeeFails ==
  /\ StoreErrors
  /\ view.at \in {"solved", "points", "totals"}
  /\ Read(view.at, [view EXCEPT !.at = "show", !.state = EmptyTeam,
                                !.ahead = @ \/ points < 0])

\* The block of a challenge, if the map has it.
BlockOf(c) ==
  IF c.block \in DOMAIN view.blocks
    THEN view.blocks[c.block]
    ELSE [rule |-> Always, sched |-> None]

RulesOf(c) == {c.rule, BlockOf(c).rule}

\* Blind: the challenge is in a block, and the page does not know of it.
Judged(c) ==
  [rule |-> c.rule, block |-> c.block, blockRule |-> BlockOf(c).rule,
   blind |-> c.block # None /\ c.block \notin DOMAIN view.blocks]

OpenThen(c) == Open(EffectiveSchedule(c, BlockOf(c)), view.now)

ViewedTeam ==
  [solved |-> view.state.solved, points |-> view.state.points, now |-> view.now,
   blockSolved |-> view.state.blockSolved, blockTotal |-> view.state.blockTotal]

\* Mutant: the block's rule is not evaluated.
ShownOpen_OwnRule(c) == OpenThen(c) /\ Eval(c.rule, ViewedTeam)

\* Neither hidden or "scheduled" nor "locked".
ShownOpen(c) == OpenThen(c) /\ \A rule \in RulesOf(c) : Eval(rule, ViewedTeam)

\* The answer.
ShowPage ==
  /\ view.at = "show"
  /\ page' = [c \in Challenges |->
       IF c \in DOMAIN view.rows /\ ShownOpen(view.rows[c]) /\ ~view.ahead
         THEN Judged(view.rows[c])
         ELSE None]
  /\ view' = Idle
  /\ UNCHANGED <<vars, promise>>

ListStep ==
  \/ ListChallenges \/ ListBlocks \/ FindMyTeam
  \/ SeeSolved \/ SeePoints \/ SeeTotals \/ SeeFails \/ ShowPage

\* Module Submit, with the page that is on the screen when a submission begins.
\* When the team loses something, what was shown before promises no more.
SubmitStep ==
  /\ Next
  /\ promise' = [r \in Requests |->
       IF pc'[r] = "idle"     THEN None
       ELSE IF pc[r] = "idle" THEN page[ec'[r]]
       ELSE promise[r]]
  /\ IF Loses
       THEN /\ page' = [c \in Challenges |-> None]
            /\ view' = [view EXCEPT !.ahead = view.at # "idle"]
       ELSE UNCHANGED <<view, page>>

GalleryNext == ListStep \/ SubmitStep

GallerySpec == GalleryInit /\ [][GalleryNext]_galleryVars

------------------------------------------------------------------------------
\* Did the organizers change the challenge after the page was made, before the
\* submission read it?  A block keeps its rule.
Edited(r) == promise[r].rule # got[r].rule \/ promise[r].block # got[r].block

\* Page and submission agree, though each has its own reads of the team's state
\* and its own evaluation.  When a page shows a challenge as open, a submission
\* that begins with that page is answered "challenge is locked" for one of four
\* reasons only: the page was made without blocks, since ListBlocks failed; the
\* challenge has been edited; one of its rules is not of the lasting kind; the
\* team has lost points or a solve (handleListChallenges, handleSubmit).
OpenIsAccepted ==
  \A r \in Requests :
    pc[r] = "locked" /\ promise[r] # None =>
      \/ promise[r].blind
      \/ Edited(r)
      \/ LastingRules(r) # {got[r].rule, blockRule[r]}
      \/ lost[r]

=============================================================================

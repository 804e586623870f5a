------------------------------- MODULE Scoring -------------------------------
(***************************************************************************)
(* The scoring store of one event: RecordSolve, PluginAward and            *)
(* DeletePluginAward as the SQL statements they issue, one action per      *)
(* statement, interleaved as PostgreSQL's READ COMMITTED allows.           *)
(*                                                                         *)
(* A transaction's writes are private until its commit.  While it is open  *)
(* it holds the unique keys it wrote (submissions.solves_unique,           *)
(* score_events (event, source, ref_id), the scoreboard_entries row): an   *)
(* INSERT or UPDATE of a key somebody else holds waits for that            *)
(* transaction to end, then looks at the committed rows again.  Any        *)
(* statement may fail (an error, the client gone and its context           *)
(* cancelled, the process killed), which rolls the transaction back.  A    *)
(* client that got no answer may always send its request again: requests   *)
(* are taken from the same sets for ever.                                  *)
(***************************************************************************)
EXTENDS Integers, FiniteSets, FiniteSetsExt

CONSTANTS
  Teams,
  Challenges,       \* event challenges (ec_id)
  PluginRefs,       \* ref_ids of plugin awards
  Requests,         \* concurrently running HTTP handlers
  SolvePoints,      \* what scoring.Points may return for a challenge
  AwardPoints,      \* points of a plugin award, negative ones included
  FirstBloodBonus,  \* events.first_blood_bonus
  NoTeam,
  NoReq,
  NoUpd

ASSUME PointsAssumption ==
  /\ SolvePoints \subseteq Nat
  /\ AwardPoints \subseteq Int
  /\ FirstBloodBonus \in Nat

VARIABLES
  live,          \* event_challenges rows that exist
  submissions,   \* committed correct submissions [ec, team]
  score_events,  \* committed score_events rows [ref, team, points]
  entries,       \* committed scoreboard_entries, a missing row read as zeros
  firstSolver,   \* history: the first team to commit a solve, per challenge
  pc,            \* statement each handler is about to issue
  req,           \* the call a handler is serving
  first,         \* SolveResult.FirstBlood
  ins,           \* score_events rows the open transaction has inserted
  del,           \* score_events rows the open transaction has deleted
  upd,           \* change the open transaction has made to scoreboard_entries
  held           \* unique keys the open transaction holds

tables == <<live, submissions, score_events, entries, firstSolver>>
txvars == <<pc, req, first, ins, del, upd, held>>
vars   == <<live, submissions, score_events, entries, firstSolver,
            pc, req, first, ins, del, upd, held>>

Ledger == INSTANCE ScoreLedger
            WITH Amounts <- SolvePoints \cup AwardPoints \cup {FirstBloodBonus}

SolveRef(ec, team) == Ledger!SolveRef(ec, team)
BloodRef(ec)       == Ledger!BloodRef(ec)
AwardRef(ref)      == Ledger!AwardRef(ref)
ScoreRow(ref, team, points) == Ledger!ScoreRow(ref, team, points)

RefIds == [kind : {"solve"}, ec : Challenges, team : Teams]
            \cup [kind : {"firstblood"}, ec : Challenges]
            \cup [kind : {"plugin"}, ref : PluginRefs]

Submission(ec, team) == [ec |-> ec, team |-> team]

\* Keys of solves_unique and of scoreboard_entries; a score_events key is its ref.
SubmissionKey(ec, team) == [kind |-> "submission", ec |-> ec, team |-> team]
EntryKey(team)          == [kind |-> "entry", team |-> team]

SolveReq  == [op : {"solve"}, ec : Challenges, team : Teams, points : SolvePoints]
AwardReq  == [op : {"award"}, ref : PluginRefs, team : Teams, points : AwardPoints]
RevokeReq == [op : {"revoke"}, ref : PluginRefs]

ASSUME NoValueAssumption ==
  /\ NoTeam \notin Teams
  /\ NoReq \notin SolveReq \cup AwardReq \cup RevokeReq

\* What FirstBlood makes of the solve's total, whatever the award insert did.
BonusOf(r) == IF first[r] /\ FirstBloodBonus > 0 THEN FirstBloodBonus ELSE 0

Free(r, key)    == \A q \in Requests \ {r} : key \notin held[q]
Committed(ref)  == \E e \in score_events : e.ref = ref
SolvesOf(ec)    == {s \in submissions : s.ec = ec}

------------------------------------------------------------------------------
Init ==
  /\ live = Challenges
  /\ submissions = {}
  /\ score_events = {}
  /\ entries = [t \in Teams |-> [points |-> 0, solves |-> 0]]
  /\ firstSolver = [ec \in Challenges |-> NoTeam]
  /\ pc = [r \in Requests |-> "idle"]
  /\ req = [r \in Requests |-> NoReq]
  /\ first = [r \in Requests |-> FALSE]
  /\ ins = [r \in Requests |-> {}]
  /\ del = [r \in Requests |-> {}]
  /\ upd = [r \in Requests |-> NoUpd]
  /\ held = [r \in Requests |-> {}]

Goto(r, from, to) ==
  /\ pc[r] = from
  /\ pc' = [pc EXCEPT ![r] = to]

\* The transaction is over: nothing private is left, no key is held.
EndTx(r) ==
  /\ pc' = [pc EXCEPT ![r] = "idle"]
  /\ req' = [req EXCEPT ![r] = NoReq]
  /\ first' = [first EXCEPT ![r] = FALSE]
  /\ ins' = [ins EXCEPT ![r] = {}]
  /\ del' = [del EXCEPT ![r] = {}]
  /\ upd' = [upd EXCEPT ![r] = NoUpd]
  /\ held' = [held EXCEPT ![r] = {}]

\* INSERT INTO score_events ... ON CONFLICT DO NOTHING: waits while another
\* transaction holds the ref, then inserts unless a committed row has it.
InsertScoreEvent(r, row) ==
  /\ Free(r, row.ref)
  /\ IF Committed(row.ref)
       THEN UNCHANGED <<ins, held>>
       ELSE /\ ins' = [ins EXCEPT ![r] = @ \cup {row}]
            /\ held' = [held EXCEPT ![r] = @ \cup {row.ref}]

\* The upsert (or update) of the team's scoreboard_entries row.
MoveEntry(r, team, points, solves) ==
  /\ Free(r, EntryKey(team))
  /\ upd' = [upd EXCEPT ![r] = [team |-> team, points |-> points, solves |-> solves]]
  /\ held' = [held EXCEPT ![r] = @ \cup {EntryKey(team)}]

------------------------------------------------------------------------------
\* handleSubmit found the flag correct and calls RecordSolve.  The challenge
\* existed when the handler read it.
BeginSolve(r, c) ==
  /\ c.ec \in live
  /\ Goto(r, "idle", "submission")
  /\ req' = [req EXCEPT ![r] = c]
  /\ UNCHANGED <<tables, first, ins, del, upd, held>>

\* Mutant: the index solves_unique is missing.
InsertSubmission_NoIndex(r) ==
  LET c == req[r] IN
  /\ Goto(r, "submission", "count")
  /\ held' = [held EXCEPT ![r] = @ \cup {SubmissionKey(c.ec, c.team)}]
  /\ UNCHANGED <<tables, req, first, ins, del, upd>>

\* INSERT INTO submissions.  A committed solve of the same pair is the unique
\* violation that RecordSolve turns into AlreadySolved; a challenge deleted in
\* the meantime is a foreign key violation.
InsertSubmission(r) ==
  LET c == req[r] IN
  /\ pc[r] = "submission"
  /\ Free(r, SubmissionKey(c.ec, c.team))
  /\ IF Submission(c.ec, c.team) \in submissions \/ c.ec \notin live
       THEN EndTx(r)
       ELSE /\ Goto(r, "submission", "count")
            /\ held' = [held EXCEPT ![r] = @ \cup {SubmissionKey(c.ec, c.team)}]
            /\ UNCHANGED <<req, first, ins, del, upd>>
  /\ UNCHANGED tables

\* Mutant: the count is taken before the insert, the test n == 1 stays.
CountSolves_BeforeInsert(r) ==
  /\ Goto(r, "count", "event")
  /\ first' = [first EXCEPT ![r] = Cardinality(SolvesOf(req[r].ec)) = 1]
  /\ UNCHANGED <<tables, req, ins, del, upd, held>>

\* SELECT count(*): the committed solves and this transaction's own.
CountSolves(r) ==
  /\ Goto(r, "count", "event")
  /\ first' = [first EXCEPT ![r] = Cardinality(SolvesOf(req[r].ec)) + 1 = 1]
  /\ UNCHANGED <<tables, req, ins, del, upd, held>>

InsertSolveEvent(r) ==
  LET c == req[r] IN
  /\ Goto(r, "event", IF first[r] /\ FirstBloodBonus > 0 THEN "blood" ELSE "entry")
  /\ InsertScoreEvent(r, ScoreRow(SolveRef(c.ec, c.team), c.team, c.points))
  /\ UNCHANGED <<tables, req, first, del, upd>>

InsertFirstBlood(r) ==
  LET c == req[r] IN
  /\ Goto(r, "blood", "entry")
  /\ InsertScoreEvent(r, ScoreRow(BloodRef(c.ec), c.team, FirstBloodBonus))
  /\ UNCHANGED <<tables, req, first, del, upd>>

UpsertSolveEntry(r) ==
  LET c == req[r] IN
  /\ Goto(r, "entry", "commit")
  /\ c.op = "solve"
  /\ MoveEntry(r, c.team, c.points + BonusOf(r), 1)
  /\ UNCHANGED <<tables, req, first, ins, del>>

------------------------------------------------------------------------------
\* handlePluginAward calls PluginAward.
BeginAward(r, c) ==
  /\ Goto(r, "idle", "award")
  /\ req' = [req EXCEPT ![r] = c]
  /\ UNCHANGED <<tables, first, ins, del, upd, held>>

\* Mutant: RowsAffected is not looked at.
InsertAward_Unchecked(r) ==
  LET c == req[r] IN
  /\ Goto(r, "award", "entry")
  /\ InsertScoreEvent(r, ScoreRow(AwardRef(c.ref), c.team, c.points))
  /\ UNCHANGED <<tables, req, first, del, upd>>

\* The award's INSERT; no row affected ends the call with applied = false.
InsertAward(r) ==
  LET c == req[r] IN
  /\ pc[r] = "award"
  /\ Free(r, AwardRef(c.ref))
  /\ IF Committed(AwardRef(c.ref))
       THEN EndTx(r)
       ELSE /\ Goto(r, "award", "entry")
            /\ InsertScoreEvent(r, ScoreRow(AwardRef(c.ref), c.team, c.points))
            /\ UNCHANGED <<req, first, del, upd>>
  /\ UNCHANGED tables

UpsertAwardEntry(r) ==
  LET c == req[r] IN
  /\ Goto(r, "entry", "commit")
  /\ c.op = "award"
  /\ MoveEntry(r, c.team, c.points, 0)
  /\ UNCHANGED <<tables, req, first, ins, del>>

\* handleDeletePluginAward calls DeletePluginAward.
BeginRevoke(r, c) ==
  /\ Goto(r, "idle", "delete")
  /\ req' = [req EXCEPT ![r] = c]
  /\ UNCHANGED <<tables, first, ins, del, upd, held>>

\* Mutant: the row is read with a SELECT, so two calls can both find it.
DeleteAward_Unlocked(r) ==
  /\ Goto(r, "delete", "entry")
  /\ LET rows == {e \in score_events : e.ref = AwardRef(req[r].ref)} IN
       rows # {} /\ del' = [del EXCEPT ![r] = rows]
  /\ UNCHANGED <<tables, req, first, ins, upd, held>>

\* DELETE ... RETURNING.  It waits for another deleter of the row, but does not
\* see a row whose insert is not committed: then it removes nothing and ends.
DeleteAward(r) ==
  /\ pc[r] = "delete"
  /\ LET rows == {e \in score_events : e.ref = AwardRef(req[r].ref)} IN
     IF rows = {}
       THEN EndTx(r)
       ELSE /\ Free(r, AwardRef(req[r].ref))
            /\ Goto(r, "delete", "entry")
            /\ del' = [del EXCEPT ![r] = rows]
            /\ held' = [held EXCEPT ![r] = @ \cup {AwardRef(req[r].ref)}]
            /\ UNCHANGED <<req, first, ins, upd>>
  /\ UNCHANGED tables

\* Mutant: revoking an award also takes a solve away.
DebitEntry_Solves(r) ==
  /\ Goto(r, "entry", "commit")
  /\ req[r].op = "revoke"
  /\ \E e \in del[r] : MoveEntry(r, e.team, -e.points, -1)
  /\ UNCHANGED <<tables, req, first, ins, del>>

DebitEntry(r) ==
  /\ Goto(r, "entry", "commit")
  /\ req[r].op = "revoke"
  /\ \E e \in del[r] : MoveEntry(r, e.team, -e.points, 0)
  /\ UNCHANGED <<tables, req, first, ins, del>>

------------------------------------------------------------------------------
\* tx.Commit: every private write becomes visible at once.  A handler that
\* dies right after it looks the same here: its client asks again.
Commit(r) ==
  /\ pc[r] = "commit"
  /\ score_events' = (score_events \ del[r]) \cup ins[r]
  /\ entries' = [entries EXCEPT ![upd[r].team] =
                   [points |-> @.points + upd[r].points,
                    solves |-> @.solves + upd[r].solves]]
  /\ IF req[r].op = "solve"
       THEN /\ submissions' = submissions \cup {Submission(req[r].ec, req[r].team)}
            /\ firstSolver' = [firstSolver EXCEPT ![req[r].ec] =
                                 IF @ = NoTeam THEN req[r].team ELSE @]
       ELSE UNCHANGED <<submissions, firstSolver>>
  /\ EndTx(r)
  /\ UNCHANGED live

\* Mutant: the submission is inserted outside the transaction.
Fail_KeepsSubmission(r) ==
  /\ pc[r] # "idle"
  /\ EndTx(r)
  /\ submissions' = IF pc[r] \in {"count", "event", "blood"}
                      THEN submissions \cup {Submission(req[r].ec, req[r].team)}
                      ELSE submissions
  /\ UNCHANGED <<live, score_events, entries, firstSolver>>

\* Mutant: no deferred Rollback, the connection keeps its transaction open.
Fail_NoRollback(r) ==
  /\ pc[r] # "idle"
  /\ pc' = [pc EXCEPT ![r] = "idle"]
  /\ UNCHANGED <<tables, req, first, ins, del, upd, held>>

\* A statement fails or the handler dies before the commit: Rollback.
Fail(r) ==
  /\ pc[r] # "idle"
  /\ EndTx(r)
  /\ UNCHANGED tables

\* Mutant: the cascade reaches the score stream.
DeleteChallenge_CascadeEvents(ec) ==
  /\ ec \in live
  /\ live' = live \ {ec}
  /\ submissions' = submissions \ SolvesOf(ec)
  /\ score_events' = {e \in score_events : e.ref.kind = "plugin" \/ e.ref.ec # ec}
  /\ UNCHANGED <<entries, firstSolver, txvars>>

\* BulkApply "delete": the event_challenges row and, by cascade, its
\* submissions go; score_events and scoreboard_entries stay.  The open
\* transactions that inserted a submission hold a key-share lock on the row.
DeleteChallenge(ec) ==
  /\ ec \in live
  /\ \A r \in Requests, t \in Teams : SubmissionKey(ec, t) \notin held[r]
  /\ live' = live \ {ec}
  /\ submissions' = submissions \ SolvesOf(ec)
  /\ UNCHANGED <<score_events, entries, firstSolver, txvars>>

------------------------------------------------------------------------------
Begin(r) ==
  \/ \E c \in SolveReq : BeginSolve(r, c)
  \/ \E c \in AwardReq : BeginAward(r, c)
  \/ \E c \in RevokeReq : BeginRevoke(r, c)

Step(r) ==
  \/ InsertSubmission(r)
  \/ CountSolves(r)
  \/ InsertSolveEvent(r)
  \/ InsertFirstBlood(r)
  \/ UpsertSolveEntry(r)
  \/ InsertAward(r)
  \/ UpsertAwardEntry(r)
  \/ DeleteAward(r)
  \/ DebitEntry(r)
  \/ Commit(r)

Next ==
  \/ \E r \in Requests : Begin(r) \/ Step(r) \/ Fail(r)
  \/ \E ec \in Challenges : DeleteChallenge(ec)

Spec == Init /\ [][Next]_vars

\* PostgreSQL wakes the transactions waiting for a key when its holder ends,
\* and a handler runs on once it is woken: a statement that can be executed
\* again and again is executed.
FairSpec == Spec /\ \A r \in Requests : SF_vars(Step(r))

------------------------------------------------------------------------------
PCs == {"idle", "submission", "count", "event", "blood", "award", "delete",
        "entry", "commit"}

Row == [ref : RefIds, team : Teams, points : Int]

Keys == RefIds \cup [kind : {"submission"}, ec : Challenges, team : Teams]
               \cup [kind : {"entry"}, team : Teams]

\* Every table and every transaction buffer holds rows of its schema.
TypeOK ==
  /\ live \subseteq Challenges
  /\ submissions \subseteq [ec : Challenges, team : Teams]
  /\ score_events \subseteq Row
  /\ entries \in [Teams -> [points : Int, solves : Nat]]
  /\ firstSolver \in [Challenges -> Teams \cup {NoTeam}]
  /\ pc \in [Requests -> PCs]
  /\ req \in [Requests -> SolveReq \cup AwardReq \cup RevokeReq \cup {NoReq}]
  /\ first \in [Requests -> BOOLEAN]
  /\ ins \in [Requests -> SUBSET Row]
  /\ del \in [Requests -> SUBSET Row]
  /\ upd \in [Requests -> [team : Teams, points : Int, solves : {0, 1}] \cup {NoUpd}]
  /\ held \in [Requests -> SUBSET Keys]

\* A retried or concurrent write never counts twice: no two rows of the stream
\* share a ref_id, and a team's solves column is the number of its solve rows
\* (RecordSolve, unique index solves_unique and ON CONFLICT DO NOTHING).
SolvesMatchLedger ==
  /\ \A e, f \in score_events : e.ref = f.ref => e = f
  /\ \A t \in Teams :
       entries[t].solves =
         Cardinality({e \in score_events : e.ref.kind = "solve" /\ e.team = t})

\* scoreboard_entries is "updated from score events": a team's points are the
\* sum of its rows in the stream.
BoardMatchesLedger ==
  \A t \in Teams :
    entries[t].points = MapThenSumSet(LAMBDA e : e.points,
                                      {e \in score_events : e.team = t})

\* A solve and its row in the stream are one unit: every committed submission
\* has its solve row, and a solve row of a challenge that still exists has its
\* submission (RecordSolve is one transaction; BulkApply's delete cascades).
SubmissionsMatchLedger ==
  \A ec \in Challenges, t \in Teams :
    /\ Submission(ec, t) \in submissions => Committed(SolveRef(ec, t))
    /\ ec \in live /\ Committed(SolveRef(ec, t)) => Submission(ec, t) \in submissions

\* With a bonus configured, a challenge that was ever solved has its first-blood
\* row, and it belongs to the team whose solve was committed first, whatever the
\* interleaving of the counts (RecordSolve's count and award insert).
FirstBloodToFirstSolver ==
  \A ec \in Challenges :
    /\ \A e \in score_events : e.ref = BloodRef(ec) => e.team = firstSolver[ec]
    /\ FirstBloodBonus > 0 /\ firstSolver[ec] # NoTeam => Committed(BloodRef(ec))

\* Only DeletePluginAward takes rows out of the stream, and then only the plugin
\* award it was asked to: a solve or a first blood is never lost.
CoreRowsAreForever ==
  [][\A e \in score_events \ score_events' : e.ref.kind = "plugin"]_score_events

\* No call waits for ever on keys that other transactions hold: every
\* transaction ends and lets its keys go (RecordSolve's deferred Rollback).
EveryCallEnds == \A r \in Requests : pc[r] # "idle" ~> pc[r] = "idle"

\* The transactions implement the atomic ledger.
LedgerSpec == Ledger!Spec

=============================================================================

-------------------------------- MODULE Bulk ---------------------------------
(***************************************************************************)
(* BulkApply and BulkUndo of internal/store/library.go as the statements   *)
(* they issue.  An UPDATE (or DELETE) takes the rows one by one: it waits  *)
(* for a row another transaction has changed, and changes what that        *)
(* transaction leaves.  Row locks are held to the end of the transaction;  *)
(* the snapshot and the read of the job take none.                         *)
(*                                                                         *)
(* A deadlock of two transactions is resolved by PostgreSQL, which fails   *)
(* one of them: Fail.                                                      *)
(***************************************************************************)
EXTENDS Integers, Sequences

CONSTANTS
  Challenges,
  Admins,       \* concurrently running handlers
  Actions,      \* bulk actions
  Edits,        \* actions of the single-challenge handlers
  Selectors,    \* what a bulk request selects: [mode, ids, state, exclude]
  FirstRows,    \* event_challenges at first: functions of Challenges
  States, BlockIds, Tags, Schedules,  \* values of a row's columns
  MaxJobs,      \* bound on the number of bulk jobs
  Gone,
  NoCall

\* A row of event_challenges, as far as bulk actions change it.
Row == [state : States, block : BlockIds, tags : SUBSET Tags, schedule : Schedules]

\* The actions that BulkApply knows; "publish", "hide" and "archive" set a state.
Action == [type : {"set_state"}, value : States]
            \cup [type : {"assign_block"}, value : BlockIds]
            \cup [type : {"add_tags", "remove_tags"}, value : SUBSET Tags]
            \cup [type : {"set_schedule"}, value : Schedules]
            \cup [type : {"delete"}]

ASSUME RowsAssumption ==
  /\ Gone \notin Row
  /\ FirstRows \subseteq [Challenges -> Row \cup {Gone}]

ASSUME RequestsAssumption ==
  /\ \A act \in Actions \cup Edits : act \in Action
  /\ \A sel \in Selectors : sel.mode = "ids" => sel.ids \subseteq Challenges
  /\ MaxJobs \in Nat

VARIABLES
  row,          \* event_challenges: the row of each challenge, or Gone
  jobs,         \* bulk_jobs [act, affected, undo, undone], oldest first
  pc,
  call,         \* what each handler does: [ids, act], [job] or NoCall
  snap,         \* the snapshot a handler has read
  todo,         \* rows its statements have still to reach
  wr,           \* rows it has changed and not committed; it holds their locks
  before,       \* history: per job, the rows it changed as they had been
  touched,      \* history: per job, rows somebody else changed since its snapshot
  dirty         \* history: the same for a bulk action that is not committed

tables  == <<row, jobs>>
history == <<before, touched>>
vars    == <<row, jobs, pc, call, snap, todo, wr, before, touched, dirty>>

Board == INSTANCE BulkBoard

Existing(ids)    == Board!Existing(ids)
Applied(act, r)  == Board!Applied(act, r)
Saved(r)         == Board!Saved(r)
Restored(r, s)   == Board!Restored(r, s)

NoRows == [c \in {} |-> Gone]

Free(a, c) == \A b \in Admins \ {a} : c \notin DOMAIN wr[b]

------------------------------------------------------------------------------
Init ==
  /\ row \in FirstRows
  /\ jobs = <<>>
  /\ pc = [a \in Admins |-> "idle"]
  /\ call = [a \in Admins |-> NoCall]
  /\ snap = [a \in Admins |-> NoRows]
  /\ todo = [a \in Admins |-> {}]
  /\ wr = [a \in Admins |-> NoRows]
  /\ before = <<>>
  /\ touched = <<>>
  /\ dirty = [a \in Admins |-> {}]

\* The transaction is over.
EndTx(a) ==
  /\ pc' = [pc EXCEPT ![a] = "idle"]
  /\ call' = [call EXCEPT ![a] = NoCall]
  /\ snap' = [snap EXCEPT ![a] = NoRows]
  /\ todo' = [todo EXCEPT ![a] = {}]
  /\ wr' = [wr EXCEPT ![a] = NoRows]

\* Mutant: no row lock.
ReachRow_NoWait(a, c, r) ==
  /\ c \in todo[a]
  /\ todo' = [todo EXCEPT ![a] = @ \ {c}]
  /\ IF row[c] = Gone
       THEN UNCHANGED wr
       ELSE wr' = [wr EXCEPT ![a] =
                     [d \in DOMAIN @ \cup {c} |-> IF d = c THEN r ELSE @[d]]]

\* a reaches the row of c and makes r of it; a row that is gone is passed over.
ReachRow(a, c, r) ==
  /\ c \in todo[a]
  /\ todo' = [todo EXCEPT ![a] = @ \ {c}]
  /\ IF row[c] = Gone
       THEN UNCHANGED wr
       ELSE /\ Free(a, c)
            /\ wr' = [wr EXCEPT ![a] =
                        [d \in DOMAIN @ \cup {c} |-> IF d = c THEN r ELSE @[d]]]

\* a's rows become visible.
CommitRows(a) ==
  row' = [c \in Challenges |-> IF c \in DOMAIN wr[a] THEN wr[a][c] ELSE row[c]]

\* The rows in ids have changed under every bulk action but a's own.
Touch(a, ids) ==
  dirty' = [b \in Admins |-> IF b = a \/ pc[b] # "update" THEN {} ELSE dirty[b] \cup ids]

------------------------------------------------------------------------------
\* ResolveSelector: the ids of the request as they are, or those that the filter
\* finds now, in a statement of its own.
Resolve(sel) ==
  (IF sel.mode = "ids"
     THEN sel.ids
     ELSE {c \in Existing(Challenges) : row[c].state = sel.state}) \ sel.exclude

\* handleBulk has resolved its selector.
BeginBulk(a, ids, act) ==
  /\ pc[a] = "idle"
  /\ Len(jobs) < MaxJobs
  /\ ids # {}
  /\ pc' = [pc EXCEPT ![a] = IF act.type = "delete" THEN "update" ELSE "snapshot"]
  /\ call' = [call EXCEPT ![a] = [ids |-> ids, act |-> act]]
  /\ todo' = [todo EXCEPT ![a] = ids]
  /\ UNCHANGED <<tables, snap, wr, history, dirty>>

\* snapshot: state, block and tags of the rows there are, committed ones.
TakeSnapshot(a) ==
  /\ pc[a] = "snapshot"
  /\ pc' = [pc EXCEPT ![a] = "update"]
  /\ snap' = [snap EXCEPT ![a] =
                [c \in Existing(call[a].ids) |-> Saved(row[c])]]
  /\ UNCHANGED <<tables, call, todo, wr, history, dirty>>

\* Mutant: each row is committed on its own.
UpdateRow_Autocommit(a, c) ==
  /\ pc[a] = "update"
  /\ c \in todo[a]
  /\ todo' = [todo EXCEPT ![a] = @ \ {c}]
  /\ row' = IF row[c] = Gone THEN row ELSE [row EXCEPT ![c] = Applied(call[a].act, @)]
  /\ UNCHANGED <<jobs, pc, call, snap, wr, history, dirty>>

\* The action's UPDATE or DELETE reaches a row.
UpdateRow(a, c) ==
  /\ pc[a] = "update"
  /\ ReachRow(a, c, Applied(call[a].act, row[c]))
  /\ UNCHANGED <<tables, pc, call, snap, history, dirty>>

\* The job and its audit entry are inserted and the transaction commits.
CommitBulk(a) ==
  /\ pc[a] = "update"
  /\ todo[a] = {}
  /\ Len(jobs) < MaxJobs
  /\ CommitRows(a)
  /\ jobs' = Append(jobs, Board!Job(call[a].act, DOMAIN wr[a], snap[a]))
  /\ before' = Append(before, [c \in DOMAIN wr[a] |-> row[c]])
  /\ touched' = Append([j \in DOMAIN touched |-> touched[j] \cup DOMAIN wr[a]], dirty[a])
  /\ Touch(a, DOMAIN wr[a])
  /\ EndTx(a)

------------------------------------------------------------------------------
\* BulkUndo reads the job, outside its transaction.  A job that is undone, or
\* has no snapshot (a delete), is refused.
ReadJob(a, j) ==
  /\ pc[a] = "idle"
  /\ ~jobs[j].undone
  /\ jobs[j].act.type # "delete"
  /\ pc' = [pc EXCEPT ![a] = "restore"]
  /\ call' = [call EXCEPT ![a] = [job |-> j]]
  /\ snap' = [snap EXCEPT ![a] = jobs[j].undo]
  /\ todo' = [todo EXCEPT ![a] = DOMAIN jobs[j].undo]
  /\ UNCHANGED <<tables, wr, history, dirty>>

\* Mutant: the tags are not written back.
RestoreRow_NoTags(a, c) ==
  /\ pc[a] = "restore"
  /\ ReachRow(a, c, [row[c] EXCEPT !.state = snap[a][c].state, !.block = snap[a][c].block])
  /\ UNCHANGED <<tables, pc, call, snap, history, dirty>>

\* One UPDATE for each row of the snapshot.
RestoreRow(a, c) ==
  /\ pc[a] = "restore"
  /\ ReachRow(a, c, Restored(row[c], snap[a][c]))
  /\ UNCHANGED <<tables, pc, call, snap, history, dirty>>

\* bulk_jobs.undone is set, whoever has set it meanwhile, and the transaction
\* commits.
CommitUndo(a) ==
  /\ pc[a] = "restore"
  /\ todo[a] = {}
  /\ CommitRows(a)
  /\ jobs' = [jobs EXCEPT ![call[a].job].undone = TRUE]
  /\ touched' = [j \in DOMAIN touched |->
                   IF j = call[a].job THEN touched[j] ELSE touched[j] \cup DOMAIN wr[a]]
  /\ Touch(a, DOMAIN wr[a])
  /\ EndTx(a)
  /\ UNCHANGED before

------------------------------------------------------------------------------
\* An error, a deadlock, or the client is gone: Rollback.
Fail(a) ==
  /\ pc[a] # "idle"
  /\ EndTx(a)
  /\ dirty' = [dirty EXCEPT ![a] = {}]
  /\ UNCHANGED <<tables, history>>

\* One of the handlers that change a single challenge (SetChallengeState,
\* SetChallengeSchedule, the importer's update).
Edit(c, act) ==
  /\ row[c] # Gone
  /\ \A a \in Admins : c \notin DOMAIN wr[a]
  /\ row' = [row EXCEPT ![c] = Applied(act, @)]
  /\ touched' = [j \in DOMAIN touched |-> touched[j] \cup {c}]
  /\ dirty' = [a \in Admins |-> IF pc[a] = "update" THEN dirty[a] \cup {c} ELSE {}]
  /\ UNCHANGED <<jobs, pc, call, snap, todo, wr, before>>

\* What admins do with the given selectors, bulk actions and single edits.
Administer(selectors, actions, edits) ==
  \/ \E a \in Admins :
       \/ \E sel \in selectors, act \in actions : BeginBulk(a, Resolve(sel), act)
       \/ TakeSnapshot(a)
       \/ \E c \in Challenges : UpdateRow(a, c) \/ RestoreRow(a, c)
       \/ CommitBulk(a)
       \/ \E j \in DOMAIN jobs : ReadJob(a, j)
       \/ CommitUndo(a)
       \/ Fail(a)
  \/ \E c \in Challenges, act \in edits : Edit(c, act)

Next == Administer(Selectors, Actions, Edits)

Spec == Init /\ [][Next]_vars

------------------------------------------------------------------------------
\* Tables, locks and handlers agree in type, and no row is locked twice.
TypeOK ==
  /\ row \in [Challenges -> Row \cup {Gone}]
  /\ Len(jobs) <= MaxJobs
  /\ pc \in [Admins -> {"idle", "snapshot", "update", "restore"}]
  /\ todo \in [Admins -> SUBSET Challenges]
  /\ \A a, b \in Admins : a # b => DOMAIN wr[a] \cap DOMAIN wr[b] = {}
  /\ Len(before) = Len(jobs) /\ Len(touched) = Len(jobs)

\* "runs as a single transaction, so it never half-applies" and "reports exactly
\* how many objects it touched" (docs/index.html): in every interleaving bulk
\* actions and undos take effect as if each were one step (BulkApply, BulkUndo).
BoardSpec == [][Board!Next]_(Board!boardVars)

\* What a bulk action changed can be reversed: an undone job has given each row
\* that nobody else has changed its state, block and tags back, and a row that
\* is gone stays gone (snapshot, BulkUndo).
UndoRestores ==
  \A j \in DOMAIN jobs :
    jobs[j].undone =>
      \A c \in DOMAIN before[j] \ touched[j] : Saved(row[c]) = Saved(before[j][c])

=============================================================================

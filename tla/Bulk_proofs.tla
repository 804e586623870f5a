---------------------------- MODULE Bulk_proofs ------------------------------
(***************************************************************************)
(* Proofs about Bulk for any number of challenges, admins and jobs: bulk   *)
(* actions and undos implement BulkBoard's single steps, and what is       *)
(* undone is back as it was.                                               *)
(***************************************************************************)
EXTENDS Bulk, SequenceTheorems, TLAPS

\* Rows by challenge, of some challenges.
Some(S) == UNION {[ids -> S] : ids \in SUBSET Challenges}

SavedRow == [state : States, block : BlockIds, tags : SUBSET Tags]

JobRow == [act : Actions, affected : SUBSET Challenges, undo : Some(SavedRow), undone : BOOLEAN]

BulkCall == [ids : SUBSET Challenges, act : Actions]
UndoCall == [job : Nat \ {0}]

TablesTyped ==
  /\ row \in [Challenges -> Row \cup {Gone}]
  /\ jobs \in Seq(JobRow)
  /\ before \in Seq(Some(Row))
  /\ touched \in Seq(SUBSET Challenges)
  /\ Len(before) = Len(jobs)
  /\ Len(touched) = Len(jobs)
  /\ Len(jobs) <= MaxJobs

HandlersTyped ==
  /\ pc \in [Admins -> {"idle", "snapshot", "update", "restore"}]
  /\ call \in [Admins -> BulkCall \cup UndoCall \cup {NoCall}]
  /\ snap \in [Admins -> Some(SavedRow)]
  /\ todo \in [Admins -> SUBSET Challenges]
  /\ wr \in [Admins -> Some(Row \cup {Gone})]
  /\ dirty \in [Admins -> SUBSET Challenges]

\* A row that a handler has changed is locked, and it is there.
Locked ==
  /\ \A a, b \in Admins : a # b => DOMAIN wr[a] \cap DOMAIN wr[b] = {}
  /\ \A a \in Admins : \A c \in DOMAIN wr[a] : row[c] # Gone

\* Of the rows that a handler has reached, it has changed those that are there.
Reached(a, ids) ==
  /\ todo[a] \subseteq ids
  /\ DOMAIN wr[a] \subseteq ids
  /\ \A c \in ids \ todo[a] : row[c] # Gone => c \in DOMAIN wr[a]

Quiet(a) == pc[a] \in {"idle", "snapshot"} => wr[a] = NoRows /\ DOMAIN wr[a] = {}

Selecting(a) ==
  pc[a] \in {"snapshot", "update"} => call[a] \in BulkCall /\ todo[a] \subseteq call[a].ids

Snapping(a) == pc[a] = "snapshot" => todo[a] = call[a].ids /\ call[a].act.type # "delete"

Updating(a) ==
  pc[a] = "update" =>
    /\ Reached(a, call[a].ids)
    /\ \A c \in DOMAIN wr[a] : wr[a][c] = Applied(call[a].act, row[c])

Restoring(a) ==
  pc[a] = "restore" =>
    /\ call[a] \in UndoCall
    /\ call[a].job \in DOMAIN jobs
    /\ jobs[call[a].job].act.type # "delete"
    /\ snap[a] = jobs[call[a].job].undo
    /\ Reached(a, DOMAIN snap[a])
    /\ \A c \in DOMAIN wr[a] : wr[a][c] = Restored(row[c], snap[a][c])

\* The snapshot of a bulk action still shows the rows nobody else has changed.
Fresh(a) ==
  /\ pc[a] # "update" => dirty[a] = {}
  /\ pc[a] = "update" /\ call[a].act.type # "delete" =>
       \A c \in call[a].ids \ dirty[a] :
         row[c] # Gone => c \in DOMAIN snap[a] /\ snap[a][c] = Saved(row[c])

HandlerOK(a) ==
  /\ Quiet(a) /\ Selecting(a) /\ Snapping(a) /\ Updating(a) /\ Restoring(a) /\ Fresh(a)

\* The rows of a job that nobody else has changed are there and in its snapshot, and
\* back when the job is undone.
JobOK(j) ==
  /\ jobs[j].undone => jobs[j].act.type # "delete"
  /\ jobs[j].act.type # "delete" =>
       \A c \in DOMAIN before[j] \ touched[j] :
         /\ row[c] # Gone
         /\ c \in DOMAIN jobs[j].undo
         /\ jobs[j].undo[c] = Saved(before[j][c])
         /\ jobs[j].undone => Saved(row[c]) = Saved(before[j][c])

BInv ==
  /\ TablesTyped /\ HandlersTyped /\ Locked
  /\ \A a \in Admins : HandlerOK(a)
  /\ \A j \in DOMAIN jobs : JobOK(j)

------------------------------------------------------------------------------
\* What the columns are after an action, a snapshot and an undo.
LEMMA AppliedTyped ==
  ASSUME NEW act \in Action, NEW r \in Row
  PROVE  /\ Applied(act, r) \in Row \cup {Gone}
         /\ act.type # "delete" => Applied(act, r) \in Row
BY DEF Applied, Board!Applied, Action, Row

LEMMA SavedTyped ==
  ASSUME NEW r \in Row
  PROVE  Saved(r) \in SavedRow
BY DEF Saved, Board!Saved, Row, SavedRow

LEMMA RestoredTyped ==
  ASSUME NEW r \in Row, NEW s \in SavedRow
  PROVE  Restored(r, s) \in Row /\ Saved(Restored(r, s)) = s
BY DEF Saved, Board!Saved, Restored, Board!Restored, Row, SavedRow

\* Functions of some challenges.
LEMMA SomeDomain ==
  ASSUME NEW S, NEW f \in Some(S)
  PROVE  DOMAIN f \subseteq Challenges /\ \A c \in DOMAIN f : f[c] \in S
BY DEF Some

LEMMA SomeFunction ==
  ASSUME NEW S, NEW ids \in SUBSET Challenges, NEW f \in [ids -> S]
  PROVE  f \in Some(S)
BY DEF Some

LEMMA NoRowsTyped ==
  ASSUME NEW S
  PROVE  NoRows \in Some(S) /\ DOMAIN NoRows = {}
<1>1. NoRows \in [{} -> S]
  BY DEF NoRows
<1>. QED  BY <1>1, SomeFunction

\* An admin's handler is as it was.
SameHandler(b) ==
  /\ pc'[b] = pc[b]
  /\ call'[b] = call[b]
  /\ snap'[b] = snap[b]
  /\ todo'[b] = todo[b]
  /\ wr'[b] = wr[b]

\* Only rows in W change, and none that is gone comes back.
RowsMove(W) ==
  \A c \in Challenges : /\ c \notin W => row'[c] = row[c]
                        /\ row[c] = Gone => row'[c] = Gone

\* Jobs are added and done, but what they did stays.
JobsStay ==
  \A j \in DOMAIN jobs : /\ j \in DOMAIN jobs'
                         /\ jobs'[j].act = jobs[j].act
                         /\ jobs'[j].undo = jobs[j].undo

\* A handler knows what it knew when others have changed rows it has not locked.
LEMMA OthersKept ==
  ASSUME BInv, NEW b \in Admins, SameHandler(b), JobsStay,
         NEW W \in SUBSET Challenges, RowsMove(W), W \cap DOMAIN wr[b] = {},
         dirty'[b] = IF pc[b] # "update" THEN {} ELSE dirty[b] \cup W
  PROVE  HandlerOK(b)'
<1>1. HandlerOK(b) /\ DOMAIN wr[b] \subseteq Challenges
  BY SomeDomain DEF BInv, HandlersTyped
<1>2. Quiet(b)' /\ Selecting(b)' /\ Snapping(b)'
  BY <1>1 DEF HandlerOK, Quiet, Selecting, Snapping, SameHandler
<1>3. \A ids \in SUBSET Challenges : Reached(b, ids) => Reached(b, ids)'
  BY DEF Reached, SameHandler, RowsMove
<1>4. \A c \in DOMAIN wr[b] : row'[c] = row[c]
  BY <1>1 DEF RowsMove
<1>5. Updating(b)'
  <2>1. SUFFICES ASSUME pc[b] = "update"
                 PROVE  /\ Reached(b, call[b].ids)'
                        /\ \A c \in DOMAIN wr[b] : wr[b][c] = Applied(call[b].act, row'[c])
    BY DEF Updating, SameHandler
  <2>2. call[b].ids \in SUBSET Challenges
    BY <1>1, <2>1 DEF HandlerOK, Selecting, BulkCall
  <2>3. /\ Reached(b, call[b].ids)
        /\ \A c \in DOMAIN wr[b] : wr[b][c] = Applied(call[b].act, row[c])
    BY <1>1, <2>1 DEF HandlerOK, Updating
  <2>4. Reached(b, call[b].ids)'
    BY <2>2, <2>3 DEF Reached, SameHandler, RowsMove
  <2>. QED  BY <1>4, <2>3, <2>4
<1>6. Restoring(b)'
  <2>1. SUFFICES ASSUME pc[b] = "restore"
                 PROVE  /\ call[b] \in UndoCall
                        /\ call[b].job \in DOMAIN jobs'
                        /\ jobs'[call[b].job].act.type # "delete"
                        /\ snap[b] = jobs'[call[b].job].undo
                        /\ Reached(b, DOMAIN snap[b])'
                        /\ \A c \in DOMAIN wr[b] : wr[b][c] = Restored(row'[c], snap[b][c])
    BY DEF Restoring, SameHandler
  <2>2. DOMAIN snap[b] \subseteq Challenges
    BY SomeDomain DEF BInv, HandlersTyped
  <2>3. /\ call[b] \in UndoCall
        /\ call[b].job \in DOMAIN jobs
        /\ jobs[call[b].job].act.type # "delete"
        /\ snap[b] = jobs[call[b].job].undo
        /\ Reached(b, DOMAIN snap[b])
        /\ \A c \in DOMAIN wr[b] : wr[b][c] = Restored(row[c], snap[b][c])
    BY <1>1, <2>1 DEF HandlerOK, Restoring
  <2>4. Reached(b, DOMAIN snap[b])'
    BY <2>2, <2>3 DEF Reached, SameHandler, RowsMove
  <2>. QED  BY <1>4, <2>3, <2>4 DEF JobsStay
<1>7. Fresh(b)'
  <2>1. pc'[b] # "update" => dirty'[b] = {}
    BY DEF SameHandler
  <2>2. ASSUME pc[b] = "update", call[b].act.type # "delete", NEW c \in call[b].ids \ dirty'[b],
               row'[c] # Gone
        PROVE  c \in DOMAIN snap[b] /\ snap[b][c] = Saved(row'[c])
    <3>1. c \in Challenges
      BY <1>1, <2>2 DEF HandlerOK, Selecting, BulkCall
    <3>2. c \notin dirty[b] /\ row'[c] = row[c]
      BY <2>2, <3>1 DEF RowsMove
    <3>. QED  BY <1>1, <2>2, <3>2 DEF HandlerOK, Fresh
  <2>. QED  BY <2>1, <2>2 DEF Fresh, SameHandler
<1>. QED  BY <1>2, <1>5, <1>6, <1>7 DEF HandlerOK

\* So is a job, if the rows that change are marked as touched.
LEMMA JobKept ==
  ASSUME BInv, NEW j \in DOMAIN jobs, NEW W \in SUBSET Challenges, RowsMove(W),
         jobs'[j] = jobs[j], before'[j] = before[j], touched'[j] = touched[j] \cup W
  PROVE  JobOK(j)'
<1>1. JobOK(j)
  BY DEF BInv
<1>2. DOMAIN before[j] \subseteq Challenges
  <2>1. before[j] \in Some(Row)
    BY DEF BInv, TablesTyped
  <2>. QED  BY <2>1, SomeDomain
<1>3. \A c \in DOMAIN before[j] \ touched'[j] : c \notin touched[j] /\ row'[c] = row[c]
  BY <1>2 DEF RowsMove
<1>. QED  BY <1>1, <1>3 DEF JobOK

\* A step of one handler that leaves the tables alone.
LEMMA LocalStep ==
  ASSUME BInv, NEW a \in Admins, UNCHANGED <<tables, history>>,
         HandlersTyped', HandlerOK(a)',
         \A b \in Admins \ {a} : /\ SameHandler(b)
                                 /\ dirty'[b] = dirty[b]
                                 /\ DOMAIN wr'[a] \cap DOMAIN wr[b] = {},
         \A c \in DOMAIN wr'[a] : row[c] # Gone
  PROVE  BInv'
<1>1. UNCHANGED <<row, jobs, before, touched>>
  BY DEF tables, history
<1>2. TablesTyped'
  BY <1>1 DEF BInv, TablesTyped
<1>3. RowsMove({}) /\ JobsStay
  BY <1>1 DEF RowsMove, JobsStay
<1>4. \A b \in Admins \ {a} : HandlerOK(b)'
  <2>1. ASSUME NEW b \in Admins \ {a} PROVE HandlerOK(b)'
    <3>1. dirty'[b] = IF pc[b] # "update" THEN {} ELSE dirty[b] \cup {}
      BY DEF BInv, HandlerOK, Fresh
    <3>. QED  BY <1>3, <3>1, OthersKept
  <2>. QED  BY <2>1
<1>5. \A j \in DOMAIN jobs : JobOK(j)'
  BY <1>1 DEF BInv, JobOK
<1>6. Locked'
  BY <1>1 DEF BInv, Locked, SameHandler
<1>. QED  BY <1>1, <1>2, <1>4, <1>5, <1>6 DEF BInv

\* The statement a runs has one row less to reach, and has changed it if it is there.
LEMMA RowReached ==
  ASSUME BInv, NEW a \in Admins, NEW c \in Challenges, NEW r, ReachRow(a, c, r),
         UNCHANGED row, NEW ids \in SUBSET Challenges, Reached(a, ids),
         row[c] # Gone => r \in Row \cup {Gone}
  PROVE  /\ todo' \in [Admins -> SUBSET Challenges]
         /\ wr' \in [Admins -> Some(Row \cup {Gone})]
         /\ Reached(a, ids)'
         /\ todo'[a] \subseteq todo[a]
         /\ \A d \in DOMAIN wr'[a] : /\ row[d] # Gone
                                     /\ \/ d = c /\ wr'[a][d] = r
                                        \/ d \in DOMAIN wr[a] /\ wr'[a][d] = wr[a][d]
         /\ \A b \in Admins \ {a} : /\ wr'[b] = wr[b]
                                    /\ todo'[b] = todo[b]
                                    /\ DOMAIN wr'[a] \cap DOMAIN wr[b] = {}
<1>1. HandlersTyped /\ Locked
  BY DEF BInv
<1>2. todo' = [todo EXCEPT ![a] = @ \ {c}] /\ c \in todo[a]
  BY DEF ReachRow
<1>3. /\ todo' \in [Admins -> SUBSET Challenges]
      /\ todo'[a] = todo[a] \ {c}
      /\ \A b \in Admins \ {a} : todo'[b] = todo[b]
  BY <1>1, <1>2 DEF HandlersTyped
<1>4. wr[a] \in Some(Row \cup {Gone}) /\ DOMAIN wr[a] \subseteq Challenges
  BY <1>1, SomeDomain DEF HandlersTyped
<1>5. CASE row[c] = Gone
  <2>1. wr' = wr
    BY <1>5 DEF ReachRow
  <2>2. Reached(a, ids)'
    BY <1>2, <1>3, <1>5, <2>1 DEF Reached
  <2>. QED  BY <1>1, <1>3, <2>1, <2>2 DEF HandlersTyped, Locked
<1>6. CASE row[c] # Gone
  <2> DEFINE w == [d \in DOMAIN wr[a] \cup {c} |-> IF d = c THEN r ELSE wr[a][d]]
  <2>1. wr' = [wr EXCEPT ![a] = w] /\ Free(a, c)
    BY <1>6 DEF ReachRow
  <2>2. w \in [DOMAIN wr[a] \cup {c} -> Row \cup {Gone}]
    BY <1>4, <1>6, SomeDomain
  <2>3. w \in Some(Row \cup {Gone})
    BY <1>4, <2>2, SomeFunction
  <2>4. wr'[a] = w /\ \A b \in Admins \ {a} : wr'[b] = wr[b]
    BY <1>1, <2>1 DEF HandlersTyped
  <2>5. DOMAIN wr'[a] = DOMAIN wr[a] \cup {c}
    BY <2>4
  <2>6. Reached(a, ids)'
    BY <1>2, <1>3, <2>5 DEF Reached
  <2>7. wr' \in [Admins -> Some(Row \cup {Gone})]
    BY <1>1, <2>1, <2>3 DEF HandlersTyped
  <2>8. \A d \in DOMAIN wr'[a] :
          /\ row[d] # Gone
          /\ \/ d = c /\ wr'[a][d] = r
             \/ d \in DOMAIN wr[a] /\ wr'[a][d] = wr[a][d]
    <3>1. wr'[a][c] = r
      BY <2>4
    <3>2. \A d \in DOMAIN wr[a] \ {c} : wr'[a][d] = wr[a][d] /\ row[d] # Gone
      BY <1>1, <2>4 DEF Locked
    <3>3. ASSUME NEW d \in DOMAIN wr'[a]
          PROVE  /\ row[d] # Gone
                 /\ \/ d = c /\ wr'[a][d] = r
                    \/ d \in DOMAIN wr[a] /\ wr'[a][d] = wr[a][d]
      <4>1. CASE d = c
        BY <1>6, <3>1, <4>1
      <4>2. CASE d # c
        BY <2>5, <3>2, <4>2
      <4>. QED  BY <4>1, <4>2
    <3>. QED  BY <3>3
  <2>9. \A b \in Admins \ {a} : DOMAIN wr'[a] \cap DOMAIN wr[b] = {}
    BY <1>1, <2>1, <2>5 DEF Free, Locked
  <2>. QED  BY <1>3, <2>4, <2>6, <2>7, <2>8, <2>9
<1>. QED  BY <1>5, <1>6

\* A handler whose transaction is over is idle again.
LEMMA HandlerEnds ==
  ASSUME BInv, NEW a \in Admins, EndTx(a),
         dirty' \in [Admins -> SUBSET Challenges], dirty'[a] = {}
  PROVE  /\ HandlersTyped'
         /\ HandlerOK(a)'
         /\ DOMAIN wr'[a] = {}
         /\ \A b \in Admins \ {a} : SameHandler(b)
<1>1. HandlersTyped
  BY DEF BInv
<1>2. HandlersTyped'
  BY <1>1, NoRowsTyped DEF HandlersTyped, EndTx
<1>3. /\ pc'[a] = "idle" /\ wr'[a] = NoRows
      /\ \A b \in Admins \ {a} : SameHandler(b)
  BY <1>1 DEF HandlersTyped, EndTx, SameHandler
<1>4. DOMAIN wr'[a] = {}
  BY <1>3, NoRowsTyped
<1>5. HandlerOK(a)'
  BY <1>3, <1>4 DEF HandlerOK, Quiet, Selecting, Snapping, Updating, Restoring, Fresh
<1>. QED  BY <1>2, <1>3, <1>4, <1>5

\* A function of a sequence's positions is a sequence.
LEMMA SamePositions ==
  ASSUME NEW S, NEW T, NEW s \in Seq(S), NEW f \in [DOMAIN s -> T]
  PROVE  f \in Seq(T) /\ Len(f) = Len(s) /\ DOMAIN f = DOMAIN s
<1>1. Len(s) \in Nat /\ DOMAIN s = 1 .. Len(s)
  BY LenProperties
<1>2. f \in [1 .. Len(s) -> T]
  BY <1>1
<1>3. f \in Seq(T)
  BY <1>1, <1>2, SeqDef
<1>. QED  BY <1>1, <1>2, <1>3, LenProperties

------------------------------------------------------------------------------
LEMMA InitBInv == Init => BInv
<1> SUFFICES ASSUME Init PROVE BInv
  OBVIOUS
<1>2. TablesTyped
  <2>1. row \in [Challenges -> Row \cup {Gone}]
    BY RowsAssumption DEF Init
  <2>. QED  BY <2>1, EmptySeq, RequestsAssumption DEF Init, TablesTyped
<1>3. HandlersTyped
  BY NoRowsTyped DEF Init, HandlersTyped
<1>4. Locked /\ \A a \in Admins : HandlerOK(a)
  BY NoRowsTyped
     DEF Init, Locked, HandlerOK, Quiet, Selecting, Snapping, Updating, Restoring, Fresh
<1>5. \A j \in DOMAIN jobs : JobOK(j)
  <2>1. DOMAIN jobs = {}
    BY DEF Init
  <2>. QED  BY <2>1
<1>. QED  BY <1>2, <1>3, <1>4, <1>5 DEF BInv

\* What a bulk request finds are challenges.
LEMMA ResolveTyped ==
  ASSUME NEW sel \in Selectors
  PROVE  Resolve(sel) \subseteq Challenges
BY RequestsAssumption DEF Resolve, Existing, Board!Existing

LEMMA BeginBulkBInv ==
  ASSUME BInv, NEW a \in Admins, NEW ids \in SUBSET Challenges, NEW act \in Actions,
         BeginBulk(a, ids, act)
  PROVE  BInv'
<1>1. HandlersTyped /\ HandlerOK(a) /\ Locked
  BY DEF BInv
<1>2. pc[a] = "idle" /\ wr[a] = NoRows /\ DOMAIN wr[a] = {} /\ dirty[a] = {}
  BY <1>1 DEF BeginBulk, HandlerOK, Quiet, Fresh
<1>3. [ids |-> ids, act |-> act] \in BulkCall
  BY DEF BulkCall
<1>4. HandlersTyped'
  BY <1>1, <1>3 DEF BeginBulk, HandlersTyped
<1>5. /\ pc'[a] = IF act.type = "delete" THEN "update" ELSE "snapshot"
      /\ call'[a] = [ids |-> ids, act |-> act]
      /\ todo'[a] = ids
      /\ wr' = wr /\ snap' = snap /\ dirty' = dirty /\ row' = row
      /\ \A b \in Admins \ {a} : SameHandler(b)
  BY <1>1 DEF BeginBulk, HandlersTyped, SameHandler, tables
<1>6. HandlerOK(a)'
  BY <1>2, <1>3, <1>5
     DEF HandlerOK, Quiet, Selecting, Snapping, Updating, Restoring, Fresh, Reached
<1>7. UNCHANGED <<tables, history>>
  BY DEF BeginBulk
<1>. QED  BY <1>2, <1>4, <1>5, <1>6, <1>7, LocalStep

LEMMA TakeSnapshotBInv ==
  ASSUME BInv, NEW a \in Admins, TakeSnapshot(a)
  PROVE  BInv'
<1> DEFINE s == [c \in Existing(call[a].ids) |-> Saved(row[c])]
<1>1. HandlersTyped /\ TablesTyped /\ HandlerOK(a) /\ Locked
  BY DEF BInv
<1>2. /\ pc[a] = "snapshot" /\ wr[a] = NoRows /\ DOMAIN wr[a] = {} /\ dirty[a] = {}
      /\ call[a] \in BulkCall /\ todo[a] = call[a].ids /\ call[a].act.type # "delete"
  BY <1>1 DEF TakeSnapshot, HandlerOK, Quiet, Fresh, Selecting, Snapping
<1>3. s \in Some(SavedRow)
  <2>1. Existing(call[a].ids) \in SUBSET Challenges
    BY <1>2 DEF BulkCall, Existing, Board!Existing
  <2>2. \A c \in Existing(call[a].ids) : row[c] \in Row
    BY <1>1, <2>1 DEF TablesTyped, Existing, Board!Existing
  <2>3. s \in [Existing(call[a].ids) -> SavedRow]
    BY <2>2, SavedTyped
  <2>. QED  BY <2>1, <2>3, SomeFunction
<1>4. /\ pc' = [pc EXCEPT ![a] = "update"]
      /\ snap' = [snap EXCEPT ![a] = s]
      /\ call' = call /\ todo' = todo /\ wr' = wr /\ dirty' = dirty /\ row' = row
  BY DEF TakeSnapshot, tables
<1>5. HandlersTyped'
  BY <1>1, <1>3, <1>4 DEF HandlersTyped
<1>6. /\ pc'[a] = "update" /\ snap'[a] = s
      /\ \A b \in Admins \ {a} : SameHandler(b)
  BY <1>1, <1>4 DEF HandlersTyped, SameHandler
<1>7. \A c \in call[a].ids : row[c] # Gone => c \in DOMAIN s /\ s[c] = Saved(row[c])
  BY DEF Existing, Board!Existing
<1>8. HandlerOK(a)'
  BY <1>2, <1>4, <1>6, <1>7
     DEF HandlerOK, Quiet, Selecting, Snapping, Updating, Restoring, Fresh, Reached
<1>9. UNCHANGED <<tables, history>>
  BY DEF TakeSnapshot
<1>. QED  BY <1>1, <1>2, <1>4, <1>5, <1>6, <1>8, <1>9, LocalStep

\* What the action makes of a row that is there.
LEMMA UpdateRowBInv ==
  ASSUME BInv, NEW a \in Admins, NEW c \in Challenges, UpdateRow(a, c)
  PROVE  BInv'
<1> DEFINE r == Applied(call[a].act, row[c])
<1>1. HandlersTyped /\ TablesTyped /\ HandlerOK(a) /\ Locked
  BY DEF BInv
<1>2. pc[a] = "update" /\ ReachRow(a, c, r) /\ UNCHANGED <<tables, pc, call, snap, history, dirty>>
  BY DEF UpdateRow
<1>3. UNCHANGED row
  BY <1>2 DEF tables
<1>4. /\ call[a] \in BulkCall /\ todo[a] \subseteq call[a].ids
      /\ Reached(a, call[a].ids)
      /\ \A d \in DOMAIN wr[a] : wr[a][d] = Applied(call[a].act, row[d])
  BY <1>1, <1>2 DEF HandlerOK, Selecting, Updating
<1>5. call[a].ids \in SUBSET Challenges /\ call[a].act \in Action
  BY <1>4, RequestsAssumption DEF BulkCall
<1>6. row[c] # Gone => r \in Row \cup {Gone}
  BY <1>1, <1>5, AppliedTyped DEF TablesTyped
<1>7. /\ todo' \in [Admins -> SUBSET Challenges]
      /\ wr' \in [Admins -> Some(Row \cup {Gone})]
      /\ Reached(a, call[a].ids)'
      /\ todo'[a] \subseteq todo[a]
      /\ \A d \in DOMAIN wr'[a] : /\ row[d] # Gone
                                  /\ \/ d = c /\ wr'[a][d] = r
                                     \/ d \in DOMAIN wr[a] /\ wr'[a][d] = wr[a][d]
      /\ \A b \in Admins \ {a} : /\ wr'[b] = wr[b]
                                 /\ todo'[b] = todo[b]
                                 /\ DOMAIN wr'[a] \cap DOMAIN wr[b] = {}
  <2>1. PICK ids \in SUBSET Challenges : ids = call[a].ids
    BY <1>5
  <2>2. PICK x : x = r
    OBVIOUS
  <2>3. Reached(a, ids) /\ ReachRow(a, c, x) /\ (row[c] # Gone => x \in Row \cup {Gone})
    BY <1>2, <1>4, <1>6, <2>1, <2>2
  <2>4. (call[a].ids)' = ids
    BY <1>2, <2>1
  <2>5. /\ todo' \in [Admins -> SUBSET Challenges]
        /\ wr' \in [Admins -> Some(Row \cup {Gone})]
        /\ Reached(a, ids)'
        /\ todo'[a] \subseteq todo[a]
        /\ \A d \in DOMAIN wr'[a] : /\ row[d] # Gone
                                    /\ \/ d = c /\ wr'[a][d] = x
                                       \/ d \in DOMAIN wr[a] /\ wr'[a][d] = wr[a][d]
        /\ \A b \in Admins \ {a} : /\ wr'[b] = wr[b]
                                   /\ todo'[b] = todo[b]
                                   /\ DOMAIN wr'[a] \cap DOMAIN wr[b] = {}
    BY <1>3, <2>3, RowReached
  <2>6. Reached(a, call[a].ids)'
    BY <2>4, <2>5 DEF Reached
  <2> HIDE DEF r
  <2>. QED  BY <2>2, <2>5, <2>6
<1>8. HandlersTyped'
  BY <1>1, <1>2, <1>7 DEF HandlersTyped
<1>9. \A d \in DOMAIN wr'[a] : wr'[a][d] = Applied(call[a].act, row[d])
  BY <1>4, <1>7
<1>10. HandlerOK(a)'
  <2>1. Selecting(a)'
    BY <1>2, <1>4, <1>7 DEF Selecting
  <2>2. Updating(a)'
    BY <1>2, <1>3, <1>7, <1>9 DEF Updating
  <2>3. Fresh(a)'
    BY <1>1, <1>2, <1>3 DEF HandlerOK, Fresh
  <2>. QED  BY <1>2, <2>1, <2>2, <2>3 DEF HandlerOK, Quiet, Snapping, Restoring
<1>. QED  BY <1>2, <1>7, <1>8, <1>10, LocalStep DEF SameHandler

\* What the snapshot makes of a row that is there.
LEMMA RestoreRowBInv ==
  ASSUME BInv, NEW a \in Admins, NEW c \in Challenges, RestoreRow(a, c)
  PROVE  BInv'
<1> DEFINE r == Restored(row[c], snap[a][c])
<1>1. HandlersTyped /\ TablesTyped /\ HandlerOK(a) /\ Locked
  BY DEF BInv
<1>2. pc[a] = "restore" /\ ReachRow(a, c, r) /\ UNCHANGED <<tables, pc, call, snap, history, dirty>>
  BY DEF RestoreRow
<1>3. UNCHANGED <<row, jobs>>
  BY <1>2 DEF tables
<1>4. /\ Reached(a, DOMAIN snap[a])
      /\ \A d \in DOMAIN wr[a] : wr[a][d] = Restored(row[d], snap[a][d])
  BY <1>1, <1>2 DEF HandlerOK, Restoring
<1>5. DOMAIN snap[a] \in SUBSET Challenges /\ \A d \in DOMAIN snap[a] : snap[a][d] \in SavedRow
  BY <1>1, SomeDomain DEF HandlersTyped
<1>6. row[c] # Gone => r \in Row \cup {Gone}
  <2>1. c \in DOMAIN snap[a]
    BY <1>2, <1>4 DEF ReachRow, Reached
  <2>. QED  BY <1>1, <1>5, <2>1, RestoredTyped DEF TablesTyped
<1>7. /\ todo' \in [Admins -> SUBSET Challenges]
      /\ wr' \in [Admins -> Some(Row \cup {Gone})]
      /\ Reached(a, DOMAIN snap[a])'
      /\ \A d \in DOMAIN wr'[a] : /\ row[d] # Gone
                                  /\ \/ d = c /\ wr'[a][d] = r
                                     \/ d \in DOMAIN wr[a] /\ wr'[a][d] = wr[a][d]
      /\ \A b \in Admins \ {a} : /\ wr'[b] = wr[b]
                                 /\ todo'[b] = todo[b]
                                 /\ DOMAIN wr'[a] \cap DOMAIN wr[b] = {}
  <2>1. PICK ids \in SUBSET Challenges : ids = DOMAIN snap[a]
    BY <1>5
  <2>2. PICK x : x = r
    OBVIOUS
  <2>3. Reached(a, ids) /\ ReachRow(a, c, x) /\ (row[c] # Gone => x \in Row \cup {Gone})
    BY <1>2, <1>4, <1>6, <2>1, <2>2
  <2>4. (DOMAIN snap[a])' = ids
    BY <1>2, <2>1
  <2>5. /\ todo' \in [Admins -> SUBSET Challenges]
        /\ wr' \in [Admins -> Some(Row \cup {Gone})]
        /\ Reached(a, ids)'
        /\ todo'[a] \subseteq todo[a]
        /\ \A d \in DOMAIN wr'[a] : /\ row[d] # Gone
                                    /\ \/ d = c /\ wr'[a][d] = x
                                       \/ d \in DOMAIN wr[a] /\ wr'[a][d] = wr[a][d]
        /\ \A b \in Admins \ {a} : /\ wr'[b] = wr[b]
                                   /\ todo'[b] = todo[b]
                                   /\ DOMAIN wr'[a] \cap DOMAIN wr[b] = {}
    BY <1>3, <2>3, RowReached
  <2>6. Reached(a, DOMAIN snap[a])'
    BY <2>4, <2>5 DEF Reached
  <2> HIDE DEF r
  <2>. QED  BY <2>2, <2>5, <2>6
<1>8. HandlersTyped'
  BY <1>1, <1>2, <1>7 DEF HandlersTyped
<1>9. \A d \in DOMAIN wr'[a] : wr'[a][d] = Restored(row[d], snap[a][d])
  BY <1>4, <1>7
<1>10. HandlerOK(a)'
  <2>1. Restoring(a)'
    BY <1>1, <1>2, <1>3, <1>7, <1>9 DEF HandlerOK, Restoring
  <2>2. Fresh(a)'
    BY <1>1, <1>2 DEF HandlerOK, Fresh
  <2>. QED  BY <1>2, <2>1, <2>2 DEF HandlerOK, Quiet, Selecting, Snapping, Updating
<1>. QED  BY <1>2, <1>7, <1>8, <1>10, LocalStep DEF SameHandler

LEMMA ReadJobBInv ==
  ASSUME BInv, NEW a \in Admins, NEW j \in DOMAIN jobs, ReadJob(a, j)
  PROVE  BInv'
<1>1. HandlersTyped /\ TablesTyped /\ HandlerOK(a) /\ Locked
  BY DEF BInv
<1>2. pc[a] = "idle" /\ wr[a] = NoRows /\ DOMAIN wr[a] = {} /\ dirty[a] = {}
  BY <1>1 DEF ReadJob, HandlerOK, Quiet, Fresh
<1>3. j \in Nat \ {0} /\ jobs[j].undo \in Some(SavedRow)
  <2>1. j \in 1 .. Len(jobs) /\ Len(jobs) \in Nat
    BY <1>1, LenProperties DEF TablesTyped
  <2>2. jobs[j] \in JobRow
    BY <1>1, <2>1, ElementOfSeq DEF TablesTyped
  <2>. QED  BY <2>1, <2>2 DEF JobRow
<1>4. [job |-> j] \in UndoCall /\ DOMAIN jobs[j].undo \subseteq Challenges
  BY <1>3, SomeDomain DEF UndoCall
<1>5. HandlersTyped'
  BY <1>1, <1>3, <1>4 DEF ReadJob, HandlersTyped
<1>6. /\ pc'[a] = "restore"
      /\ call'[a] = [job |-> j]
      /\ snap'[a] = jobs[j].undo
      /\ todo'[a] = DOMAIN jobs[j].undo
      /\ wr' = wr /\ dirty' = dirty /\ row' = row /\ jobs' = jobs
      /\ \A b \in Admins \ {a} : SameHandler(b)
  BY <1>1 DEF ReadJob, HandlersTyped, SameHandler, tables
<1>7. HandlerOK(a)'
  <2>1. Restoring(a)'
    BY <1>2, <1>4, <1>6 DEF Restoring, Reached, ReadJob
  <2>. QED  BY <1>2, <1>6, <2>1 DEF HandlerOK, Quiet, Selecting, Snapping, Updating, Fresh
<1>8. UNCHANGED <<tables, history>>
  BY DEF ReadJob
<1>. QED  BY <1>2, <1>5, <1>6, <1>7, <1>8, LocalStep

LEMMA FailBInv ==
  ASSUME BInv, NEW a \in Admins, Fail(a)
  PROVE  BInv'
<1>1. dirty \in [Admins -> SUBSET Challenges]
  BY DEF BInv, HandlersTyped
<1>2. /\ dirty' \in [Admins -> SUBSET Challenges]
      /\ dirty'[a] = {}
      /\ \A b \in Admins \ {a} : dirty'[b] = dirty[b]
  BY <1>1 DEF Fail
<1>3. /\ HandlersTyped'
      /\ HandlerOK(a)'
      /\ DOMAIN wr'[a] = {}
      /\ \A b \in Admins \ {a} : SameHandler(b)
  BY <1>2, HandlerEnds DEF Fail
<1>4. UNCHANGED <<tables, history>>
  BY DEF Fail
<1>. QED  BY <1>2, <1>3, <1>4, LocalStep

------------------------------------------------------------------------------
\* The rows of a handler that commits: they move, and nobody else holds them.
LEMMA RowsCommitted ==
  ASSUME BInv, NEW a \in Admins, CommitRows(a)
  PROVE  /\ row' \in [Challenges -> Row \cup {Gone}]
         /\ DOMAIN wr[a] \in SUBSET Challenges
         /\ RowsMove(DOMAIN wr[a])
         /\ \A c \in DOMAIN wr[a] : row'[c] = wr[a][c] /\ row[c] \in Row
         /\ \A b \in Admins \ {a} : DOMAIN wr[a] \cap DOMAIN wr[b] = {}
<1>1. HandlersTyped /\ TablesTyped /\ Locked
  BY DEF BInv
<1>2. DOMAIN wr[a] \in SUBSET Challenges /\ \A c \in DOMAIN wr[a] : wr[a][c] \in Row \cup {Gone}
  BY <1>1, SomeDomain DEF HandlersTyped
<1>3. row' = [c \in Challenges |-> IF c \in DOMAIN wr[a] THEN wr[a][c] ELSE row[c]]
  BY DEF CommitRows
<1>4. row' \in [Challenges -> Row \cup {Gone}]
  BY <1>1, <1>2, <1>3 DEF TablesTyped
<1>5. \A c \in DOMAIN wr[a] : row'[c] = wr[a][c] /\ row[c] \in Row
  BY <1>1, <1>2, <1>3 DEF TablesTyped, Locked
<1>6. RowsMove(DOMAIN wr[a])
  BY <1>1, <1>3 DEF RowsMove, Locked
<1>. QED  BY <1>1, <1>2, <1>4, <1>5, <1>6 DEF Locked

\* The rows that a handler holds stay where they are when others commit.
LEMMA LockedKept ==
  ASSUME BInv, NEW a \in Admins, NEW W \in SUBSET Challenges, RowsMove(W), DOMAIN wr'[a] = {},
         \A b \in Admins \ {a} : SameHandler(b) /\ W \cap DOMAIN wr[b] = {}
  PROVE  Locked'
<1>1. HandlersTyped /\ Locked
  BY DEF BInv
<1>2. \A b \in Admins \ {a} : wr'[b] = wr[b]
  BY DEF SameHandler
<1>3. \A b \in Admins \ {a} : \A c \in DOMAIN wr[b] : row'[c] = row[c]
  BY <1>1, SomeDomain DEF HandlersTyped, RowsMove
<1>. QED  BY <1>1, <1>2, <1>3 DEF Locked

\* dirty is kept for the handlers whose snapshot may be old.
LEMMA Touched ==
  ASSUME BInv, NEW a \in Admins, NEW W \in SUBSET Challenges, Touch(a, W)
  PROVE  /\ dirty' \in [Admins -> SUBSET Challenges]
         /\ dirty'[a] = {}
         /\ \A b \in Admins \ {a} : dirty'[b] = IF pc[b] # "update" THEN {} ELSE dirty[b] \cup W
BY DEF Touch, BInv, HandlersTyped

LEMMA CommitBulkBInv ==
  ASSUME BInv, NEW a \in Admins, CommitBulk(a)
  PROVE  BInv'
<1> DEFINE W   == DOMAIN wr[a]
           job == Board!Job(call[a].act, W, snap[a])
           old == [c \in W |-> row[c]]
           t   == [j \in DOMAIN touched |-> touched[j] \cup W]
<1>0. PICK n : n = Len(jobs) + 1
  OBVIOUS
<1>1. HandlersTyped /\ TablesTyped /\ Locked /\ HandlerOK(a)
  BY DEF BInv
<1>2. /\ pc[a] = "update" /\ todo[a] = {} /\ Len(jobs) < MaxJobs
      /\ CommitRows(a) /\ Touch(a, W) /\ EndTx(a)
      /\ jobs' = Append(jobs, job) /\ before' = Append(before, old)
      /\ touched' = Append(t, dirty[a])
  BY DEF CommitBulk
<1>3. /\ row' \in [Challenges -> Row \cup {Gone}]
      /\ W \in SUBSET Challenges
      /\ RowsMove(W)
      /\ \A c \in W : row'[c] = wr[a][c] /\ row[c] \in Row
      /\ \A b \in Admins \ {a} : W \cap DOMAIN wr[b] = {}
  BY <1>2, RowsCommitted
<1>4. /\ dirty' \in [Admins -> SUBSET Challenges]
      /\ dirty'[a] = {}
      /\ \A b \in Admins \ {a} : dirty'[b] = IF pc[b] # "update" THEN {} ELSE dirty[b] \cup W
  BY <1>2, <1>3, Touched
<1>5. /\ HandlersTyped'
      /\ HandlerOK(a)'
      /\ DOMAIN wr'[a] = {}
      /\ \A b \in Admins \ {a} : SameHandler(b)
  BY <1>2, <1>4, HandlerEnds
<1>6. /\ call[a] \in BulkCall
      /\ W \subseteq call[a].ids
      /\ \A c \in W : wr[a][c] = Applied(call[a].act, row[c])
      /\ call[a].act.type # "delete" =>
           \A c \in call[a].ids \ dirty[a] :
             row[c] # Gone => c \in DOMAIN snap[a] /\ snap[a][c] = Saved(row[c])
  BY <1>1, <1>2 DEF HandlerOK, Selecting, Updating, Reached, Fresh
<1>7. job \in JobRow /\ old \in Some(Row) /\ dirty[a] \in SUBSET Challenges
  <2>1. job \in JobRow
    BY <1>1, <1>3, <1>6 DEF JobRow, BulkCall, HandlersTyped, Board!Job
  <2>2. old \in [W -> Row]
    BY <1>3
  <2>. QED  BY <1>1, <1>3, <2>1, <2>2, SomeFunction DEF HandlersTyped
<1>8. /\ Len(jobs) \in Nat /\ DOMAIN jobs = 1 .. Len(jobs)
      /\ jobs' \in Seq(JobRow) /\ Len(jobs') = n /\ DOMAIN jobs' = 1 .. n
      /\ \A j \in DOMAIN jobs : jobs'[j] = jobs[j]
      /\ jobs'[n] = job
  BY <1>0, <1>1, <1>2, <1>7, AppendProperties, LenProperties DEF TablesTyped
<1>9. /\ before' \in Seq(Some(Row)) /\ Len(before') = n
      /\ \A j \in DOMAIN jobs : before'[j] = before[j]
      /\ before'[n] = old
  <2>. HIDE DEF old
  <2>. QED  BY <1>0, <1>1, <1>2, <1>7, <1>8, AppendProperties, LenProperties DEF TablesTyped
<1>10. /\ touched' \in Seq(SUBSET Challenges) /\ Len(touched') = n
       /\ \A j \in DOMAIN jobs : touched'[j] = touched[j] \cup W
       /\ touched'[n] = dirty[a]
  <2>1. DOMAIN touched = DOMAIN jobs /\ \A j \in DOMAIN touched : touched[j] \in SUBSET Challenges
    BY <1>1, <1>8, LenProperties, ElementOfSeq DEF TablesTyped
  <2>2. t \in [DOMAIN touched -> SUBSET Challenges]
    BY <1>3, <2>1
  <2>3. t \in Seq(SUBSET Challenges) /\ Len(t) = Len(jobs)
    <3>. HIDE DEF t
    <3>. QED  BY <1>1, <2>2, SamePositions DEF TablesTyped
  <2>4. \A j \in DOMAIN jobs : t[j] = touched[j] \cup W
    BY <2>1
  <2>. HIDE DEF t
  <2>. QED  BY <1>0, <1>2, <1>7, <1>8, <2>3, <2>4, AppendProperties
<1>11. TablesTyped'
  BY <1>0, <1>2, <1>3, <1>8, <1>9, <1>10, RequestsAssumption DEF TablesTyped
<1>12. Locked'
  BY <1>3, <1>5, LockedKept
<1>13. \A b \in Admins \ {a} : HandlerOK(b)'
  <2>1. JobsStay
    BY <1>0, <1>8 DEF JobsStay
  <2>. QED  BY <1>3, <1>4, <1>5, <2>1, OthersKept
<1>14. \A j \in DOMAIN jobs : JobOK(j)'
  BY <1>3, <1>8, <1>9, <1>10, JobKept
<1>15. JobOK(n)'
  <2>1. SUFFICES ASSUME call[a].act.type # "delete", NEW c \in W \ dirty[a]
                 PROVE  /\ row'[c] # Gone
                        /\ c \in DOMAIN snap[a]
                        /\ snap[a][c] = Saved(row[c])
    BY <1>8, <1>9, <1>10 DEF JobOK, Board!Job
  <2>2. row[c] \in Row /\ row'[c] = Applied(call[a].act, row[c])
    BY <1>3, <1>6
  <2>3. row'[c] # Gone
    BY <1>6, <2>1, <2>2, AppliedTyped, RowsAssumption, RequestsAssumption DEF BulkCall
  <2>. QED  BY <1>6, <2>1, <2>2, <2>3, RowsAssumption
<1>. QED
  <2>1. \A j \in DOMAIN jobs' : JobOK(j)'
    BY <1>0, <1>8, <1>14, <1>15
  <2>. QED  BY <1>5, <1>11, <1>12, <1>13, <2>1 DEF BInv

LEMMA CommitUndoBInv ==
  ASSUME BInv, NEW a \in Admins, CommitUndo(a)
  PROVE  BInv'
<1> DEFINE W == DOMAIN wr[a]
<1>0. PICK k : k = call[a].job
  OBVIOUS
<1>1. HandlersTyped /\ TablesTyped /\ Locked /\ HandlerOK(a)
  BY DEF BInv
<1>2. /\ pc[a] = "restore" /\ todo[a] = {}
      /\ CommitRows(a) /\ Touch(a, W) /\ EndTx(a)
      /\ jobs' = [jobs EXCEPT ![k].undone = TRUE] /\ before' = before
      /\ touched' = [j \in DOMAIN touched |-> IF j = k THEN touched[j] ELSE touched[j] \cup W]
  BY <1>0 DEF CommitUndo
<1>3. /\ row' \in [Challenges -> Row \cup {Gone}]
      /\ W \in SUBSET Challenges
      /\ RowsMove(W)
      /\ \A c \in W : row'[c] = wr[a][c] /\ row[c] \in Row
      /\ \A b \in Admins \ {a} : W \cap DOMAIN wr[b] = {}
  BY <1>2, RowsCommitted
<1>4. /\ dirty' \in [Admins -> SUBSET Challenges]
      /\ dirty'[a] = {}
      /\ \A b \in Admins \ {a} : dirty'[b] = IF pc[b] # "update" THEN {} ELSE dirty[b] \cup W
  BY <1>2, <1>3, Touched
<1>5. /\ HandlersTyped'
      /\ HandlerOK(a)'
      /\ DOMAIN wr'[a] = {}
      /\ \A b \in Admins \ {a} : SameHandler(b)
  BY <1>2, <1>4, HandlerEnds
<1>6. /\ k \in DOMAIN jobs /\ jobs[k].act.type # "delete" /\ snap[a] = jobs[k].undo
      /\ \A c \in DOMAIN snap[a] : row[c] # Gone => c \in W
      /\ W \subseteq DOMAIN snap[a]
      /\ \A c \in W : wr[a][c] = Restored(row[c], snap[a][c])
  BY <1>0, <1>1, <1>2 DEF HandlerOK, Restoring, Reached
<1>7. /\ DOMAIN snap[a] \subseteq Challenges
      /\ \A c \in DOMAIN snap[a] : snap[a][c] \in SavedRow
  BY <1>1, SomeDomain DEF HandlersTyped
<1>8. /\ Len(jobs) \in Nat /\ DOMAIN jobs = 1 .. Len(jobs)
      /\ jobs[k] \in JobRow
      /\ [jobs[k] EXCEPT !.undone = TRUE] \in JobRow
  <2>1. Len(jobs) \in Nat /\ DOMAIN jobs = 1 .. Len(jobs) /\ jobs[k] \in JobRow
    BY <1>1, <1>6, LenProperties, ElementOfSeq DEF TablesTyped
  <2>. QED  BY <2>1 DEF JobRow
<1>9. /\ jobs' \in Seq(JobRow) /\ Len(jobs') = Len(jobs) /\ DOMAIN jobs' = DOMAIN jobs
      /\ \A j \in DOMAIN jobs \ {k} : jobs'[j] = jobs[j]
      /\ jobs'[k] = [jobs[k] EXCEPT !.undone = TRUE]
  <2> DEFINE done == [jobs[k] EXCEPT !.undone = TRUE]
  <2>1. jobs' = [jobs EXCEPT ![k] = done]
    BY <1>2
  <2>2. jobs \in Seq(JobRow) /\ k \in 1 .. Len(jobs) /\ done \in JobRow
    BY <1>1, <1>6, <1>8 DEF TablesTyped
  <2>3. /\ [jobs EXCEPT ![k] = done] \in Seq(JobRow)
        /\ Len([jobs EXCEPT ![k] = done]) = Len(jobs)
        /\ \A j \in 1 .. Len(jobs) : [jobs EXCEPT ![k] = done][j] = IF j = k THEN done ELSE jobs[j]
    <3>. HIDE DEF done
    <3>. QED  BY <2>2, ExceptSeq
  <2>4. /\ jobs' \in Seq(JobRow) /\ Len(jobs') = Len(jobs)
        /\ \A j \in 1 .. Len(jobs) : jobs'[j] = IF j = k THEN done ELSE jobs[j]
    <3>. HIDE DEF done
    <3>. QED  BY <2>1, <2>3
  <2>5. DOMAIN jobs' = DOMAIN jobs
    BY <1>8, <2>4, LenProperties
  <2>. QED  BY <1>6, <1>8, <2>4, <2>5
<1>10. /\ touched' \in Seq(SUBSET Challenges) /\ Len(touched') = Len(touched)
       /\ \A j \in DOMAIN jobs \ {k} : touched'[j] = touched[j] \cup W
       /\ touched'[k] = touched[k]
  <2>1. DOMAIN touched = DOMAIN jobs /\ \A j \in DOMAIN touched : touched[j] \in SUBSET Challenges
    BY <1>1, <1>8, LenProperties, ElementOfSeq DEF TablesTyped
  <2>2. touched' \in [DOMAIN touched -> SUBSET Challenges]
    BY <1>2, <1>3, <2>1
  <2>3. touched' \in Seq(SUBSET Challenges) /\ Len(touched') = Len(touched)
    BY <1>1, <2>2, SamePositions DEF TablesTyped
  <2>. QED  BY <1>2, <1>6, <2>1, <2>3
<1>11. TablesTyped'
  BY <1>1, <1>2, <1>3, <1>9, <1>10 DEF TablesTyped
<1>12. Locked'
  BY <1>3, <1>5, LockedKept
<1>13. \A b \in Admins \ {a} : HandlerOK(b)'
  <2>1. JobsStay
    BY <1>8, <1>9 DEF JobsStay, JobRow
  <2>. QED  BY <1>3, <1>4, <1>5, <2>1, OthersKept
<1>14. \A j \in DOMAIN jobs \ {k} : JobOK(j)'
  BY <1>2, <1>3, <1>9, <1>10, JobKept
<1>15. JobOK(k)'
  <2>1. jobs'[k].act = jobs[k].act /\ jobs'[k].undo = snap[a]
    BY <1>6, <1>8, <1>9 DEF JobRow
  <2>2. JobOK(k)
    BY <1>6 DEF BInv
  <2>3. ASSUME NEW c \in DOMAIN before[k] \ touched[k]
        PROVE  /\ row'[c] # Gone
               /\ c \in DOMAIN snap[a]
               /\ snap[a][c] = Saved(before[k][c])
               /\ Saved(row'[c]) = Saved(before[k][c])
    <3>1. row[c] # Gone /\ c \in DOMAIN snap[a] /\ snap[a][c] = Saved(before[k][c])
      BY <1>6, <2>2 DEF JobOK
    <3>2. c \in W /\ row'[c] = Restored(row[c], snap[a][c]) /\ row[c] \in Row
      BY <1>3, <1>6, <3>1
    <3>3. row'[c] \in Row /\ Saved(row'[c]) = snap[a][c]
      BY <1>7, <3>1, <3>2, RestoredTyped
    <3>. QED  BY <3>1, <3>3, RowsAssumption
  <2>. QED  BY <1>2, <1>6, <1>10, <2>1, <2>3 DEF JobOK
<1>. QED
  <2>1. \A j \in DOMAIN jobs' : JobOK(j)'
    BY <1>9, <1>14, <1>15
  <2>. QED  BY <1>5, <1>11, <1>12, <1>13, <2>1 DEF BInv

LEMMA EditBInv ==
  ASSUME BInv, NEW c \in Challenges, NEW act \in Edits, Edit(c, act)
  PROVE  BInv'
<1>1. HandlersTyped /\ TablesTyped /\ Locked
  BY DEF BInv
<1>2. /\ row[c] # Gone /\ \A a \in Admins : c \notin DOMAIN wr[a]
      /\ row' = [row EXCEPT ![c] = Applied(act, row[c])]
      /\ touched' = [j \in DOMAIN touched |-> touched[j] \cup {c}]
      /\ dirty' = [a \in Admins |-> IF pc[a] = "update" THEN dirty[a] \cup {c} ELSE {}]
      /\ UNCHANGED <<jobs, pc, call, snap, todo, wr, before>>
  BY DEF Edit
<1>3. row' \in [Challenges -> Row \cup {Gone}] /\ RowsMove({c})
  <2>1. Applied(act, row[c]) \in Row \cup {Gone}
    BY <1>1, <1>2, AppliedTyped, RequestsAssumption DEF TablesTyped
  <2>. QED  BY <1>1, <1>2, <2>1 DEF TablesTyped, RowsMove
<1>4. /\ touched' \in Seq(SUBSET Challenges) /\ Len(touched') = Len(touched)
      /\ \A j \in DOMAIN jobs : touched'[j] = touched[j] \cup {c}
  <2>1. DOMAIN touched = DOMAIN jobs /\ \A j \in DOMAIN touched : touched[j] \in SUBSET Challenges
    BY <1>1, LenProperties, ElementOfSeq DEF TablesTyped
  <2>2. touched' \in [DOMAIN touched -> SUBSET Challenges]
    BY <1>2, <2>1
  <2>3. touched' \in Seq(SUBSET Challenges) /\ Len(touched') = Len(touched)
    BY <1>1, <2>2, SamePositions DEF TablesTyped
  <2>. QED  BY <1>2, <2>1, <2>3
<1>5. TablesTyped' /\ HandlersTyped'
  BY <1>1, <1>2, <1>3, <1>4 DEF TablesTyped, HandlersTyped
<1>6. Locked'
  <2>1. \A a \in Admins : \A d \in DOMAIN wr[a] : row'[d] = row[d]
    BY <1>1, <1>2, SomeDomain DEF HandlersTyped, TablesTyped
  <2>. QED  BY <1>1, <1>2, <2>1 DEF Locked
<1>7. ASSUME NEW b \in Admins PROVE HandlerOK(b)'
  <2>1. SameHandler(b) /\ JobsStay
    BY <1>2 DEF SameHandler, JobsStay
  <2>2. {c} \cap DOMAIN wr[b] = {}
    BY <1>2
  <2>3. dirty'[b] = IF pc[b] # "update" THEN {} ELSE dirty[b] \cup {c}
    BY <1>2
  <2>. QED  BY <1>3, <2>1, <2>2, <2>3, OthersKept
<1>8. \A j \in DOMAIN jobs : JobOK(j)'
  BY <1>2, <1>3, <1>4, JobKept
<1>. QED  BY <1>2, <1>5, <1>6, <1>7, <1>8 DEF BInv

LEMMA NextBInv == BInv /\ [Next]_vars => BInv'
<1> SUFFICES ASSUME BInv, [Next]_vars PROVE BInv'
  OBVIOUS
<1>1. ASSUME NEW a \in Admins, NEW sel \in Selectors, NEW act \in Actions,
             BeginBulk(a, Resolve(sel), act)
      PROVE  BInv'
  <2>1. PICK ids \in SUBSET Challenges : ids = Resolve(sel)
    BY ResolveTyped
  <2>. QED  BY <1>1, <2>1, BeginBulkBInv
<1>2. ASSUME NEW a \in Admins, TakeSnapshot(a) PROVE BInv'
  BY <1>2, TakeSnapshotBInv
<1>3. ASSUME NEW a \in Admins, NEW c \in Challenges, UpdateRow(a, c) PROVE BInv'
  BY <1>3, UpdateRowBInv
<1>4. ASSUME NEW a \in Admins, NEW c \in Challenges, RestoreRow(a, c) PROVE BInv'
  BY <1>4, RestoreRowBInv
<1>5. ASSUME NEW a \in Admins, CommitBulk(a) PROVE BInv'
  BY <1>5, CommitBulkBInv
<1>6. ASSUME NEW a \in Admins, NEW j \in DOMAIN jobs, ReadJob(a, j) PROVE BInv'
  BY <1>6, ReadJobBInv
<1>7. ASSUME NEW a \in Admins, CommitUndo(a) PROVE BInv'
  BY <1>7, CommitUndoBInv
<1>8. ASSUME NEW a \in Admins, Fail(a) PROVE BInv'
  BY <1>8, FailBInv
<1>9. ASSUME NEW c \in Challenges, NEW act \in Edits, Edit(c, act) PROVE BInv'
  BY <1>9, EditBInv
<1>10. CASE UNCHANGED vars
  <2>1. UNCHANGED <<row, jobs, pc, call, snap, todo, wr, before, touched, dirty>>
    BY <1>10 DEF vars
  <2>2. TablesTyped' /\ HandlersTyped' /\ Locked'
    BY <2>1 DEF BInv, TablesTyped, HandlersTyped, Locked
  <2>3. ASSUME NEW b \in Admins PROVE HandlerOK(b)'
    <3>1. SameHandler(b) /\ JobsStay /\ RowsMove({})
      BY <2>1 DEF SameHandler, JobsStay, RowsMove
    <3>2. dirty'[b] = IF pc[b] # "update" THEN {} ELSE dirty[b] \cup {}
      BY <2>1 DEF BInv, HandlerOK, Fresh
    <3>. QED  BY <3>1, <3>2, OthersKept
  <2>4. \A j \in DOMAIN jobs : JobOK(j)'
    BY <2>1 DEF BInv, JobOK
  <2>. QED  BY <2>1, <2>2, <2>3, <2>4 DEF BInv
<1>. QED  BY <1>1, <1>2, <1>3, <1>4, <1>5, <1>6, <1>7, <1>8, <1>9, <1>10 DEF Next, Administer

------------------------------------------------------------------------------
THEOREM BulkInvariance == Spec => []BInv
BY InitBInv, NextBInv, PTL DEF Spec

\* Locks, tables and handlers agree in type (library.go, BulkApply and BulkUndo), and
\* no two transactions hold the same row.
THEOREM BulkTypeCorrect == Spec => []TypeOK
<1>1. BInv => TypeOK
  BY DEF BInv, TablesTyped, HandlersTyped, Locked, TypeOK
<1>. QED  BY <1>1, BulkInvariance, PTL

\* After BulkUndo each row that the job changed and nobody else has is as it was before
\* the job: its snapshot, read before the UPDATE and without locks, was not too old.
THEOREM UndoRestoresRows == Spec => []UndoRestores
<1>1. BInv => UndoRestores
  BY DEF BInv, JobOK, UndoRestores
<1>. QED  BY <1>1, BulkInvariance, PTL

------------------------------------------------------------------------------
\* A bulk action takes effect when its transaction commits: on the rows of its selection
\* that are there then, as they are then.
LEMMA CommitIsBulk ==
  ASSUME BInv, NEW a \in Admins, CommitBulk(a)
  PROVE  Board!Bulk(call[a].ids, call[a].act) /\ call[a] \in BulkCall
<1> DEFINE W   == DOMAIN wr[a]
           ids == call[a].ids
           job == Board!Job(call[a].act, W, snap[a])
<1>1. HandlersTyped /\ TablesTyped /\ Locked /\ HandlerOK(a)
  BY DEF BInv
<1>2. /\ pc[a] = "update" /\ todo[a] = {} /\ CommitRows(a)
      /\ jobs' = Append(jobs, job)
  BY DEF CommitBulk
<1>3. /\ call[a] \in BulkCall
      /\ W \subseteq ids
      /\ \A c \in ids : row[c] # Gone => c \in W
      /\ \A c \in W : wr[a][c] = Applied(call[a].act, row[c]) /\ row[c] # Gone
  BY <1>1, <1>2 DEF HandlerOK, Selecting, Updating, Reached, Locked
<1>4. Board!Existing(ids) = W
  BY <1>3 DEF Board!Existing
<1>5. row' = [c \in Challenges |->
                IF c \in Board!Existing(ids) THEN Board!Applied(call[a].act, row[c]) ELSE row[c]]
  BY <1>2, <1>3, <1>4 DEF CommitRows, Applied
<1>6. /\ Len(jobs') = Len(jobs) + 1
      /\ jobs'[Len(jobs) + 1] = job
  <2>1. job \in JobRow
    <3>1. W \in SUBSET Challenges /\ snap[a] \in Some(SavedRow) /\ call[a].act \in Actions
      BY <1>1, <1>2, <1>3, RowsCommitted DEF HandlersTyped, BulkCall
    <3>. QED  BY <3>1 DEF Board!Job, JobRow
  <2>2. jobs \in Seq(JobRow)
    BY <1>1 DEF TablesTyped
  <2>. HIDE DEF job
  <2>. QED  BY <1>2, <2>1, <2>2, AppendProperties
<1>7. jobs' = Append(jobs, Board!Job(call[a].act, Board!Existing(ids), jobs'[Len(jobs) + 1].undo))
  <2>1. jobs'[Len(jobs) + 1].undo = snap[a]
    BY <1>6 DEF Board!Job
  <2>. QED  BY <1>2, <1>4, <2>1
<1>. QED  BY <1>3, <1>5, <1>6, <1>7 DEF Board!Bulk

\* So does an undo: on the rows of the job's snapshot that are there then.
LEMMA CommitIsUndo ==
  ASSUME BInv, NEW a \in Admins, CommitUndo(a)
  PROVE  \E j \in DOMAIN jobs : Board!Undo(j)
<1> DEFINE W == DOMAIN wr[a]
           j == call[a].job
<1>1. HandlersTyped /\ TablesTyped /\ Locked /\ HandlerOK(a)
  BY DEF BInv
<1>2. /\ pc[a] = "restore" /\ todo[a] = {} /\ CommitRows(a)
      /\ jobs' = [jobs EXCEPT ![j].undone = TRUE]
  BY DEF CommitUndo
<1>3. /\ j \in DOMAIN jobs /\ snap[a] = jobs[j].undo
      /\ W \subseteq DOMAIN snap[a]
      /\ \A c \in DOMAIN snap[a] : row[c] # Gone => c \in W
      /\ \A c \in W : wr[a][c] = Restored(row[c], snap[a][c]) /\ row[c] # Gone
  BY <1>1, <1>2 DEF HandlerOK, Restoring, Reached, Locked
<1>4. Board!Existing(DOMAIN jobs[j].undo) = W
  BY <1>3 DEF Board!Existing
<1>5. row' = [c \in Challenges |->
                IF c \in Board!Existing(DOMAIN jobs[j].undo)
                  THEN Board!Restored(row[c], jobs[j].undo[c]) ELSE row[c]]
  BY <1>2, <1>3, <1>4 DEF CommitRows, Restored
<1>. QED  BY <1>2, <1>3, <1>5 DEF Board!Undo

LEMMA EditIsEdit ==
  ASSUME NEW c \in Challenges, NEW act \in Edits, Edit(c, act)
  PROVE  Board!Edit(c, act)
BY DEF Edit, Board!Edit, Board!Existing, Applied

\* The statements of the other steps change nothing that others see.
LEMMA Invisible ==
  ASSUME NEW a \in Admins,
         \/ \E ids, act : BeginBulk(a, ids, act)
         \/ TakeSnapshot(a)
         \/ \E c \in Challenges : UpdateRow(a, c) \/ RestoreRow(a, c)
         \/ \E j \in DOMAIN jobs : ReadJob(a, j)
         \/ Fail(a)
  PROVE  UNCHANGED Board!boardVars
BY DEF BeginBulk, TakeSnapshot, UpdateRow, RestoreRow, ReadJob, Fail, tables, Board!boardVars

\* The statements of BulkApply and BulkUndo, row by row and interleaved, implement
\* bulk administration in single steps: no action is ever half applied, and each
\* reports exactly the rows it touched (docs/index.html).
THEOREM BulkImplementsBoard == Spec => BoardSpec
<1>1. BInv /\ [Next]_vars => [Board!Next]_(Board!boardVars)
  <2> SUFFICES ASSUME BInv, Next PROVE Board!Next \/ UNCHANGED Board!boardVars
    BY DEF vars, Board!boardVars
  <2>1. ASSUME NEW a \in Admins, CommitBulk(a) PROVE Board!Next
    BY <2>1, CommitIsBulk DEF Board!Next, BulkCall
  <2>2. ASSUME NEW a \in Admins, CommitUndo(a) PROVE Board!Next
    BY <2>2, CommitIsUndo DEF Board!Next
  <2>3. ASSUME NEW c \in Challenges, NEW act \in Edits, Edit(c, act) PROVE Board!Next
    BY <2>3, EditIsEdit DEF Board!Next
  <2>. QED  BY <2>1, <2>2, <2>3, Invisible DEF Next, Administer
<1>. QED  BY <1>1, BulkInvariance, PTL DEF Spec, BoardSpec

=============================================================================

---------------------------- MODULE Scoring_proofs ----------------------------
(***************************************************************************)
(* Proofs about Scoring for any number of teams, challenges, handlers and  *)
(* plugin awards.                                                          *)
(***************************************************************************)
EXTENDS Scoring, FiniteSetTheorems, WellFoundedInduction, TLAPS

SolveRow(r) == ScoreRow(SolveRef(req[r].ec, req[r].team), req[r].team, req[r].points)
BloodRow(r) == ScoreRow(BloodRef(req[r].ec), req[r].team, FirstBloodBonus)
AwardRow(r) == ScoreRow(AwardRef(req[r].ref), req[r].team, req[r].points)

\* The solve's submission is inserted and not yet committed.
SubmissionOpen(r) ==
  /\ req[r] \in SolveReq
  /\ SubmissionKey(req[r].ec, req[r].team) \in held[r]
  /\ Submission(req[r].ec, req[r].team) \notin submissions
  /\ req[r].ec \in live
  /\ del[r] = {}

WantsBlood(r) == first[r] /\ FirstBloodBonus > 0

\* The stream side of each kind of transaction is complete.
SolveReady(r) ==
  /\ SubmissionOpen(r)
  /\ \/ WantsBlood(r) /\ ins[r] = {SolveRow(r), BloodRow(r)}
     \/ WantsBlood(r) /\ ins[r] = {SolveRow(r)} /\ Committed(BloodRef(req[r].ec))
     \/ ~WantsBlood(r) /\ ins[r] = {SolveRow(r)}

AwardReady(r) ==
  /\ req[r] \in AwardReq
  /\ ins[r] = {AwardRow(r)}
  /\ del[r] = {}

RevokeReady(r) ==
  /\ req[r] \in RevokeReq
  /\ ins[r] = {}
  /\ \E e \in score_events : /\ del[r] = {e}
                             /\ e.ref = AwardRef(req[r].ref)
                             /\ e.ref \in held[r]

EntryMoved(r) ==
  \/ /\ req[r] \in SolveReq
     /\ upd[r] = [team |-> req[r].team, points |-> req[r].points + BonusOf(r), solves |-> 1]
  \/ /\ req[r] \in AwardReq
     /\ upd[r] = [team |-> req[r].team, points |-> req[r].points, solves |-> 0]
  \/ /\ req[r] \in RevokeReq
     /\ \E e \in del[r] : upd[r] = [team |-> e.team, points |-> -e.points, solves |-> 0]

\* What an open transaction knows at each statement.
TxOK(r) ==
  /\ pc[r] = "idle" => req[r] = NoReq /\ held[r] = {}
  /\ pc[r] \in {"idle", "submission", "count", "event", "award", "delete"} => ins[r] = {}
  /\ pc[r] \in {"idle", "submission", "award", "delete"} => del[r] = {}
  /\ pc[r] = "submission" => req[r] \in SolveReq
  /\ pc[r] \in {"count", "event", "blood"} => SubmissionOpen(r)
  /\ pc[r] = "blood" => WantsBlood(r) /\ ins[r] = {SolveRow(r)}
  /\ pc[r] = "award" => req[r] \in AwardReq
  /\ pc[r] = "delete" => req[r] \in RevokeReq
  /\ pc[r] \in {"entry", "commit"} => SolveReady(r) \/ AwardReady(r) \/ RevokeReady(r)
  /\ pc[r] = "commit" => EntryMoved(r)
  /\ pc[r] \in {"event", "blood", "entry", "commit"} /\ req[r] \in SolveReq /\ ~first[r]
       => firstSolver[req[r].ec] # NoTeam
  /\ \A e \in ins[r] : e.ref \in held[r] /\ ~Committed(e.ref)

\* No key is held twice.
KeysExclusive == \A r, q \in Requests : r # q => held[r] \cap held[q] = {}

RefsUnique == \A e, f \in score_events : e.ref = f.ref => e = f

SolvedHasFirst == \A s \in submissions : firstSolver[s.ec] # NoTeam

IInv ==
  /\ TypeOK
  /\ KeysExclusive
  /\ RefsUnique
  /\ SubmissionsMatchLedger
  /\ SolvedHasFirst
  /\ FirstBloodToFirstSolver
  /\ \A r \in Requests : TxOK(r)

------------------------------------------------------------------------------
\* Handler q's transaction is as it was.
SameTx(q) ==
  /\ pc'[q] = pc[q]
  /\ req'[q] = req[q]
  /\ first'[q] = first[q]
  /\ ins'[q] = ins[q]
  /\ del'[q] = del[q]
  /\ upd'[q] = upd[q]
  /\ held'[q] = held[q]

\* A transaction knows what it knew while neither it nor a table changes.
LEMMA StableTx ==
  ASSUME NEW q \in Requests, TxOK(q), SameTx(q), UNCHANGED tables
  PROVE  TxOK(q)'
BY DEF TxOK, SameTx, tables, SubmissionOpen, SolveReady, AwardReady, RevokeReady,
       EntryMoved, WantsBlood, SolveRow, BloodRow, AwardRow, BonusOf, Committed

\* The initial state: empty tables, no transaction open.
LEMMA InitIInv == Init => IInv
BY NoValueAssumption, PointsAssumption
   DEF Init, IInv, TypeOK, KeysExclusive, RefsUnique, SubmissionsMatchLedger,
       SolvedHasFirst, FirstBloodToFirstSolver, TxOK, Committed, PCs

\* A step that touches handler r's transaction only.
LEMMA LocalStep ==
  ASSUME IInv, NEW r \in Requests, UNCHANGED tables, TypeOK', TxOK(r)',
         \A q \in Requests \ {r} : SameTx(q) /\ held'[r] \cap held[q] = {}
  PROVE  IInv'
<1>1. KeysExclusive'
  BY DEF IInv, KeysExclusive, SameTx
<1>2. RefsUnique' /\ SubmissionsMatchLedger' /\ SolvedHasFirst' /\ FirstBloodToFirstSolver'
  BY DEF IInv, tables, RefsUnique, SubmissionsMatchLedger, SolvedHasFirst,
         FirstBloodToFirstSolver, Committed
<1>3. \A q \in Requests : TxOK(q)'
  BY StableTx DEF IInv
<1>. QED  BY <1>1, <1>2, <1>3 DEF IInv

\* Ending a transaction without a commit leaves nothing behind.
LEMMA EndTxStep ==
  ASSUME IInv, NEW r \in Requests, EndTx(r), UNCHANGED tables
  PROVE  IInv'
<1>1. TypeOK'
  BY DEF IInv, TypeOK, EndTx, tables, PCs
<1>2. TxOK(r)'
  BY DEF IInv, TypeOK, EndTx, TxOK
<1>3. \A q \in Requests \ {r} : SameTx(q) /\ held'[r] \cap held[q] = {}
  BY DEF IInv, TypeOK, EndTx, SameTx
<1>. QED  BY <1>1, <1>2, <1>3, LocalStep

------------------------------------------------------------------------------
\* The statements before the commit, one lemma each.
LEMMA BeginStep ==
  ASSUME IInv, NEW r \in Requests, Begin(r)
  PROVE  IInv'
<1>1. PICK c \in SolveReq \cup AwardReq \cup RevokeReq :
        \/ c \in SolveReq /\ BeginSolve(r, c)
        \/ c \in AwardReq /\ BeginAward(r, c)
        \/ c \in RevokeReq /\ BeginRevoke(r, c)
  BY DEF Begin
<1>2. /\ pc[r] = "idle"
      /\ pc' = [pc EXCEPT ![r] = pc'[r]]
      /\ \/ c \in SolveReq /\ pc'[r] = "submission"
         \/ c \in AwardReq /\ pc'[r] = "award"
         \/ c \in RevokeReq /\ pc'[r] = "delete"
      /\ req' = [req EXCEPT ![r] = c]
      /\ UNCHANGED <<tables, first, ins, del, upd, held>>
  BY <1>1 DEF BeginSolve, BeginAward, BeginRevoke, Goto, IInv, TypeOK
<1>3. TypeOK'
  BY <1>2 DEF IInv, TypeOK, tables, PCs
<1>4. TxOK(r)'
  BY <1>2 DEF IInv, TypeOK, TxOK
<1>5. \A q \in Requests \ {r} : SameTx(q) /\ held'[r] \cap held[q] = {}
  BY <1>2 DEF IInv, TypeOK, SameTx, KeysExclusive
<1>. QED  BY <1>2, <1>3, <1>4, <1>5, LocalStep

\* The solve's key is taken, or the handler leaves.
LEMMA InsertSubmissionStep ==
  ASSUME IInv, NEW r \in Requests, InsertSubmission(r)
  PROVE  IInv'
<1> DEFINE c == req[r]
<1>1. CASE EndTx(r)
  BY <1>1, EndTxStep DEF InsertSubmission
<1>2. CASE /\ Submission(c.ec, c.team) \notin submissions /\ c.ec \in live
           /\ Goto(r, "submission", "count")
           /\ held' = [held EXCEPT ![r] = @ \cup {SubmissionKey(c.ec, c.team)}]
           /\ UNCHANGED <<req, first, ins, del, upd>>
  <2>1. c \in SolveReq /\ pc[r] = "submission"
    BY <1>2 DEF IInv, TxOK, Goto
  <2>2. UNCHANGED tables /\ Free(r, SubmissionKey(c.ec, c.team))
    BY DEF InsertSubmission
  <2>3. SubmissionKey(c.ec, c.team) \in Keys
    BY <2>1 DEF Keys, SubmissionKey, SolveReq
  <2>4. TypeOK'
    BY <1>2, <2>2, <2>3 DEF IInv, TypeOK, Goto, tables, PCs
  <2>5. TxOK(r)'
    <3>1. SubmissionOpen(r)'
      BY <1>2, <2>1, <2>2 DEF IInv, TypeOK, TxOK, SubmissionOpen, tables, Submission, SubmissionKey
    <3>. QED  BY <1>2, <2>1, <2>2, <3>1 DEF IInv, TypeOK, TxOK, Goto
  <2>6. \A q \in Requests \ {r} : SameTx(q) /\ held'[r] \cap held[q] = {}
    BY <1>2, <2>2 DEF IInv, TypeOK, SameTx, Goto, Free, KeysExclusive
  <2>. QED  BY <2>2, <2>4, <2>5, <2>6, LocalStep
<1>. QED  BY <1>1, <1>2 DEF InsertSubmission

\* A count other than one means somebody's solve is committed.
LEMMA CountSolvesStep ==
  ASSUME IInv, NEW r \in Requests, CountSolves(r)
  PROVE  IInv'
<1> DEFINE c == req[r]
<1>1. pc[r] = "count" /\ SubmissionOpen(r) /\ UNCHANGED tables
  BY DEF CountSolves, Goto, IInv, TxOK
<1>2. ASSUME ~first'[r] PROVE firstSolver[c.ec] # NoTeam
  <2>1. SolvesOf(c.ec) # {}
    <3>1. SUFFICES ASSUME SolvesOf(c.ec) = {} PROVE FALSE
      OBVIOUS
    <3>2. Cardinality(SolvesOf(c.ec)) = 0
      BY <3>1, FS_EmptySet
    <3>3. first'[r] = (Cardinality(SolvesOf(c.ec)) + 1 = 1)
      BY DEF CountSolves, IInv, TypeOK
    <3>4. Cardinality(SolvesOf(c.ec)) + 1 = 1
      BY <3>2
    <3>. QED  BY <3>3, <3>4, <1>2, Zenon
  <2>. QED  BY <2>1 DEF SolvesOf, IInv, SolvedHasFirst
<1>3. TypeOK'
  BY <1>1 DEF CountSolves, IInv, TypeOK, Goto, tables, PCs
<1>4. TxOK(r)'
  <2>1. SubmissionOpen(r)'
    BY <1>1 DEF CountSolves, SubmissionOpen, tables
  <2>. QED  BY <1>1, <1>2, <2>1 DEF CountSolves, IInv, TypeOK, TxOK, Goto, tables
<1>5. \A q \in Requests \ {r} : SameTx(q) /\ held'[r] \cap held[q] = {}
  BY DEF CountSolves, IInv, TypeOK, SameTx, Goto, KeysExclusive
<1>. QED  BY <1>1, <1>3, <1>4, <1>5, LocalStep

\* Refs, rows and keys are of their types.
LEMMA SolveRowType ==
  ASSUME NEW ec \in Challenges, NEW t \in Teams, NEW n \in Int
  PROVE  SolveRef(ec, t) \in RefIds /\ ScoreRow(SolveRef(ec, t), t, n) \in Row
<1>1. SolveRef(ec, t) \in RefIds
  BY DEF SolveRef, Ledger!SolveRef, RefIds
<1>. QED  BY <1>1 DEF ScoreRow, Ledger!ScoreRow, Row

\* The same for a first-blood row.
LEMMA BloodRowType ==
  ASSUME NEW ec \in Challenges, NEW t \in Teams, NEW n \in Int
  PROVE  BloodRef(ec) \in RefIds /\ ScoreRow(BloodRef(ec), t, n) \in Row
<1>1. BloodRef(ec) \in RefIds
  BY DEF BloodRef, Ledger!BloodRef, RefIds
<1>. QED  BY <1>1 DEF ScoreRow, Ledger!ScoreRow, Row

\* The same for an award row.
LEMMA AwardRowType ==
  ASSUME NEW p \in PluginRefs, NEW t \in Teams, NEW n \in Int
  PROVE  AwardRef(p) \in RefIds /\ ScoreRow(AwardRef(p), t, n) \in Row
<1>1. AwardRef(p) \in RefIds
  BY DEF AwardRef, Ledger!AwardRef, RefIds
<1>. QED  BY <1>1 DEF ScoreRow, Ledger!ScoreRow, Row

\* A row of the stream has the fields it is built from.
LEMMA RowFields ==
  ASSUME NEW ref, NEW t, NEW n
  PROVE  /\ ScoreRow(ref, t, n).ref = ref
         /\ ScoreRow(ref, t, n).team = t
         /\ ScoreRow(ref, t, n).points = n
BY DEF ScoreRow, Ledger!ScoreRow

\* The fields of a call.
LEMMA SolveReqFields ==
  ASSUME NEW c \in SolveReq
  PROVE  c.op = "solve" /\ c.ec \in Challenges /\ c.team \in Teams /\ c.points \in Int
<1>1. c.op = "solve" /\ c.ec \in Challenges /\ c.team \in Teams /\ c.points \in SolvePoints
  BY DEF SolveReq
<1>2. c.points \in Nat
  BY <1>1, PointsAssumption
<1>. QED  BY <1>1, <1>2

\* The fields of an award call.
LEMMA AwardReqFields ==
  ASSUME NEW c \in AwardReq
  PROVE  c.op = "award" /\ c.ref \in PluginRefs /\ c.team \in Teams /\ c.points \in Int
<1>1. c.op = "award" /\ c.ref \in PluginRefs /\ c.team \in Teams /\ c.points \in AwardPoints
  BY DEF AwardReq
<1>. QED  BY <1>1, PointsAssumption

\* The fields of a revocation.
LEMMA RevokeReqFields ==
  ASSUME NEW c \in RevokeReq
  PROVE  c.op = "revoke" /\ c.ref \in PluginRefs
BY DEF RevokeReq

\* The solve row is always new: its submission is.
LEMMA InsertSolveEventStep ==
  ASSUME IInv, NEW r \in Requests, InsertSolveEvent(r)
  PROVE  IInv'
<1> DEFINE c == req[r]
<1>1. /\ pc[r] = "event" /\ SubmissionOpen(r) /\ ins[r] = {} /\ UNCHANGED tables
      /\ pc' = [pc EXCEPT ![r] = IF WantsBlood(r) THEN "blood" ELSE "entry"]
      /\ UNCHANGED <<req, first, del, upd>>
  BY DEF InsertSolveEvent, Goto, IInv, TxOK, WantsBlood
<1>2. c \in SolveReq
  BY <1>1 DEF SubmissionOpen
<1>3. SolveRow(r).ref = SolveRef(c.ec, c.team) /\ SolveRow(r) \in Row /\ SolveRow(r).ref \in Keys
  BY <1>2, SolveReqFields, SolveRowType, RowFields DEF SolveRow, Keys
<1>4. ~Committed(SolveRow(r).ref)
  BY <1>1, <1>2, <1>3 DEF SubmissionOpen, IInv, SubmissionsMatchLedger, SolveReq
<1>5. /\ Free(r, SolveRow(r).ref)
      /\ ins' = [ins EXCEPT ![r] = @ \cup {SolveRow(r)}]
      /\ held' = [held EXCEPT ![r] = @ \cup {SolveRow(r).ref}]
  BY <1>4 DEF InsertSolveEvent, InsertScoreEvent, SolveRow
<1>6. TypeOK'
  BY <1>1, <1>3, <1>5 DEF IInv, TypeOK, tables, PCs
<1>7. TxOK(r)'
  <2>1. /\ ins'[r] = {SolveRow(r)} /\ held'[r] = held[r] \cup {SolveRow(r).ref}
        /\ pc'[r] = IF WantsBlood(r) THEN "blood" ELSE "entry"
        /\ SolveRow(r)' = SolveRow(r) /\ (WantsBlood(r))' = WantsBlood(r)
        /\ req'[r] = req[r] /\ first'[r] = first[r] /\ del'[r] = {}
    BY <1>1, <1>5 DEF IInv, TypeOK, SolveRow, WantsBlood, SubmissionOpen
  <2>2. SubmissionOpen(r)'
    BY <1>1, <2>1 DEF SubmissionOpen, tables
  <2>3. ~WantsBlood(r) => SolveReady(r)'
    BY <2>1, <2>2 DEF SolveReady
  <2>4. \A e \in ins'[r] : e.ref \in held'[r] /\ ~Committed(e.ref)'
    BY <1>1, <1>4, <2>1 DEF Committed, tables
  <2>5. ~first[r] => firstSolver[c.ec] # NoTeam
    BY <1>1, <1>2 DEF IInv, TxOK
  <2>. QED  BY <1>1, <2>1, <2>2, <2>3, <2>4, <2>5 DEF TxOK, tables
<1>8. \A q \in Requests \ {r} : SameTx(q) /\ held'[r] \cap held[q] = {}
  BY <1>1, <1>5 DEF IInv, TypeOK, SameTx, Free, KeysExclusive
<1>. QED  BY <1>1, <1>6, <1>7, <1>8, LocalStep

\* The first-blood row is inserted, or another's stays.
LEMMA InsertFirstBloodStep ==
  ASSUME IInv, NEW r \in Requests, InsertFirstBlood(r)
  PROVE  IInv'
<1> DEFINE c == req[r]
<1>1. /\ pc[r] = "blood" /\ SubmissionOpen(r) /\ WantsBlood(r) /\ ins[r] = {SolveRow(r)}
      /\ UNCHANGED tables
      /\ pc' = [pc EXCEPT ![r] = "entry"]
      /\ UNCHANGED <<req, first, del, upd>>
  BY DEF InsertFirstBlood, Goto, IInv, TxOK
<1>2. c \in SolveReq
  BY <1>1 DEF SubmissionOpen
<1>3. BloodRow(r).ref = BloodRef(c.ec) /\ BloodRow(r) \in Row /\ BloodRow(r).ref \in Keys
  BY <1>2, SolveReqFields, BloodRowType, RowFields, PointsAssumption DEF BloodRow, Keys
<1>4. \/ /\ Committed(BloodRef(c.ec)) /\ UNCHANGED <<ins, held>>
      \/ /\ ~Committed(BloodRow(r).ref)
         /\ Free(r, BloodRow(r).ref)
         /\ ins' = [ins EXCEPT ![r] = @ \cup {BloodRow(r)}]
         /\ held' = [held EXCEPT ![r] = @ \cup {BloodRow(r).ref}]
  BY <1>3 DEF InsertFirstBlood, InsertScoreEvent, BloodRow
<1>5. TypeOK'
  BY <1>1, <1>3, <1>4 DEF IInv, TypeOK, tables, PCs
<1>6. TxOK(r)'
  <2>1. /\ pc'[r] = "entry"
        /\ SolveRow(r)' = SolveRow(r) /\ BloodRow(r)' = BloodRow(r)
        /\ (WantsBlood(r))' = WantsBlood(r)
        /\ req'[r] = req[r] /\ first'[r] = first[r] /\ del'[r] = {}
        /\ held[r] \subseteq held'[r]
    BY <1>1, <1>4 DEF IInv, TypeOK, SolveRow, BloodRow, WantsBlood, SubmissionOpen
  <2>2. SubmissionOpen(r)'
    BY <1>1, <2>1 DEF SubmissionOpen, tables
  <2>3. SolveReady(r)' /\ \A e \in ins'[r] : e.ref \in held'[r] /\ ~Committed(e.ref)'
    <3>1. CASE Committed(BloodRef(c.ec)) /\ UNCHANGED <<ins, held>>
      BY <1>1, <2>1, <2>2, <3>1 DEF SolveReady, Committed, tables, IInv, TxOK
    <3>2. CASE /\ ~Committed(BloodRow(r).ref)
               /\ ins' = [ins EXCEPT ![r] = @ \cup {BloodRow(r)}]
               /\ held' = [held EXCEPT ![r] = @ \cup {BloodRow(r).ref}]
      <4>1. ins'[r] = {SolveRow(r), BloodRow(r)} /\ held'[r] = held[r] \cup {BloodRow(r).ref}
        BY <1>1, <3>2 DEF IInv, TypeOK
      <4>2. SolveRow(r).ref \in held[r] /\ ~Committed(SolveRow(r).ref)
        BY <1>1 DEF IInv, TxOK
      <4>. QED  BY <1>1, <2>1, <2>2, <3>2, <4>1, <4>2 DEF SolveReady, Committed, tables
    <3>. QED  BY <1>4, <3>1, <3>2
  <2>4. first[r]
    BY <1>1 DEF WantsBlood
  <2>. QED  BY <1>1, <2>1, <2>2, <2>3, <2>4 DEF TxOK
<1>7. \A q \in Requests \ {r} : SameTx(q) /\ held'[r] \cap held[q] = {}
  BY <1>1, <1>4 DEF IInv, TypeOK, SameTx, Free, KeysExclusive
<1>. QED  BY <1>1, <1>5, <1>6, <1>7, LocalStep

\* The award's row is inserted, or the handler ends at a taken ref.
LEMMA InsertAwardStep ==
  ASSUME IInv, NEW r \in Requests, InsertAward(r)
  PROVE  IInv'
<1> DEFINE c == req[r]
<1>1. CASE EndTx(r)
  BY <1>1, EndTxStep DEF InsertAward
<1>2. CASE /\ ~Committed(AwardRef(c.ref))
           /\ Goto(r, "award", "entry")
           /\ InsertScoreEvent(r, ScoreRow(AwardRef(c.ref), c.team, c.points))
           /\ UNCHANGED <<req, first, del, upd>>
  <2>1. /\ pc[r] = "award" /\ pc' = [pc EXCEPT ![r] = "entry"]
        /\ c \in AwardReq /\ ins[r] = {} /\ del[r] = {} /\ UNCHANGED tables
    BY <1>2 DEF IInv, TxOK, Goto, InsertAward
  <2>2. AwardRow(r).ref = AwardRef(c.ref) /\ AwardRow(r) \in Row /\ AwardRow(r).ref \in Keys
    BY <2>1, AwardReqFields, AwardRowType, RowFields DEF AwardRow, Keys
  <2>3. /\ Free(r, AwardRow(r).ref)
        /\ ins' = [ins EXCEPT ![r] = @ \cup {AwardRow(r)}]
        /\ held' = [held EXCEPT ![r] = @ \cup {AwardRow(r).ref}]
    BY <1>2, <2>2 DEF InsertScoreEvent, AwardRow
  <2>4. TypeOK'
    BY <1>2, <2>1, <2>2, <2>3 DEF IInv, TypeOK, tables, PCs
  <2>5. TxOK(r)'
    <3>1. /\ ins'[r] = {AwardRow(r)} /\ held'[r] = held[r] \cup {AwardRow(r).ref}
          /\ pc'[r] = "entry" /\ req'[r] = req[r] /\ del'[r] = {}
          /\ AwardRow(r)' = AwardRow(r)
      BY <1>2, <2>1, <2>3 DEF IInv, TypeOK, AwardRow
    <3>2. AwardReady(r)'
      BY <2>1, <3>1 DEF AwardReady
    <3>3. \A e \in ins'[r] : e.ref \in held'[r] /\ ~Committed(e.ref)'
      BY <1>2, <2>1, <2>2, <3>1 DEF Committed, tables
    <3>4. req'[r] \notin SolveReq
      BY <2>1, <3>1, AwardReqFields, SolveReqFields
    <3>. QED  BY <3>1, <3>2, <3>3, <3>4 DEF TxOK
  <2>6. \A q \in Requests \ {r} : SameTx(q) /\ held'[r] \cap held[q] = {}
    BY <1>2, <2>1, <2>3 DEF IInv, TypeOK, SameTx, Free, KeysExclusive
  <2>. QED  BY <2>1, <2>4, <2>5, <2>6, LocalStep
<1>. QED  BY <1>1, <1>2 DEF InsertAward

\* A revocation locks the row it removes.
LEMMA DeleteAwardStep ==
  ASSUME IInv, NEW r \in Requests, DeleteAward(r)
  PROVE  IInv'
<1> DEFINE rows == {e \in score_events : e.ref = AwardRef(req[r].ref)}
<1>1. CASE EndTx(r)
  BY <1>1, EndTxStep DEF DeleteAward
<1>2. CASE /\ rows # {}
           /\ Free(r, AwardRef(req[r].ref))
           /\ Goto(r, "delete", "entry")
           /\ del' = [del EXCEPT ![r] = rows]
           /\ held' = [held EXCEPT ![r] = @ \cup {AwardRef(req[r].ref)}]
           /\ UNCHANGED <<req, first, ins, upd>>
  <2>1. /\ pc[r] = "delete" /\ pc' = [pc EXCEPT ![r] = "entry"]
        /\ req[r] \in RevokeReq /\ ins[r] = {} /\ UNCHANGED tables
    BY <1>2 DEF IInv, TxOK, Goto, DeleteAward
  <2>2. PICK e \in score_events : e.ref = AwardRef(req[r].ref)
    BY <1>2
  <2>3. rows = {e}
    BY <2>2 DEF IInv, RefsUnique
  <2>4. e \in Row /\ e.ref \in Keys
    BY <2>2 DEF IInv, TypeOK, Row, Keys
  <2>5. TypeOK'
    BY <1>2, <2>1, <2>2, <2>3, <2>4 DEF IInv, TypeOK, tables, PCs
  <2>6. TxOK(r)'
    <3>1. /\ del'[r] = {e} /\ held'[r] = held[r] \cup {e.ref}
          /\ pc'[r] = "entry" /\ req'[r] = req[r] /\ ins'[r] = {}
      BY <1>2, <2>1, <2>2, <2>3 DEF IInv, TypeOK
    <3>2. RevokeReady(r)'
      BY <2>1, <2>2, <3>1 DEF RevokeReady, tables
    <3>3. req'[r] \notin SolveReq
      BY <2>1, <3>1, RevokeReqFields, SolveReqFields
    <3>. QED  BY <3>1, <3>2, <3>3 DEF TxOK
  <2>7. \A q \in Requests \ {r} : SameTx(q) /\ held'[r] \cap held[q] = {}
    BY <1>2, <2>1 DEF IInv, TypeOK, SameTx, Free, KeysExclusive
  <2>. QED  BY <2>1, <2>5, <2>6, <2>7, LocalStep
<1>. QED  BY <1>1, <1>2 DEF DeleteAward

\* The three statements on scoreboard_entries.
MoveStep(r, team, points, solves) ==
  /\ Goto(r, "entry", "commit")
  /\ MoveEntry(r, team, points, solves)
  /\ UNCHANGED <<tables, req, first, ins, del>>

\* A standing moves by what the transaction has put into the stream.
LEMMA MoveEntryStep ==
  ASSUME IInv, NEW r \in Requests,
         NEW t \in Teams, NEW n \in Int, NEW s \in {0, 1}, MoveStep(r, t, n, s),
         EntryMoved(r)'
  PROVE  IInv'
<1>1. /\ pc[r] = "entry" /\ pc' = [pc EXCEPT ![r] = "commit"]
      /\ UNCHANGED <<tables, req, first, ins, del>> /\ UNCHANGED tables
      /\ Free(r, EntryKey(t))
      /\ upd' = [upd EXCEPT ![r] = [team |-> t, points |-> n, solves |-> s]]
      /\ held' = [held EXCEPT ![r] = @ \cup {EntryKey(t)}]
  BY DEF MoveStep, Goto, MoveEntry
<1>2. EntryKey(t) \in Keys
  BY DEF EntryKey, Keys
<1>3. TypeOK'
  BY <1>1, <1>2 DEF IInv, TypeOK, tables, PCs
<1>4. TxOK(r)'
  <2>1. held[r] \subseteq held'[r] /\ pc'[r] = "commit"
    BY <1>1 DEF IInv, TypeOK
  <2>2. SolveReady(r)' \/ AwardReady(r)' \/ RevokeReady(r)'
    <3>1. CASE SolveReady(r)
      BY <1>1, <2>1, <3>1 DEF SolveReady, SubmissionOpen, WantsBlood, SolveRow, BloodRow,
                              Committed, tables
    <3>2. CASE AwardReady(r)
      BY <1>1, <2>1, <3>2 DEF AwardReady, AwardRow
    <3>3. CASE RevokeReady(r)
      BY <1>1, <2>1, <3>3 DEF RevokeReady, tables
    <3>. QED  BY <1>1, <3>1, <3>2, <3>3 DEF IInv, TxOK
  <2>3. req'[r] \in SolveReq /\ ~first'[r] => firstSolver'[req'[r].ec] # NoTeam
    BY <1>1 DEF IInv, TxOK, tables
  <2>4. \A e \in ins'[r] : e.ref \in held'[r] /\ ~Committed(e.ref)'
    BY <1>1, <2>1 DEF IInv, TxOK, Committed, tables
  <2>. QED  BY <2>1, <2>2, <2>3, <2>4 DEF TxOK
<1>5. \A q \in Requests \ {r} : SameTx(q) /\ held'[r] \cap held[q] = {}
  BY <1>1 DEF IInv, TypeOK, SameTx, Free, KeysExclusive
<1>. QED  BY <1>1, <1>3, <1>4, <1>5, LocalStep

\* At "entry" and "commit" the call's op tells which transaction it is.
LEMMA ReadyByOp ==
  ASSUME IInv, NEW r \in Requests, pc[r] \in {"entry", "commit"}
  PROVE  /\ req[r].op = "solve" => req[r] \in SolveReq /\ SolveReady(r)
         /\ req[r].op = "award" => req[r] \in AwardReq /\ AwardReady(r)
         /\ req[r].op = "revoke" => req[r] \in RevokeReq /\ RevokeReady(r)
         /\ req[r].op \in {"solve", "award", "revoke"}
<1>1. SolveReady(r) \/ AwardReady(r) \/ RevokeReady(r)
  BY DEF IInv, TxOK
<1>2. SolveReady(r) => req[r] \in SolveReq /\ req[r].op = "solve"
  BY SolveReqFields DEF SolveReady, SubmissionOpen
<1>3. AwardReady(r) => req[r] \in AwardReq /\ req[r].op = "award"
  BY AwardReqFields DEF AwardReady
<1>4. RevokeReady(r) => req[r] \in RevokeReq /\ req[r].op = "revoke"
  BY RevokeReqFields DEF RevokeReady
<1>. QED  BY <1>1, <1>2, <1>3, <1>4

\* The solve's upsert is such a move.
LEMMA UpsertSolveEntryStep ==
  ASSUME IInv, NEW r \in Requests, UpsertSolveEntry(r)
  PROVE  IInv'
<1>1. req[r] \in SolveReq
  BY ReadyByOp DEF UpsertSolveEntry, Goto
<1>2. BonusOf(r) \in Int
  BY PointsAssumption DEF BonusOf
<1>3. req[r].team \in Teams /\ req[r].points \in Int
  BY <1>1, SolveReqFields
<1>4. req[r].points + BonusOf(r) \in Int
  BY <1>2, <1>3
<1>5. MoveStep(r, req[r].team, req[r].points + BonusOf(r), 1)
  BY DEF UpsertSolveEntry, MoveStep
<1>6. EntryMoved(r)'
  BY <1>1, <1>5 DEF MoveStep, MoveEntry, EntryMoved, BonusOf, IInv, TypeOK
<1>. QED  BY <1>3, <1>4, <1>5, <1>6, MoveEntryStep

\* The award's upsert is such a move.
LEMMA UpsertAwardEntryStep ==
  ASSUME IInv, NEW r \in Requests, UpsertAwardEntry(r)
  PROVE  IInv'
<1>1. req[r] \in AwardReq
  BY ReadyByOp DEF UpsertAwardEntry, Goto
<1>2. req[r].team \in Teams /\ req[r].points \in Int
  BY <1>1, AwardReqFields
<1>3. MoveStep(r, req[r].team, req[r].points, 0)
  BY DEF UpsertAwardEntry, MoveStep
<1>4. EntryMoved(r)'
  BY <1>1, <1>3 DEF MoveStep, MoveEntry, EntryMoved, IInv, TypeOK
<1>. QED  BY <1>2, <1>3, <1>4, MoveEntryStep

\* The revocation's update is such a move.
LEMMA DebitEntryStep ==
  ASSUME IInv, NEW r \in Requests, DebitEntry(r)
  PROVE  IInv'
<1>1. req[r] \in RevokeReq
  BY ReadyByOp DEF DebitEntry, Goto
<1>2. PICK e \in del[r] : MoveStep(r, e.team, -e.points, 0)
  BY DEF DebitEntry, MoveStep
<1>3. e \in Row
  BY DEF IInv, TypeOK
<1>4. e.team \in Teams /\ e.points \in Int
  BY <1>3 DEF Row
<1>5. -e.points \in Int
  BY <1>4
<1>6. EntryMoved(r)'
  BY <1>1, <1>2 DEF MoveStep, MoveEntry, EntryMoved, IInv, TypeOK
<1>. QED  BY <1>2, <1>4, <1>5, <1>6, MoveEntryStep

\* BulkApply's delete waits for the solves in flight, so it takes nothing that
\* an open transaction relies on.
LEMMA DeleteChallengeStep ==
  ASSUME IInv, NEW ec \in Challenges, DeleteChallenge(ec)
  PROVE  IInv'
<1>1. UNCHANGED <<score_events, entries, firstSolver, pc, req, first, ins, del, upd, held>>
  BY DEF DeleteChallenge, txvars
<1>2. live' = live \ {ec} /\ submissions' = submissions \ SolvesOf(ec)
  BY DEF DeleteChallenge
<1>3. TypeOK'
  BY <1>1, <1>2 DEF IInv, TypeOK
<1>4. KeysExclusive' /\ RefsUnique' /\ SolvedHasFirst' /\ FirstBloodToFirstSolver'
  BY <1>1, <1>2 DEF IInv, KeysExclusive, RefsUnique, SolvedHasFirst,
                    FirstBloodToFirstSolver, Committed
<1>5. SubmissionsMatchLedger'
  BY <1>1, <1>2 DEF IInv, SubmissionsMatchLedger, Committed, SolvesOf, Submission
<1>6. ASSUME NEW q \in Requests PROVE TxOK(q)'
  <2>1. SubmissionOpen(q) => SubmissionOpen(q)'
    <3>1. SUFFICES ASSUME SubmissionOpen(q) PROVE req[q].ec # ec
      BY <1>1, <1>2 DEF SubmissionOpen
    <3>2. req[q].team \in Teams
      BY <3>1, SolveReqFields DEF SubmissionOpen
    <3>. QED  BY <3>1, <3>2 DEF SubmissionOpen, DeleteChallenge
  <2>2. SolveReady(q) => SolveReady(q)'
    BY <1>1, <2>1 DEF SolveReady, WantsBlood, SolveRow, BloodRow, Committed
  <2>3. AwardReady(q) => AwardReady(q)'
    BY <1>1 DEF AwardReady, AwardRow
  <2>4. RevokeReady(q) => RevokeReady(q)'
    BY <1>1 DEF RevokeReady
  <2>5. EntryMoved(q) => EntryMoved(q)'
    BY <1>1 DEF EntryMoved, BonusOf
  <2>6. TxOK(q)
    BY DEF IInv
  <2>. QED  BY <1>1, <2>1, <2>2, <2>3, <2>4, <2>5, <2>6 DEF TxOK, WantsBlood, SolveRow, Committed
<1>. QED  BY <1>3, <1>4, <1>5, <1>6 DEF IInv

------------------------------------------------------------------------------
(***************************************************************************)
(* The commit.                                                             *)
(***************************************************************************)

\* Refs of different kinds, or of different challenges or teams, differ.
LEMMA RefsDiffer ==
  ASSUME NEW ec, NEW t, NEW p, NEW ec2, NEW t2
  PROVE  /\ SolveRef(ec, t) # BloodRef(ec2)
         /\ SolveRef(ec, t) # AwardRef(p)
         /\ BloodRef(ec) # AwardRef(p)
         /\ SolveRef(ec, t) = SolveRef(ec2, t2) => ec = ec2 /\ t = t2
         /\ BloodRef(ec) = BloodRef(ec2) => ec = ec2
<1>1. SolveRef(ec, t).kind = "solve" /\ SolveRef(ec, t).ec = ec /\ SolveRef(ec, t).team = t
  BY DEF SolveRef, Ledger!SolveRef
<1>2. SolveRef(ec2, t2).ec = ec2 /\ SolveRef(ec2, t2).team = t2
  BY DEF SolveRef, Ledger!SolveRef
<1>3. BloodRef(ec).kind = "firstblood" /\ BloodRef(ec).ec = ec
  BY DEF BloodRef, Ledger!BloodRef
<1>4. BloodRef(ec2).kind = "firstblood" /\ BloodRef(ec2).ec = ec2
  BY DEF BloodRef, Ledger!BloodRef
<1>5. AwardRef(p).kind = "plugin"
  BY DEF AwardRef, Ledger!AwardRef
<1>. QED  BY <1>1, <1>2, <1>3, <1>4, <1>5

\* What a transaction about to commit has written.
LEMMA CommitFacts ==
  ASSUME IInv, NEW r \in Requests, pc[r] = "commit"
  PROVE  /\ upd[r] \in [team : Teams, points : Int, solves : {0, 1}]
         /\ ins[r] \subseteq Row
         /\ \A e \in ins[r] : e.ref \in held[r] /\ ~Committed(e.ref)
         /\ \A e, f \in ins[r] : e.ref = f.ref => e = f
         /\ \A e \in del[r] : /\ e \in score_events /\ e.ref \in held[r]
                              /\ \E p \in PluginRefs : e.ref = AwardRef(p)
<1>1. ins[r] \subseteq Row /\ \A e \in ins[r] : e.ref \in held[r] /\ ~Committed(e.ref)
  BY DEF IInv, TypeOK, TxOK
<1>2. upd[r] \in [team : Teams, points : Int, solves : {0, 1}]
  <2>1. EntryMoved(r)
    BY DEF IInv, TxOK
  <2>2. CASE /\ req[r] \in SolveReq
             /\ upd[r] = [team |-> req[r].team, points |-> req[r].points + BonusOf(r), solves |-> 1]
    <3>1. BonusOf(r) \in Int
      BY PointsAssumption DEF BonusOf
    <3>. QED  BY <2>2, <3>1, SolveReqFields
  <2>3. CASE /\ req[r] \in AwardReq
             /\ upd[r] = [team |-> req[r].team, points |-> req[r].points, solves |-> 0]
    BY <2>3, AwardReqFields
  <2>4. CASE \E e \in del[r] : upd[r] = [team |-> e.team, points |-> -e.points, solves |-> 0]
    <3>1. PICK e \in del[r] : upd[r] = [team |-> e.team, points |-> -e.points, solves |-> 0]
      BY <2>4
    <3>2. e \in Row
      BY DEF IInv, TypeOK
    <3>. QED  BY <3>1, <3>2 DEF Row
  <2>. QED  BY <2>1, <2>2, <2>3, <2>4 DEF EntryMoved
<1>3. \A e, f \in ins[r] : e.ref = f.ref => e = f
  <2>1. CASE SolveReady(r)
    <3>1. ins[r] \subseteq {SolveRow(r), BloodRow(r)}
      BY <2>1 DEF SolveReady
    <3>2. SolveRow(r).ref # BloodRow(r).ref
      BY RowFields, RefsDiffer DEF SolveRow, BloodRow
    <3>. QED  BY <3>1, <3>2
  <2>2. CASE AwardReady(r)
    BY <2>2 DEF AwardReady
  <2>3. CASE RevokeReady(r)
    BY <2>3 DEF RevokeReady
  <2>. QED  BY <2>1, <2>2, <2>3 DEF IInv, TxOK
<1>4. \A e \in del[r] : /\ e \in score_events /\ e.ref \in held[r]
                        /\ \E p \in PluginRefs : e.ref = AwardRef(p)
  <2>1. CASE SolveReady(r)
    BY <2>1 DEF SolveReady, SubmissionOpen
  <2>2. CASE AwardReady(r)
    BY <2>2 DEF AwardReady
  <2>3. CASE RevokeReady(r)
    BY <2>3, RevokeReqFields DEF RevokeReady
  <2>. QED  BY <2>1, <2>2, <2>3 DEF IInv, TxOK
<1>. QED  BY <1>1, <1>2, <1>3, <1>4

\* Which refs a commit adds and removes.
LEMMA CommitRefs ==
  ASSUME IInv, NEW r \in Requests, Commit(r), NEW ref
  PROVE  /\ Committed(ref)' => Committed(ref) \/ \E e \in ins[r] : e.ref = ref
         /\ (\E e \in ins[r] : e.ref = ref) => Committed(ref)'
         /\ Committed(ref) /\ (\A p \in PluginRefs : ref # AwardRef(p)) => Committed(ref)'
BY CommitFacts DEF Commit, Committed

\* The other transactions keep what they know: the keys they hold are not the
\* ones this commit wrote.
LEMMA CommitOthers ==
  ASSUME IInv, NEW r \in Requests, Commit(r), NEW q \in Requests, q # r
  PROVE  TxOK(q)'
<1>1. TxOK(q) /\ pc[r] = "commit"
  BY DEF IInv, Commit
<1>2. SameTx(q)
  BY DEF IInv, TypeOK, Commit, EndTx, SameTx
<1>3. live' = live /\ held[r] \cap held[q] = {}
  BY DEF Commit, IInv, KeysExclusive
<1>4. \A ec \in Challenges : firstSolver[ec] # NoTeam => firstSolver'[ec] # NoTeam
  BY DEF Commit, IInv, TypeOK
<1>5. SubmissionOpen(q) => SubmissionOpen(q)'
  <2>1. SUFFICES ASSUME SubmissionOpen(q)
                 PROVE  Submission(req[q].ec, req[q].team) \notin submissions'
    BY <1>2, <1>3 DEF SubmissionOpen, SameTx
  <2>2. CASE req[r].op = "solve"
    <3>1. SubmissionOpen(r) /\ submissions' = submissions \cup {Submission(req[r].ec, req[r].team)}
      BY <1>1, <2>2, ReadyByOp DEF Commit, SolveReady
    <3>2. SubmissionKey(req[q].ec, req[q].team) # SubmissionKey(req[r].ec, req[r].team)
      BY <1>3, <2>1, <3>1 DEF SubmissionOpen
    <3>3. Submission(req[q].ec, req[q].team) # Submission(req[r].ec, req[r].team)
      BY <3>2 DEF Submission, SubmissionKey
    <3>. QED  BY <2>1, <3>1, <3>3 DEF SubmissionOpen
  <2>3. CASE req[r].op # "solve"
    BY <2>1, <2>3 DEF Commit, SubmissionOpen
  <2>. QED  BY <2>2, <2>3
<1>6. SolveRow(q)' = SolveRow(q) /\ BloodRow(q)' = BloodRow(q) /\ AwardRow(q)' = AwardRow(q)
  BY <1>2 DEF SameTx, SolveRow, BloodRow, AwardRow
<1>7. \A ec : Committed(BloodRef(ec)) => Committed(BloodRef(ec))'
  BY CommitRefs, RefsDiffer
<1>8. SolveReady(q) => SolveReady(q)'
  BY <1>2, <1>5, <1>6, <1>7 DEF SolveReady, WantsBlood, SameTx
<1>9. AwardReady(q) => AwardReady(q)'
  BY <1>2, <1>6 DEF AwardReady, SameTx
<1>10. RevokeReady(q) => RevokeReady(q)'
  <2>1. SUFFICES ASSUME NEW e \in score_events, e.ref \in held[q]
                 PROVE  e \in score_events'
    BY <1>2 DEF RevokeReady, SameTx
  <2>2. e \notin del[r]
    BY <1>1, <1>3, <2>1, CommitFacts
  <2>. QED  BY <2>2 DEF Commit
<1>11. EntryMoved(q) => EntryMoved(q)'
  BY <1>2 DEF EntryMoved, BonusOf, SameTx
<1>12. \A e \in ins[q] : e.ref \in held'[q] /\ ~Committed(e.ref)'
  <2>1. TAKE e \in ins[q]
  <2>2. e.ref \in held[q] /\ ~Committed(e.ref)
    BY <1>1 DEF TxOK
  <2>3. ~ \E f \in ins[r] : f.ref = e.ref
    BY <1>1, <1>3, <2>2, CommitFacts
  <2>. QED  BY <1>2, <2>2, <2>3, CommitRefs DEF SameTx
<1>13. pc[q] \in {"event", "blood", "entry", "commit"} /\ req[q] \in SolveReq /\ ~first[q]
         => firstSolver'[req[q].ec] # NoTeam
  BY <1>1, <1>4, SolveReqFields DEF TxOK
<1>. QED
  BY <1>1, <1>2, <1>5, <1>6, <1>8, <1>9, <1>10, <1>11, <1>12, <1>13 DEF TxOK, SameTx, WantsBlood

\* The tables after the commit of a solve.
LEMMA CommitSolve ==
  ASSUME IInv, NEW r \in Requests, Commit(r), req[r].op = "solve"
  PROVE  SubmissionsMatchLedger' /\ SolvedHasFirst' /\ FirstBloodToFirstSolver'
<1> DEFINE c == req[r]
<1>1. pc[r] = "commit" /\ c \in SolveReq /\ SolveReady(r) /\ SubmissionOpen(r) /\ del[r] = {}
  BY ReadyByOp DEF Commit, SolveReady, SubmissionOpen
<1>2. c.ec \in Challenges /\ c.team \in Teams /\ c.team # NoTeam
  BY <1>1, SolveReqFields, NoValueAssumption
<1>3. /\ live' = live
      /\ score_events' = score_events \cup ins[r]
      /\ submissions' = submissions \cup {Submission(c.ec, c.team)}
      /\ firstSolver' = [firstSolver EXCEPT ![c.ec] = IF @ = NoTeam THEN c.team ELSE @]
  BY <1>1 DEF Commit
<1>4. ins[r] \subseteq {SolveRow(r), BloodRow(r)} /\ SolveRow(r) \in ins[r]
  BY <1>1 DEF SolveReady
<1>5. /\ SolveRow(r).ref = SolveRef(c.ec, c.team)
      /\ BloodRow(r).ref = BloodRef(c.ec) /\ BloodRow(r).team = c.team
  BY RowFields DEF SolveRow, BloodRow
<1>6. SubmissionsMatchLedger'
  <2>1. ASSUME NEW ec \in Challenges, NEW t \in Teams
        PROVE  Committed(SolveRef(ec, t))' <=>
                 Committed(SolveRef(ec, t)) \/ (ec = c.ec /\ t = c.team)
    BY <1>4, <1>5, CommitRefs, RefsDiffer
  <2>2. ASSUME NEW ec \in Challenges, NEW t \in Teams
        PROVE  Submission(ec, t) \in submissions' <=>
                 Submission(ec, t) \in submissions \/ (ec = c.ec /\ t = c.team)
    BY <1>3 DEF Submission
  <2>. QED  BY <1>3, <2>1, <2>2 DEF SubmissionsMatchLedger, IInv
<1>7. SolvedHasFirst'
  <2>1. SUFFICES ASSUME NEW s \in submissions' PROVE firstSolver'[s.ec] # NoTeam
    BY DEF SolvedHasFirst
  <2>2. CASE s \in submissions
    <3>1. s.ec \in Challenges /\ firstSolver[s.ec] # NoTeam
      BY <2>2 DEF IInv, TypeOK, SolvedHasFirst
    <3>. QED  BY <1>2, <1>3, <3>1 DEF IInv, TypeOK
  <2>3. CASE s = Submission(c.ec, c.team)
    BY <1>2, <1>3, <2>3 DEF IInv, TypeOK, Submission
  <2>. QED  BY <1>3, <2>2, <2>3
<1>8. FirstBloodToFirstSolver'
  <2>1. SUFFICES ASSUME NEW ec \in Challenges
                 PROVE  /\ \A e \in score_events' : e.ref = BloodRef(ec) => e.team = firstSolver'[ec]
                        /\ FirstBloodBonus > 0 /\ firstSolver'[ec] # NoTeam
                             => Committed(BloodRef(ec))'
    BY DEF FirstBloodToFirstSolver
  <2>2. /\ \A e \in score_events : e.ref = BloodRef(ec) => e.team = firstSolver[ec]
        /\ FirstBloodBonus > 0 /\ firstSolver[ec] # NoTeam => Committed(BloodRef(ec))
    BY DEF IInv, FirstBloodToFirstSolver
  <2>3. Committed(BloodRef(ec)) => Committed(BloodRef(ec))'
    BY CommitRefs, RefsDiffer
  <2>4. CASE ec # c.ec
    <3>1. firstSolver'[ec] = firstSolver[ec]
      BY <1>3, <2>4 DEF IInv, TypeOK
    <3>2. \A e \in ins[r] : e.ref # BloodRef(ec)
      BY <1>4, <1>5, <2>4, RefsDiffer
    <3>. QED  BY <1>3, <2>2, <2>3, <3>1, <3>2
  <2>5. CASE ec = c.ec /\ firstSolver[ec] # NoTeam
    <3>1. firstSolver'[ec] = firstSolver[ec]
      BY <1>3, <2>5 DEF IInv, TypeOK
    <3>2. \A e \in ins[r] : e.ref # BloodRef(ec)
      <4>1. BloodRow(r) \notin ins[r]
        <5>1. CASE FirstBloodBonus > 0
          <6>1. Committed(BloodRow(r).ref)
            BY <1>5, <2>2, <2>5, <5>1
          <6>. QED  BY <1>1, <6>1, CommitFacts
        <5>2. CASE ~(FirstBloodBonus > 0)
          <6>1. ins[r] = {SolveRow(r)}
            BY <1>1, <5>2 DEF SolveReady, WantsBlood
          <6>. QED  BY <1>5, <6>1, RefsDiffer
        <5>. QED  BY <5>1, <5>2
      <4>. QED  BY <1>4, <1>5, <4>1, RefsDiffer
    <3>. QED  BY <1>3, <2>2, <2>3, <3>1, <3>2
  <2>6. CASE ec = c.ec /\ firstSolver[ec] = NoTeam
    <3>1. firstSolver'[ec] = c.team
      BY <1>3, <2>6 DEF IInv, TypeOK
    <3>2. \A e \in score_events : e.ref # BloodRef(ec)
      <4>1. \A e \in score_events : e.team \in Teams
        BY DEF IInv, TypeOK, Row
      <4>. QED  BY <2>2, <2>6, <4>1, NoValueAssumption
    <3>3. first[r]
      BY <1>1, <2>6 DEF IInv, TxOK
    <3>4. FirstBloodBonus > 0 => BloodRow(r) \in ins[r]
      BY <1>1, <2>6, <3>2, <3>3 DEF SolveReady, WantsBlood, Committed
    <3>5. FirstBloodBonus > 0 => Committed(BloodRef(ec))'
      BY <1>5, <2>6, <3>4, CommitRefs
    <3>6. \A e \in ins[r] : e.ref = BloodRef(ec) => e.team = c.team
      BY <1>4, <1>5, <2>6, RefsDiffer
    <3>. QED  BY <1>3, <3>1, <3>2, <3>5, <3>6
  <2>. QED  BY <2>4, <2>5, <2>6
<1>. QED  BY <1>6, <1>7, <1>8

\* The tables after the commit of an award or of its removal.
LEMMA CommitPlugin ==
  ASSUME IInv, NEW r \in Requests, Commit(r), req[r].op # "solve"
  PROVE  SubmissionsMatchLedger' /\ SolvedHasFirst' /\ FirstBloodToFirstSolver'
<1>1. pc[r] = "commit" /\ UNCHANGED <<live, submissions, firstSolver>>
  BY DEF Commit
<1>2. AwardReady(r) \/ RevokeReady(r)
  BY <1>1, ReadyByOp
<1>3. \A e \in ins[r] : \E p \in PluginRefs : e.ref = AwardRef(p)
  BY <1>2, RowFields, AwardReqFields DEF AwardReady, RevokeReady, AwardRow
<1>4. \A ec, t : Committed(SolveRef(ec, t))' <=> Committed(SolveRef(ec, t))
  BY <1>3, CommitRefs, RefsDiffer
<1>5. \A ec : Committed(BloodRef(ec))' <=> Committed(BloodRef(ec))
  BY <1>3, CommitRefs, RefsDiffer
<1>6. SubmissionsMatchLedger' /\ SolvedHasFirst'
  BY <1>1, <1>4 DEF IInv, SubmissionsMatchLedger, SolvedHasFirst
<1>7. FirstBloodToFirstSolver'
  <2>1. ASSUME NEW ec \in Challenges, NEW e \in score_events', e.ref = BloodRef(ec)
        PROVE  e \in score_events
    BY <1>3, <2>1, RefsDiffer DEF Commit
  <2>. QED  BY <1>1, <1>5, <2>1 DEF IInv, FirstBloodToFirstSolver
<1>. QED  BY <1>6, <1>7

\* A commit makes row and standing visible together.
LEMMA CommitStep ==
  ASSUME IInv, NEW r \in Requests, Commit(r)
  PROVE  IInv'
<1>1. pc[r] = "commit" /\ EndTx(r)
  BY DEF Commit
<1>2. TypeOK'
  <2>1. EndTx(r) => /\ pc' \in [Requests -> PCs]
                    /\ req' \in [Requests -> SolveReq \cup AwardReq \cup RevokeReq \cup {NoReq}]
                    /\ first' \in [Requests -> BOOLEAN]
                    /\ ins' \in [Requests -> SUBSET Row]
                    /\ del' \in [Requests -> SUBSET Row]
                    /\ upd' \in [Requests -> [team : Teams, points : Int, solves : {0, 1}] \cup {NoUpd}]
                    /\ held' \in [Requests -> SUBSET Keys]
    BY DEF IInv, TypeOK, EndTx, PCs
  <2>2. live' \subseteq Challenges /\ score_events' \subseteq Row
    BY <1>1, CommitFacts DEF Commit, IInv, TypeOK
  <2>3. entries' \in [Teams -> [points : Int, solves : Nat]]
    <3>1. upd[r].team \in Teams /\ upd[r].points \in Int /\ upd[r].solves \in Nat
      BY <1>1, CommitFacts
    <3>2. \A t \in Teams : entries[t].points \in Int /\ entries[t].solves \in Nat
      BY DEF IInv, TypeOK
    <3>3. [points |-> entries[upd[r].team].points + upd[r].points,
           solves |-> entries[upd[r].team].solves + upd[r].solves] \in [points : Int, solves : Nat]
      BY <3>1, <3>2
    <3>. QED  BY <3>1, <3>3 DEF Commit, IInv, TypeOK
  <2>4. /\ submissions' \subseteq [ec : Challenges, team : Teams]
        /\ firstSolver' \in [Challenges -> Teams \cup {NoTeam}]
    <3>1. CASE req[r].op = "solve"
      <4>1. req[r].ec \in Challenges /\ req[r].team \in Teams
        BY <1>1, <3>1, ReadyByOp, SolveReqFields
      <4>. QED  BY <3>1, <4>1 DEF Commit, IInv, TypeOK, Submission
    <3>2. CASE req[r].op # "solve"
      BY <3>2 DEF Commit, IInv, TypeOK
    <3>. QED  BY <3>1, <3>2
  <2>. QED  BY <1>1, <2>1, <2>2, <2>3, <2>4 DEF TypeOK
<1>3. KeysExclusive'
  BY <1>1 DEF IInv, TypeOK, KeysExclusive, EndTx
<1>4. RefsUnique'
  BY <1>1, CommitFacts DEF IInv, RefsUnique, Commit, Committed
<1>5. SubmissionsMatchLedger' /\ SolvedHasFirst' /\ FirstBloodToFirstSolver'
  BY CommitSolve, CommitPlugin
<1>6. TxOK(r)'
  BY <1>1 DEF IInv, TypeOK, EndTx, TxOK
<1>. QED  BY <1>2, <1>3, <1>4, <1>5, <1>6, CommitOthers DEF IInv

\* IInv is inductive.
LEMMA NextIInv == IInv /\ [Next]_vars => IInv'
<1>1. SUFFICES ASSUME IInv, [Next]_vars PROVE IInv'
  OBVIOUS
<1>2. ASSUME NEW r \in Requests, Begin(r) PROVE IInv'
  BY <1>1, <1>2, BeginStep
<1>3. ASSUME NEW r \in Requests, Step(r) PROVE IInv'
  BY <1>1, <1>3, InsertSubmissionStep, CountSolvesStep, InsertSolveEventStep,
     InsertFirstBloodStep, UpsertSolveEntryStep, InsertAwardStep, UpsertAwardEntryStep,
     DeleteAwardStep, DebitEntryStep, CommitStep DEF Step
<1>4. ASSUME NEW r \in Requests, Fail(r) PROVE IInv'
  BY <1>1, <1>4, EndTxStep DEF Fail
<1>5. ASSUME NEW ec \in Challenges, DeleteChallenge(ec) PROVE IInv'
  BY <1>1, <1>5, DeleteChallengeStep
<1>6. CASE UNCHANGED vars
  <2>1. UNCHANGED tables /\ \A q \in Requests : SameTx(q)
    BY <1>6 DEF vars, tables, SameTx
  <2>2. \A q \in Requests : TxOK(q)'
    BY <1>1, <2>1, StableTx DEF IInv
  <2>. QED
    BY <1>1, <1>6, <2>2 DEF vars, IInv, TypeOK, KeysExclusive, RefsUnique, SubmissionsMatchLedger,
       SolvedHasFirst, FirstBloodToFirstSolver, Committed
<1>. QED  BY <1>1, <1>2, <1>3, <1>4, <1>5, <1>6 DEF Next

\* The inductive invariant of the transactions holds of every behaviour.
THEOREM Invariance == Spec => []IInv
BY InitIInv, NextIInv, PTL DEF Spec

\* Every table and transaction buffer keeps its schema.
THEOREM TypeCorrect == Spec => []TypeOK
<1>1. IInv => TypeOK
  BY DEF IInv
<1>. QED  BY Invariance, <1>1, PTL

\* With any number of concurrent solvers, the first-blood row of a challenge goes
\* to the team whose solve RecordSolve committed first, and to nobody else.
THEOREM FirstBloodCorrect == Spec => []FirstBloodToFirstSolver
<1>1. IInv => FirstBloodToFirstSolver
  BY DEF IInv
<1>. QED  BY Invariance, <1>1, PTL

\* A committed submission and its row in the score stream come and stay together.
THEOREM SubmissionsCorrect == Spec => []SubmissionsMatchLedger
<1>1. IInv => SubmissionsMatchLedger
  BY DEF IInv
<1>. QED  BY Invariance, <1>1, PTL

------------------------------------------------------------------------------
(***************************************************************************)
(* The rows that leave the stream, and the count of those that stay.       *)
(***************************************************************************)

\* Everything but a commit leaves the stream and the standing alone.
LEMMA OnlyCommits ==
  ASSUME [Next]_vars
  PROVE  \/ \E r \in Requests : Commit(r)
         \/ UNCHANGED <<score_events, entries>>
<1>1. ASSUME NEW r \in Requests, Begin(r) PROVE UNCHANGED <<score_events, entries>>
  BY <1>1 DEF Begin, BeginSolve, BeginAward, BeginRevoke, tables
<1>2. ASSUME NEW r \in Requests, Step(r)
      PROVE  Commit(r) \/ UNCHANGED <<score_events, entries>>
  BY <1>2 DEF Step, InsertSubmission, CountSolves, InsertSolveEvent, InsertFirstBlood,
     UpsertSolveEntry, InsertAward, UpsertAwardEntry, DeleteAward, DebitEntry, tables
<1>3. ASSUME NEW r \in Requests, Fail(r) PROVE UNCHANGED <<score_events, entries>>
  BY <1>3 DEF Fail, tables
<1>4. ASSUME NEW ec \in Challenges, DeleteChallenge(ec) PROVE UNCHANGED <<score_events, entries>>
  BY <1>4 DEF DeleteChallenge
<1>. QED  BY <1>1, <1>2, <1>3, <1>4 DEF Next, vars

\* No step removes a solve or a first blood from the stream.
THEOREM CoreRowsKept == Spec => CoreRowsAreForever
<1>1. IInv /\ [Next]_vars
        => [\A e \in score_events \ score_events' : e.ref.kind = "plugin"]_score_events
  <2>1. SUFFICES ASSUME IInv, NEW r \in Requests, Commit(r),
                        NEW e \in score_events \ score_events'
                 PROVE  e.ref.kind = "plugin"
    BY OnlyCommits
  <2>2. pc[r] = "commit" /\ e \in del[r]
    BY <2>1 DEF Commit
  <2>3. PICK p \in PluginRefs : e.ref = AwardRef(p)
    BY <2>1, <2>2, CommitFacts
  <2>. QED  BY <2>3 DEF AwardRef, Ledger!AwardRef
<1>. QED  BY <1>1, Invariance, PTL DEF Spec, CoreRowsAreForever

SolveRows(t) == {e \in score_events : e.ref.kind = "solve" /\ e.team = t}

SolvesCounted ==
  /\ IsFiniteSet(score_events)
  /\ \A t \in Teams : entries[t].solves = Cardinality(SolveRows(t))

\* A commit adds one solve row to one team and one to its count, or neither.
LEMMA CommitCounts ==
  ASSUME IInv, SolvesCounted, NEW r \in Requests, Commit(r)
  PROVE  SolvesCounted'
<1>1. pc[r] = "commit" /\ score_events' = (score_events \ del[r]) \cup ins[r]
  BY DEF Commit
<1>2. /\ \A e \in ins[r] : ~Committed(e.ref)
      /\ \A e \in del[r] : e.ref.kind = "plugin"
  <2>1. \A p : AwardRef(p).kind = "plugin"
    BY DEF AwardRef, Ledger!AwardRef
  <2>. QED  BY <1>1, <2>1, CommitFacts
<1>3. \A t \in Teams : IsFiniteSet(SolveRows(t))
  BY FS_Subset DEF SolvesCounted, SolveRows
<1>4. \A t \in Teams :
        entries'[t].solves = IF t = upd[r].team THEN entries[t].solves + upd[r].solves
                                                ELSE entries[t].solves
  BY DEF Commit, IInv, TypeOK
<1>5. IsFiniteSet(score_events \ del[r])
  BY FS_Difference DEF SolvesCounted
<1>6. CASE req[r].op = "solve"
  <2>1. SolveReady(r) /\ req[r] \in SolveReq
    BY <1>1, <1>6, ReadyByOp
  <2>2. SolveRow(r) \in ins[r] /\ ins[r] \subseteq {SolveRow(r), BloodRow(r)} /\ del[r] = {}
    BY <2>1 DEF SolveReady, SubmissionOpen
  <2>3. /\ SolveRow(r).ref.kind = "solve" /\ SolveRow(r).team = req[r].team
        /\ BloodRow(r).ref.kind = "firstblood"
    BY RowFields DEF SolveRow, BloodRow, SolveRef, Ledger!SolveRef, BloodRef, Ledger!BloodRef
  <2>4. PICK team \in Teams : team = req[r].team /\ upd[r].team = team /\ upd[r].solves = 1
    <3>1. EntryMoved(r)
      BY <1>1 DEF IInv, TxOK
    <3>2. req[r] \notin AwardReq /\ req[r] \notin RevokeReq
      BY <1>6, AwardReqFields, RevokeReqFields
    <3>. QED  BY <2>1, <3>1, <3>2, SolveReqFields DEF EntryMoved
  <2>5. IsFiniteSet(score_events')
    <3>1. IsFiniteSet({SolveRow(r), BloodRow(r)})
      <4>1. IsFiniteSet({SolveRow(r)} \cup {BloodRow(r)})
        BY FS_Singleton, FS_Union
      <4>2. {SolveRow(r)} \cup {BloodRow(r)} = {SolveRow(r), BloodRow(r)}
        OBVIOUS
      <4>. QED  BY <4>1, <4>2
    <3>2. IsFiniteSet(ins[r])
      BY <2>2, <3>1, FS_Subset
    <3>. QED  BY <1>1, <1>5, <3>2, FS_Union
  <2>6. SolveRows(team)' = SolveRows(team) \cup {SolveRow(r)}
    <3>1. score_events' = score_events \cup ins[r]
      BY <1>1, <2>2
    <3>. QED  BY <2>2, <2>3, <2>4, <3>1 DEF SolveRows
  <2>7. SolveRow(r) \notin SolveRows(team)
    BY <1>2, <2>2 DEF SolveRows, Committed
  <2>8. Cardinality(SolveRows(team)') = Cardinality(SolveRows(team)) + 1
    BY <1>3, <2>6, <2>7, FS_AddElement
  <2>9. \A t \in Teams : t # team => SolveRows(t)' = SolveRows(t)
    BY <1>1, <2>2, <2>3, <2>4 DEF SolveRows
  <2>. QED
    <3>1. ASSUME NEW t \in Teams PROVE entries'[t].solves = Cardinality(SolveRows(t)')
      <4>1. CASE t = team
        BY <1>4, <2>4, <2>8, <4>1 DEF SolvesCounted
      <4>2. CASE t # team
        BY <1>4, <2>4, <2>9, <4>2 DEF SolvesCounted
      <4>. QED  BY <4>1, <4>2
    <3>. QED  BY <2>5, <3>1 DEF SolvesCounted, SolveRows
<1>7. CASE req[r].op # "solve"
  <2>1. AwardReady(r) \/ RevokeReady(r)
    BY <1>1, <1>7, ReadyByOp
  <2>2. ins[r] \subseteq {AwardRow(r)}
    BY <2>1 DEF AwardReady, RevokeReady
  <2>3. AwardRow(r).ref.kind = "plugin"
    BY RowFields DEF AwardRow, AwardRef, Ledger!AwardRef
  <2>4. upd[r].solves = 0
    <3>1. EntryMoved(r)
      BY <1>1 DEF IInv, TxOK
    <3>2. req[r] \notin SolveReq
      BY <1>7, SolveReqFields
    <3>3. ASSUME NEW e \in del[r], upd[r] = [team |-> e.team, points |-> -e.points, solves |-> 0]
          PROVE  upd[r].solves = 0
      <4>1. e \in Row
        BY DEF IInv, TypeOK
      <4>. QED  BY <3>3, <4>1 DEF Row
    <3>4. CASE upd[r] = [team |-> req[r].team, points |-> req[r].points, solves |-> 0]
      BY <3>4
    <3>. QED  BY <3>1, <3>2, <3>3, <3>4 DEF EntryMoved
  <2>5. IsFiniteSet(score_events')
    <3>1. IsFiniteSet(ins[r])
      BY <2>2, FS_Singleton, FS_Subset
    <3>. QED  BY <1>1, <1>5, <3>1, FS_Union
  <2>6. \A t \in Teams : SolveRows(t)' = SolveRows(t)
    BY <1>1, <1>2, <2>2, <2>3 DEF SolveRows
  <2>7. \A t \in Teams : entries[t].solves \in Nat
    BY DEF IInv, TypeOK
  <2>8. \A t \in Teams : entries'[t].solves = entries[t].solves
    BY <1>4, <2>4, <2>7
  <2>. QED
    <3>1. ASSUME NEW t \in Teams PROVE entries'[t].solves = Cardinality(SolveRows(t)')
      BY <2>6, <2>8 DEF SolvesCounted
    <3>. QED  BY <2>5, <3>1 DEF SolvesCounted, SolveRows
<1>. QED  BY <1>6, <1>7

\* No retry and no race makes a solve count twice: the solves column is the
\* number of the team's solve rows, each with a ref_id of its own.
THEOREM SolvesCorrect == Spec => []SolvesMatchLedger
<1>1. Init => SolvesCounted
  <2>1. SUFFICES ASSUME Init PROVE SolvesCounted
    OBVIOUS
  <2>2. \A t \in Teams : SolveRows(t) = {}
    BY <2>1 DEF Init, SolveRows
  <2>3. IsFiniteSet({}) /\ Cardinality({}) = 0
    BY FS_EmptySet
  <2>. QED  BY <2>1, <2>2, <2>3 DEF Init, SolvesCounted
<1>2. IInv /\ SolvesCounted /\ [Next]_vars => SolvesCounted'
  <2>1. SUFFICES ASSUME IInv, SolvesCounted, [Next]_vars PROVE SolvesCounted'
    OBVIOUS
  <2>2. CASE UNCHANGED <<score_events, entries>>
    BY <2>1, <2>2 DEF SolvesCounted, SolveRows
  <2>. QED  BY <2>1, <2>2, OnlyCommits, CommitCounts
<1>3. IInv /\ SolvesCounted => SolvesMatchLedger
  BY DEF IInv, RefsUnique, SolvesCounted, SolvesMatchLedger, SolveRows
<1>. QED  BY <1>1, <1>2, <1>3, Invariance, PTL DEF Spec

------------------------------------------------------------------------------
(***************************************************************************)
(* Without a first-blood bonus the transactions implement the atomic       *)
(* ledger: a commit posts its rows and moves the standing by just their    *)
(* points, and no other step shows.  (With a bonus they do not:            *)
(* BoardMatchesLedger fails.)                                              *)
(***************************************************************************)
LEMMA CommitLedger ==
  ASSUME IInv, FirstBloodBonus = 0, NEW r \in Requests, Commit(r)
  PROVE  Ledger!Next
<1>1. /\ pc[r] = "commit"
      /\ score_events' = (score_events \ del[r]) \cup ins[r]
      /\ entries' = [entries EXCEPT ![upd[r].team] =
                       [points |-> @.points + upd[r].points, solves |-> @.solves + upd[r].solves]]
      /\ EntryMoved(r)
  BY DEF Commit, IInv, TxOK
<1> DEFINE c == req[r]
           Amounts == SolvePoints \cup AwardPoints \cup {FirstBloodBonus}
<1>2. CASE c.op = "solve"
  <2>1. c \in SolveReq /\ SolveReady(r)
    BY <1>1, <1>2, ReadyByOp
  <2>2. c.ec \in Challenges /\ c.team \in Teams /\ c.points \in Amounts /\ c.points \in Int
    BY <2>1, SolveReqFields DEF SolveReq
  <2>3. ins[r] = {SolveRow(r)} /\ del[r] = {} /\ BonusOf(r) = 0
    BY <2>1 DEF SolveReady, SubmissionOpen, WantsBlood, BonusOf
  <2>4. upd[r] = [team |-> c.team, points |-> c.points, solves |-> 1]
    <3>1. c \notin AwardReq /\ c \notin RevokeReq
      BY <1>2, AwardReqFields, RevokeReqFields
    <3>2. upd[r] = [team |-> c.team, points |-> c.points + BonusOf(r), solves |-> 1]
      BY <1>1, <3>1 DEF EntryMoved
    <3>3. c.points + BonusOf(r) = c.points
      BY <2>2, <2>3
    <3>. QED  BY <3>2, <3>3
  <2>5. score_events' = score_events \cup {SolveRow(r)}
    BY <1>1, <2>3
  <2>6. Ledger!Fresh(SolveRef(c.ec, c.team))
    <3>1. ~Committed(SolveRow(r).ref)
      BY <1>1, <2>3, CommitFacts
    <3>. QED  BY <3>1, RowFields DEF SolveRow, Committed, Ledger!Fresh
  <2>7. Ledger!Credit(c.team, c.points, 1)
    BY <1>1, <2>4 DEF Ledger!Credit
  <2>8. Ledger!PostSolve(c.ec, c.team, c.points)
    BY <2>5, <2>6, <2>7 DEF Ledger!PostSolve, SolveRow, ScoreRow, SolveRef
  <2>. QED  BY <2>2, <2>8 DEF Ledger!Next
<1>3. CASE c.op = "award"
  <2>1. c \in AwardReq /\ AwardReady(r)
    BY <1>1, <1>3, ReadyByOp
  <2>2. c.ref \in PluginRefs /\ c.team \in Teams /\ c.points \in Amounts
    BY <2>1 DEF AwardReq
  <2>3. upd[r] = [team |-> c.team, points |-> c.points, solves |-> 0]
    <3>1. c \notin SolveReq /\ c \notin RevokeReq
      BY <1>3, SolveReqFields, RevokeReqFields
    <3>. QED  BY <1>1, <3>1 DEF EntryMoved
  <2>4. score_events' = score_events \cup {AwardRow(r)}
    BY <1>1, <2>1 DEF AwardReady
  <2>5. Ledger!Fresh(AwardRef(c.ref))
    <3>1. ~Committed(AwardRow(r).ref)
      BY <1>1, <2>1, CommitFacts DEF AwardReady
    <3>. QED  BY <3>1, RowFields DEF AwardRow, Committed, Ledger!Fresh
  <2>6. Ledger!Credit(c.team, c.points, 0)
    BY <1>1, <2>3 DEF Ledger!Credit
  <2>7. Ledger!PostAward(c.ref, c.team, c.points)
    BY <2>4, <2>5, <2>6 DEF Ledger!PostAward, AwardRow, ScoreRow, AwardRef
  <2>. QED  BY <2>2, <2>7 DEF Ledger!Next
<1>4. CASE c.op = "revoke"
  <2>1. c \in RevokeReq /\ RevokeReady(r)
    BY <1>1, <1>4, ReadyByOp
  <2>2. PICK e \in score_events : del[r] = {e} /\ e.ref = AwardRef(c.ref) /\ ins[r] = {}
    BY <2>1 DEF RevokeReady
  <2>3. upd[r] = [team |-> e.team, points |-> -e.points, solves |-> 0]
    <3>1. c \notin SolveReq /\ c \notin AwardReq
      BY <1>4, SolveReqFields, AwardReqFields
    <3>. QED  BY <1>1, <2>2, <3>1 DEF EntryMoved
  <2>4. score_events' = score_events \ {e}
    BY <1>1, <2>2
  <2>5. Ledger!Credit(e.team, -e.points, 0)
    BY <1>1, <2>3 DEF Ledger!Credit
  <2>6. Ledger!Revoke(c.ref)
    BY <2>2, <2>4, <2>5 DEF Ledger!Revoke, AwardRef
  <2>. QED  BY <2>1, <2>6, RevokeReqFields DEF Ledger!Next
<1>. QED  BY <1>1, <1>2, <1>3, <1>4, ReadyByOp

\* Without a bonus, RecordSolve, PluginAward and DeletePluginAward behave, for any
\* interleaving, failure and retry, like the atomic ledger ScoreLedger: the
\* standing is at every moment the running total of the stream.
THEOREM ImplementsLedger ==
  ASSUME FirstBloodBonus = 0
  PROVE  Spec => LedgerSpec
<1>1. Init => Ledger!Init
  BY DEF Init, Ledger!Init
<1>2. IInv /\ [Next]_vars => [Ledger!Next]_(Ledger!ledgerVars)
  BY OnlyCommits, CommitLedger DEF Ledger!ledgerVars
<1>. QED  BY <1>1, <1>2, Invariance, PTL DEF Spec, LedgerSpec, Ledger!Spec

------------------------------------------------------------------------------
(***************************************************************************)
(* The points of a set of rows: that MapThenSumSet's recursion has a       *)
(* solution on finite sets, and gives the same in any order.               *)
(***************************************************************************)
Pick(s)    == CHOOSE x \in s : TRUE
Sums(f, S) == f = [s \in SUBSET S |-> IF s = {} THEN 0 ELSE Pick(s).points + f[s \ {Pick(s)}]]
Summed(S)  == CHOOSE f : Sums(f, S)
Points(S)  == MapThenSumSet(LAMBDA e : e.points, S)

\* CHOOSE finds a row if there is one.
LEMMA PickFact == ASSUME NEW s, s # {} PROVE Pick(s) \in s
BY DEF Pick

\* The sum of a set of rows is MapThenSumSet's recursion over its subsets, which
\* takes the rows in the order of CHOOSE.
LEMMA PointsSummed == ASSUME NEW S PROVE Points(S) = Summed(S)[S]
BY DEF Points, MapThenSumSet, MapThenFoldSet, Summed, Sums, Pick

\* A non-empty set of subsets of a finite set has a least one.
LEMMA LeastSubset ==
  ASSUME NEW S, IsFiniteSet(S), NEW Bad \in SUBSET (SUBSET S), Bad # {}
  PROVE  \E m \in Bad : \A x \in Bad : x \subseteq m => x = m
<1>1. IsWellFoundedOn(StrictSubsetOrdering(S), SUBSET S)
  BY FS_StrictSubsetOrderingWellFounded, FS_FiniteSubsetsOfFinite
<1>2. PICK m \in Bad : \A x \in Bad : <<x, m>> \notin StrictSubsetOrdering(S)
  BY <1>1, WFMin
<1>. QED  BY <1>2 DEF StrictSubsetOrdering

\* The solutions of the recursion for the subsets of S with at most n rows.
Upto(S, n) == {s \in SUBSET S : Cardinality(s) <= n}
Table(f, S, n) ==
  /\ f \in [Upto(S, n) -> Int]
  /\ \A s \in Upto(S, n) : f[s] = IF s = {} THEN 0 ELSE Pick(s).points + f[s \ {Pick(s)}]

\* A set without one of its rows.
LEMMA Smaller ==
  ASSUME NEW S, IsFiniteSet(S), NEW s \in SUBSET S, s # {}, NEW x \in s
  PROVE  /\ s \ {x} \in SUBSET S
         /\ Cardinality(s \ {x}) = Cardinality(s) - 1
         /\ Cardinality(s) \in Nat /\ Cardinality(s \ {x}) \in Nat
<1>1. IsFiniteSet(s)
  BY FS_Subset
<1>. QED  BY <1>1, FS_RemoveElement, FS_CardinalityType

\* There are such solutions up to any size: a smallest set without one could take
\* that of the set without one of its rows.
LEMMA TablesExist ==
  ASSUME NEW S, IsFiniteSet(S), \A e \in S : e.points \in Int
  PROVE  \A T \in SUBSET S : \E f : Table(f, S, Cardinality(T))
<1>. DEFINE Bad == {T \in SUBSET S : ~\E f : Table(f, S, Cardinality(T))}
<1>. SUFFICES ASSUME Bad # {} PROVE FALSE
  OBVIOUS
<1>0. Bad \in SUBSET (SUBSET S)
  OBVIOUS
<1>1. PICK T \in Bad : \A x \in Bad : x \subseteq T => x = T
  <2>. HIDE DEF Bad
  <2>. QED  BY <1>0, LeastSubset
<1>2. CASE T = {}
  <2>1. Upto(S, Cardinality(T)) = {{}}
    <3>1. \A s \in SUBSET S : Cardinality(s) \in Nat /\ (Cardinality(s) = 0 <=> s = {})
      BY FS_Subset, FS_CardinalityType, FS_EmptySet
    <3>. QED  BY <3>1, <1>2 DEF Upto
  <2>2. Table([s \in {{}} |-> 0], S, Cardinality(T))
    BY <2>1 DEF Table
  <2>. QED  BY <2>2
<1>3. CASE T # {}
  <2>. DEFINE n == Cardinality(T)
  <2>1. PICK y : y \in T
    BY <1>3
  <2>2. /\ T \ {y} \in SUBSET S
        /\ Cardinality(T \ {y}) = n - 1
        /\ n \in Nat
    BY <2>1, <1>3, Smaller
  <2>3. T \ {y} \notin Bad
    BY <1>1, <2>1
  <2>4. PICK f : Table(f, S, n - 1)
    BY <2>2, <2>3
  <2>. DEFINE g == [s \in Upto(S, n) |->
                      IF s = {} THEN 0 ELSE Pick(s).points + f[s \ {Pick(s)}]]
  <2>5. \A s \in Upto(S, n) : s # {} => s \ {Pick(s)} \in Upto(S, n - 1) /\ Pick(s) \in S
    <3>. SUFFICES ASSUME NEW s \in Upto(S, n), s # {}
                  PROVE  s \ {Pick(s)} \in Upto(S, n - 1) /\ Pick(s) \in S
      OBVIOUS
    <3>. HIDE DEF n
    <3>. QED  BY <2>2, PickFact, Smaller DEF Upto
  <2>6. \A s \in Upto(S, n) : g[s] \in Int
    BY <2>4, <2>5 DEF Table
  <2>7. \A s \in Upto(S, n - 1) : s \in Upto(S, n) /\ g[s] = f[s]
    <3>1. \A s \in Upto(S, n - 1) : s \in Upto(S, n)
      BY <2>2, FS_Subset, FS_CardinalityType DEF Upto
    <3>. QED  BY <3>1, <2>4 DEF Table
  <2>8. Table(g, S, n)
    <3>1. \A s \in Upto(S, n) : s # {} => g[s] = Pick(s).points + g[s \ {Pick(s)}]
      BY <2>5, <2>7
    <3>2. g \in [Upto(S, n) -> Int]
      BY <2>6
    <3>3. \A s \in Upto(S, n) : s = {} => g[s] = 0
      OBVIOUS
    <3>. HIDE DEF g
    <3>. QED  BY <3>1, <3>2, <3>3 DEF Table
  <2>. QED  BY <2>8
<1>. QED  BY <1>2, <1>3

\* The recursion has a solution, on integers.
LEMMA SummedFacts ==
  ASSUME NEW S, IsFiniteSet(S), \A e \in S : e.points \in Int
  PROVE  /\ Summed(S)[{}] = 0
         /\ \A s \in SUBSET S : Summed(S)[s] \in Int
         /\ \A s \in (SUBSET S) \ {{}} :
              Summed(S)[s] = Pick(s).points + Summed(S)[s \ {Pick(s)}]
<1>1. PICK f : Table(f, S, Cardinality(S))
  BY TablesExist
<1>2. Upto(S, Cardinality(S)) = SUBSET S
  BY FS_Subset DEF Upto
<1>3. f = [s \in SUBSET S |-> f[s]]
  BY <1>1, <1>2 DEF Table
<1>4. Sums(f, S)
  BY <1>1, <1>2, <1>3 DEF Table, Sums
<1>5. Sums(Summed(S), S)
  BY <1>4 DEF Summed
<1>6. \A s \in SUBSET S :
        Summed(S)[s] = IF s = {} THEN 0 ELSE Pick(s).points + Summed(S)[s \ {Pick(s)}]
  BY <1>5, Zenon DEF Sums
<1>7. Summed(S)[{}] = 0
  BY <1>6
<1>8. \A s \in (SUBSET S) \ {{}} :
        Summed(S)[s] = Pick(s).points + Summed(S)[s \ {Pick(s)}]
  BY <1>6
<1>. DEFINE v(s) == Summed(S)[s]
            Bad  == {s \in SUBSET S : v(s) \notin Int}
<1>9. Bad = {}
  <2>. SUFFICES ASSUME Bad # {} PROVE FALSE
    OBVIOUS
  <2>0. Bad \in SUBSET (SUBSET S)
    OBVIOUS
  <2>1. PICK s \in Bad : \A x \in Bad : x \subseteq s => x = s
    <3>. HIDE DEF Bad
    <3>. QED  BY <2>0, LeastSubset
  <2>2. v({}) = 0 /\ \A t \in (SUBSET S) \ {{}} : v(t) = Pick(t).points + v(t \ {Pick(t)})
    BY <1>7, <1>8
  <2>. HIDE DEF v
  <2>3. s # {}
    <3>. SUFFICES ASSUME s = {} PROVE FALSE
      OBVIOUS
    <3>1. v({}) \notin Int
      BY <2>1, Zenon
    <3>. QED  BY <2>2, <3>1
  <2>4. Pick(s) \in s /\ s \ {Pick(s)} \notin Bad
    BY <2>1, <2>3, PickFact
  <2>5. v(s \ {Pick(s)}) \in Int /\ Pick(s).points \in Int
    BY <2>1, <2>4
  <2>. QED  BY <2>1, <2>2, <2>3, <2>5
<1>. QED  BY <1>7, <1>8, <1>9

\* The sum is the same in whatever order rows are taken.
LEMMA AnyOrder ==
  ASSUME NEW S, IsFiniteSet(S), \A e \in S : e.points \in Int
  PROVE  \A s \in SUBSET S : \A y \in s : Summed(S)[s] = y.points + Summed(S)[s \ {y}]
<1>. DEFINE Q(s) == \A y \in s : Summed(S)[s] = y.points + Summed(S)[s \ {y}]
            Bad == {s \in SUBSET S : ~Q(s)}
<1>. SUFFICES ASSUME Bad # {} PROVE FALSE
  OBVIOUS
<1>0. Bad \in SUBSET (SUBSET S)
  OBVIOUS
<1>1. PICK s \in Bad : \A x \in Bad : x \subseteq s => x = s
  <2>. HIDE DEF Bad
  <2>. QED  BY <1>0, LeastSubset
<1>2. PICK y \in s : Summed(S)[s] # y.points + Summed(S)[s \ {y}]
  BY <1>1
<1>. DEFINE x == Pick(s)
<1>3. x \in s /\ Summed(S)[s] = x.points + Summed(S)[s \ {x}]
  BY <1>1, <1>2, PickFact, SummedFacts
<1>. HIDE DEF x
<1>4. y # x
  BY <1>2, <1>3
<1>5. Q(s \ {x}) /\ Q(s \ {y})
  <2>1. s \ {x} \notin Bad /\ s \ {y} \notin Bad
    BY <1>1, <1>2, <1>3
  <2>. QED  BY <2>1, <1>1
<1>6. (s \ {x}) \ {y} = (s \ {y}) \ {x}
  OBVIOUS
<1>7. Summed(S)[s \ {x}] = y.points + Summed(S)[(s \ {x}) \ {y}]
  BY <1>2, <1>4, <1>5
<1>8. Summed(S)[s \ {y}] = x.points + Summed(S)[(s \ {x}) \ {y}]
  BY <1>3, <1>4, <1>5, <1>6
<1>9. Summed(S)[(s \ {x}) \ {y}] \in Int /\ x.points \in Int /\ y.points \in Int
  BY <1>1, <1>2, <1>3, SummedFacts
<1>. QED  BY <1>2, <1>3, <1>7, <1>8, <1>9

\* The sums of the subsets of S are the same in any larger set.
LEMMA SameSums ==
  ASSUME NEW S, IsFiniteSet(S), \A e \in S : e.points \in Int, NEW T \in SUBSET S
  PROVE  \A s \in SUBSET T : Summed(T)[s] = Summed(S)[s]
<1>. DEFINE Bad == {s \in SUBSET T : Summed(T)[s] # Summed(S)[s]}
<1>. SUFFICES ASSUME Bad # {} PROVE FALSE
  OBVIOUS
<1>0. IsFiniteSet(T) /\ (\A e \in T : e.points \in Int) /\ Bad \in SUBSET (SUBSET T)
  BY FS_Subset
<1>1. PICK s \in Bad : \A x \in Bad : x \subseteq s => x = s
  <2>. HIDE DEF Bad
  <2>. QED  BY <1>0, LeastSubset
<1>2. s # {}
  BY <1>0, <1>1, SummedFacts
<1>3. Pick(s) \in s /\ s \ {Pick(s)} \notin Bad
  BY <1>1, <1>2, PickFact
<1>4. Summed(T)[s] = Pick(s).points + Summed(T)[s \ {Pick(s)}]
  BY <1>0, <1>1, <1>2, SummedFacts
<1>5. Summed(S)[s] = Pick(s).points + Summed(S)[s \ {Pick(s)}]
  BY <1>1, <1>2, SummedFacts
<1>. QED  BY <1>1, <1>3, <1>4, <1>5

\* A row adds its points to the sum.
LEMMA PointsAdd ==
  ASSUME NEW S, IsFiniteSet(S), \A e \in S : e.points \in Int, NEW e \in S
  PROVE  /\ Points(S) \in Int
         /\ Points(S \ {e}) \in Int
         /\ Points(S) = Points(S \ {e}) + e.points
<1>1. Summed(S)[S] = e.points + Summed(S)[S \ {e}]
  BY AnyOrder
<1>2. Summed(S \ {e})[S \ {e}] = Summed(S)[S \ {e}]
  BY SameSums
<1>3. Summed(S)[S] \in Int /\ Summed(S)[S \ {e}] \in Int
  BY SummedFacts
<1>. QED  BY <1>1, <1>2, <1>3, PointsSummed

\* The sum of no rows.
LEMMA NoPoints == Points({}) = 0
BY PointsSummed, SummedFacts, FS_EmptySet

------------------------------------------------------------------------------
(***************************************************************************)
(* The standing against the sum of the stream.                             *)
(***************************************************************************)
\* A team's rows of the stream.
RowsOf(t) == {e \in score_events : e.team = t}

\* The standing has never less than the stream, and without a bonus just as much.
PointsCounted ==
  /\ IsFiniteSet(score_events)
  /\ \A t \in Teams : /\ entries[t].points >= Points(RowsOf(t))
                      /\ FirstBloodBonus = 0 => entries[t].points = Points(RowsOf(t))

\* A sum of integers.
LEMMA PointsTyped ==
  ASSUME NEW S, IsFiniteSet(S), \A e \in S : e.points \in Int
  PROVE  Points(S) \in Int
<1>1. CASE S = {}
  BY <1>1, NoPoints
<1>2. CASE S # {}
  <2>1. PICK e : e \in S
    BY <1>2
  <2>. QED  BY <2>1, PointsAdd
<1>. QED  BY <1>1, <1>2

\* A row that comes adds its points.
LEMMA RowComes ==
  ASSUME NEW S, IsFiniteSet(S), NEW e, e \notin S, \A x \in S \cup {e} : x.points \in Int
  PROVE  Points(S \cup {e}) = Points(S) + e.points
<1>1. IsFiniteSet(S \cup {e})
  BY FS_AddElement
<1>2. (S \cup {e}) \ {e} = S
  OBVIOUS
<1>. QED  BY <1>1, <1>2, PointsAdd

\* A commit adds to the standing what it adds to the stream, and the bonus of a first
\* blood whose row was another's.
LEMMA CommitAdds ==
  ASSUME IInv, PointsCounted, NEW r \in Requests, Commit(r)
  PROVE  PointsCounted'
<1>1. /\ pc[r] = "commit"
      /\ score_events' = (score_events \ del[r]) \cup ins[r]
      /\ EntryMoved(r)
  BY DEF Commit, IInv, TxOK
<1>2. /\ upd[r] \in [team : Teams, points : Int, solves : {0, 1}]
      /\ ins[r] \subseteq Row
      /\ \A e \in ins[r] : ~Committed(e.ref)
  BY <1>1, CommitFacts
<1>3. \A t \in Teams :
        /\ entries[t].points \in Int
        /\ entries'[t].points = IF t = upd[r].team THEN entries[t].points + upd[r].points
                                                   ELSE entries[t].points
  BY <1>2 DEF Commit, IInv, TypeOK
<1>4. \A t \in Teams : IsFiniteSet(RowsOf(t)) /\ \A e \in RowsOf(t) : e.points \in Int
  <2>1. \A e \in score_events : e.points \in Int
    BY DEF IInv, TypeOK, Row
  <2>. QED  BY <2>1, FS_Subset DEF PointsCounted, RowsOf
<1>5. \A t \in Teams : Points(RowsOf(t)) \in Int
  BY <1>4, PointsTyped
<1>6. FirstBloodBonus \in Nat
  BY PointsAssumption
<1>7. \A e \in ins[r] : e \notin score_events /\ e.points \in Int
  BY <1>2 DEF Committed, Row
<1>8. PICK a \in Teams : a = upd[r].team /\ upd[r].points \in Int
  BY <1>2
\* What the change amounts to.
<1>9. ASSUME IsFiniteSet(score_events'), NEW n \in Int,
             Points(RowsOf(a)') = Points(RowsOf(a)) + n,
             n <= upd[r].points, FirstBloodBonus = 0 => n = upd[r].points,
             \A t \in Teams \ {a} : RowsOf(t)' = RowsOf(t)
      PROVE  PointsCounted'
  <2>. SUFFICES ASSUME NEW t \in Teams
                PROVE  /\ entries'[t].points >= Points(RowsOf(t)')
                       /\ FirstBloodBonus = 0 => entries'[t].points = Points(RowsOf(t)')
    BY <1>9 DEF PointsCounted, RowsOf
  <2>1. /\ entries[t].points >= Points(RowsOf(t))
        /\ FirstBloodBonus = 0 => entries[t].points = Points(RowsOf(t))
    BY DEF PointsCounted
  <2>2. CASE t = a
    <3>1. entries'[t].points = entries[t].points + upd[r].points
      BY <1>3, <1>8, <2>2
    <3>. QED  BY <1>3, <1>5, <1>8, <1>9, <2>1, <2>2, <3>1
  <2>3. CASE t # a
    <3>1. entries'[t].points = entries[t].points
      BY <1>3, <1>8, <2>3
    <3>2. RowsOf(t)' = RowsOf(t)
      BY <1>9, <2>3
    <3>. QED  BY <2>1, <3>1, <3>2
  <2>. QED  BY <2>2, <2>3
\* One new row, of the team whose standing moves.
<1>10. ASSUME NEW e, e \in Row, e \notin score_events, e.team = a,
              score_events' = score_events \cup {e}
       PROVE  /\ IsFiniteSet(score_events')
              /\ Points(RowsOf(a)') = Points(RowsOf(a)) + e.points
              /\ \A t \in Teams \ {a} : RowsOf(t)' = RowsOf(t)
  <2>1. IsFiniteSet(score_events')
    BY <1>10, FS_AddElement DEF PointsCounted
  <2>2. RowsOf(a)' = RowsOf(a) \cup {e} /\ e \notin RowsOf(a)
    BY <1>10 DEF RowsOf
  <2>3. \A x \in RowsOf(a) \cup {e} : x.points \in Int
    BY <1>4, <1>8, <1>10 DEF Row
  <2>4. Points(RowsOf(a)') = Points(RowsOf(a)) + e.points
    BY <1>4, <1>8, <2>2, <2>3, RowComes
  <2>5. \A t \in Teams \ {a} : RowsOf(t)' = RowsOf(t)
    BY <1>10 DEF RowsOf
  <2>. QED  BY <2>1, <2>4, <2>5
<1>11. CASE req[r].op = "solve"
  <2>1. req[r] \in SolveReq /\ SolveReady(r)
    BY <1>1, <1>11, ReadyByOp
  <2>2. req[r].team \in Teams /\ req[r].points \in Int /\ del[r] = {}
    BY <2>1, SolveReqFields DEF SolveReady, SubmissionOpen
  <2>3. upd[r] = [team |-> req[r].team, points |-> req[r].points + BonusOf(r), solves |-> 1]
    <3>1. req[r] \notin AwardReq /\ req[r] \notin RevokeReq
      BY <1>11, AwardReqFields, RevokeReqFields
    <3>. QED  BY <1>1, <3>1 DEF EntryMoved
  <2>4. BonusOf(r) = IF WantsBlood(r) THEN FirstBloodBonus ELSE 0
    BY DEF BonusOf, WantsBlood
  <2>5. /\ SolveRow(r) \in ins[r]
        /\ SolveRow(r).team = a /\ SolveRow(r).points = req[r].points
        /\ BloodRow(r).team = a /\ BloodRow(r).points = FirstBloodBonus
    BY <1>8, <2>1, <2>3, RowFields DEF SolveReady, SolveRow, BloodRow
  <2>6. CASE ins[r] = {SolveRow(r)}
    <3>1. score_events' = score_events \cup {SolveRow(r)}
      BY <1>1, <2>2, <2>6
    <3>2. SolveRow(r) \in Row /\ SolveRow(r) \notin score_events
      BY <1>2, <1>7, <2>5
    <3>3. /\ IsFiniteSet(score_events')
          /\ Points(RowsOf(a)') = Points(RowsOf(a)) + SolveRow(r).points
          /\ \A t \in Teams \ {a} : RowsOf(t)' = RowsOf(t)
      BY <1>10, <2>5, <3>1, <3>2
    <3>4. /\ SolveRow(r).points <= upd[r].points
          /\ FirstBloodBonus = 0 => SolveRow(r).points = upd[r].points
      BY <1>6, <2>2, <2>3, <2>4, <2>5
    <3>. QED  BY <1>9, <2>2, <2>5, <3>3, <3>4
  <2>7. CASE ins[r] = {SolveRow(r), BloodRow(r)} /\ WantsBlood(r)
    <3>. DEFINE s == SolveRow(r)  b == BloodRow(r)
    <3>1. s \in Row /\ s \notin score_events /\ b \in Row /\ b \notin score_events /\ s # b
      <4>1. s.ref.kind = "solve" /\ b.ref.kind = "firstblood"
        BY RowFields DEF SolveRow, BloodRow, SolveRef, Ledger!SolveRef, BloodRef, Ledger!BloodRef
      <4>. QED  BY <1>2, <1>7, <2>7, <4>1
    <3>2. s.team = a /\ b.team = a /\ s.points = req[r].points /\ b.points = FirstBloodBonus
      BY <2>5
    <3>. HIDE DEF s, b
    <3>3. score_events' = score_events \cup {s} \cup {b}
      BY <1>1, <2>2, <2>7 DEF s, b
    <3>4. IsFiniteSet(score_events')
      BY <3>3, FS_AddElement DEF PointsCounted
    <3>5. RowsOf(a)' = (RowsOf(a) \cup {s}) \cup {b} /\ s \notin RowsOf(a) /\ b \notin RowsOf(a) \cup {s}
      BY <3>1, <3>2, <3>3 DEF RowsOf
    <3>6. \A x \in (RowsOf(a) \cup {s}) \cup {b} : x.points \in Int
      BY <1>4, <1>8, <3>1 DEF Row
    <3>7. Points(RowsOf(a) \cup {s}) = Points(RowsOf(a)) + s.points
      BY <1>4, <1>8, <3>5, <3>6, RowComes
    <3>8. IsFiniteSet(RowsOf(a) \cup {s})
      BY <1>4, <1>8, FS_AddElement
    <3>9. Points(RowsOf(a)') = Points(RowsOf(a) \cup {s}) + b.points
      BY <3>5, <3>6, <3>8, RowComes
    <3>10. \A t \in Teams \ {a} : RowsOf(t)' = RowsOf(t)
      BY <3>2, <3>3 DEF RowsOf
    <3>11. upd[r].points = s.points + b.points /\ upd[r].points \in Int
      BY <1>6, <2>2, <2>3, <2>4, <2>7, <3>2
    <3>12. Points(RowsOf(a)') = Points(RowsOf(a)) + upd[r].points
      BY <1>5, <1>6, <1>8, <2>2, <3>2, <3>7, <3>9, <3>11
    <3>. QED  BY <1>9, <3>4, <3>10, <3>11, <3>12
  <2>. QED  BY <2>1, <2>6, <2>7 DEF SolveReady
<1>12. CASE req[r].op = "award"
  <2>1. req[r] \in AwardReq /\ AwardReady(r)
    BY <1>1, <1>12, ReadyByOp
  <2>2. upd[r] = [team |-> req[r].team, points |-> req[r].points, solves |-> 0]
    <3>1. req[r] \notin SolveReq /\ req[r] \notin RevokeReq
      BY <1>12, SolveReqFields, RevokeReqFields
    <3>. QED  BY <1>1, <3>1 DEF EntryMoved
  <2>3. /\ AwardRow(r) \in ins[r] /\ AwardRow(r).team = a /\ AwardRow(r).points = upd[r].points
        /\ score_events' = score_events \cup {AwardRow(r)}
    BY <1>1, <1>8, <2>1, <2>2, RowFields DEF AwardReady, AwardRow
  <2>4. AwardRow(r) \in Row /\ AwardRow(r) \notin score_events
    BY <1>2, <1>7, <2>3
  <2>5. /\ IsFiniteSet(score_events')
        /\ Points(RowsOf(a)') = Points(RowsOf(a)) + AwardRow(r).points
        /\ \A t \in Teams \ {a} : RowsOf(t)' = RowsOf(t)
    BY <1>10, <2>3, <2>4
  <2>. QED  BY <1>8, <1>9, <2>3, <2>5
<1>13. CASE req[r].op = "revoke"
  <2>1. req[r] \in RevokeReq /\ RevokeReady(r)
    BY <1>1, <1>13, ReadyByOp
  <2>2. PICK e \in score_events : del[r] = {e} /\ ins[r] = {}
    BY <2>1 DEF RevokeReady
  <2>3. upd[r] = [team |-> e.team, points |-> -e.points, solves |-> 0]
    <3>1. req[r] \notin SolveReq /\ req[r] \notin AwardReq
      BY <1>13, SolveReqFields, AwardReqFields
    <3>. QED  BY <1>1, <2>2, <3>1 DEF EntryMoved
  <2>4. score_events' = score_events \ {e} /\ e.team = a /\ e.points \in Int /\ upd[r].points = -e.points
    BY <1>1, <1>8, <2>2, <2>3 DEF IInv, TypeOK, Row
  <2>5. IsFiniteSet(score_events')
    BY <2>4, FS_RemoveElement DEF PointsCounted
  <2>6. RowsOf(a)' = RowsOf(a) \ {e} /\ e \in RowsOf(a)
    BY <2>2, <2>4 DEF RowsOf
  <2>7. Points(RowsOf(a)) = Points(RowsOf(a)') + e.points /\ Points(RowsOf(a)') \in Int
    BY <1>4, <1>8, <2>6, PointsAdd
  <2>8. \A t \in Teams \ {a} : RowsOf(t)' = RowsOf(t)
    BY <2>4 DEF RowsOf
  <2>9. Points(RowsOf(a)') = Points(RowsOf(a)) + upd[r].points
    BY <1>5, <1>8, <2>4, <2>7
  <2>. QED  BY <1>8, <1>9, <2>5, <2>8, <2>9
<1>. QED  BY <1>1, <1>11, <1>12, <1>13, ReadyByOp

\* RecordSolve, PluginAward and DeletePluginAward move the standing with the stream:
\* it never falls behind its sum, and a first-blood bonus credited twice (store.go:393)
\* is the only way to get ahead of it.
THEOREM PointsInvariance == Spec => []PointsCounted
<1>1. Init => PointsCounted
  <2>. SUFFICES ASSUME Init PROVE PointsCounted
    OBVIOUS
  <2>1. \A t \in Teams : RowsOf(t) = {} /\ entries[t].points = 0
    BY DEF Init, RowsOf
  <2>2. IsFiniteSet(score_events)
    BY FS_EmptySet DEF Init
  <2>. QED  BY <2>1, <2>2, NoPoints DEF PointsCounted
<1>2. IInv /\ PointsCounted /\ [Next]_vars => PointsCounted'
  <2>1. SUFFICES ASSUME IInv, PointsCounted, [Next]_vars PROVE PointsCounted'
    OBVIOUS
  <2>2. CASE UNCHANGED <<score_events, entries>>
    BY <2>1, <2>2 DEF PointsCounted, RowsOf
  <2>. QED  BY <2>1, <2>2, OnlyCommits, CommitAdds
<1>. QED  BY <1>1, <1>2, Invariance, PTL DEF Spec

\* "The denormalized standing, updated from score events": without a bonus a team's
\* points are at all times the sum of its rows, whatever is retried, revoked or fails.
THEOREM BoardCorrect ==
  ASSUME FirstBloodBonus = 0
  PROVE  Spec => []BoardMatchesLedger
<1>1. PointsCounted => BoardMatchesLedger
  BY DEF PointsCounted, BoardMatchesLedger, RowsOf, Points
<1>. QED  BY <1>1, PointsInvariance, PTL

=============================================================================

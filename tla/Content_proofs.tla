---------------------------- MODULE Content_proofs ----------------------------
(***************************************************************************)
(* Proofs about Library and Content, for any number of handlers, slugs,    *)
(* revisions, import files and challenges: revisions are numbered without  *)
(* gaps, what is embedded is what was pinned, and what imports leave       *)
(* behind, alone or overlapping, is what they promise.                     *)
(***************************************************************************)
EXTENDS Content, FiniteSetTheorems, SequenceTheorems, TLAPS

\* The values of flags and files.
Values == (UNION {i.flags \cup i.files : i \in Items}) \cup (UNION {b.flags : b \in Bodies})

\* Who made a write, and which of its writes it was.
Writes == (Calls \cup {NoCall}) \X Nat

PartRecord == [row : Nat, kind : Kinds, val : Values, write : Writes, saw : SUBSET Writes]

\* What a handler keeps, by what it is doing.
ImportCall ==
  [pc : {"find", "create", "update", "swap", "delete", "put", "answer"},
   file : Files, dry : BOOLEAN, n : Nat, row : Nat, asof : Nat, kind : Kinds,
   snapshot : SUBSET PartRecord, held : SUBSET PartRecord, saw : SUBSET Writes,
   problems : SUBSET Nat, silent : SUBSET Nat, after : SUBSET Calls]

FlagCall == [pc : {"flag"}, row : Nat, left : SUBSET Values]

RestCall == [pc : {"idle", "done"}]
BumpCall == [pc : {"bump"}, slug : Slugs, body : Bodies]
AppendCall == [pc : {"append"}, slug : Slugs, body : Bodies, rev : Nat]
ReadCall == [pc : {"row", "revision"}, slug : Slugs, rev : Nat \cup Revs, then : {"clone", "embed"}]
BodyCall == [pc : {"clone", "embed"}, slug : Slugs, rev : Nat, body : Bodies]

CallRecord ==
  RestCall \cup BumpCall \cup AppendCall \cup ReadCall \cup BodyCall \cup FlagCall \cup ImportCall

RowsTyped ==
  /\ current_rev \in [Slugs -> Nat]
  /\ revisions \subseteq [slug : Slugs, rev : Nat, body : Bodies]
  /\ lock \in [Slugs -> Calls \cup {NoCall}]
  /\ call \in [Calls -> CallRecord]

\* A save that has its number holds the challenge's row, and the number is the
\* next one.
SavesHold ==
  \A p \in Calls :
    call[p].pc = "append" =>
      /\ lock[call[p].slug] = p
      /\ current_rev[call[p].slug] > 0
      /\ call[p].rev = current_rev[call[p].slug] + 1

\* The revisions of a challenge.
Of(s) == {r \in revisions : r.slug = s}

\* Numbered, in a form that a new revision is easily added to.
Numbered(s) ==
  /\ IsFiniteSet(Of(s))
  /\ Cardinality(Of(s)) = current_rev[s]
  /\ {r.rev : r \in Of(s)} = 1 .. current_rev[s]

LInv == RowsTyped /\ SavesHold /\ \A s \in Slugs : Numbered(s)

------------------------------------------------------------------------------
\* The call at hand tells what is in it.
LEMMA CallShape ==
  ASSUME NEW c \in CallRecord
  PROVE  /\ c.pc = "bump" => c \in BumpCall
         /\ c.pc = "append" => c \in AppendCall
         /\ c.pc \in {"row", "revision"} => c \in ReadCall
         /\ c.pc \in {"clone", "embed"} => c \in BodyCall
         /\ c.pc = "flag" => c \in FlagCall
         /\ c.pc \in {"find", "create", "update", "swap", "delete", "put", "answer"} => c \in ImportCall
         /\ c \in ImportCall <=> "file" \in DOMAIN c
<1>1. c \in RestCall \/ c \in BumpCall \/ c \in AppendCall \/ c \in ReadCall \/ c \in BodyCall
      \/ c \in FlagCall \/ c \in ImportCall
  BY DEF CallRecord
<1>2. CASE c \in RestCall
  BY <1>2 DEF RestCall, ImportCall
<1>3. CASE c \in BumpCall
  BY <1>3 DEF BumpCall, ImportCall
<1>4. CASE c \in AppendCall
  BY <1>4 DEF AppendCall, ImportCall
<1>5. CASE c \in ReadCall
  BY <1>5 DEF ReadCall, ImportCall
<1>6. CASE c \in BodyCall
  BY <1>6 DEF BodyCall, ImportCall
<1>7. CASE c \in FlagCall
  BY <1>7 DEF FlagCall, ImportCall
<1>8. CASE c \in ImportCall
  BY <1>8 DEF ImportCall
<1>. QED  BY <1>1, <1>2, <1>3, <1>4, <1>5, <1>6, <1>7, <1>8

\* The first revisions: none or one of each challenge.
LEMMA InitLInv == LibraryInit => LInv
<1>. SUFFICES ASSUME LibraryInit PROVE LInv
  OBVIOUS
<1>1. ASSUME NEW s \in Slugs
      PROVE  /\ Cardinality(FirstBodies[s]) \in {0, 1}
             /\ Cardinality(FirstBodies[s]) = 0 <=> FirstBodies[s] = {}
             /\ FirstBodies[s] # {} => \E b \in Bodies : FirstBodies[s] = {b}
             /\ FirstBodies[s] \subseteq Bodies
  <2>1. FirstBodies[s] \subseteq Bodies /\ \A b, c \in FirstBodies[s] : b = c
    BY FirstBodiesAssumption
  <2>2. CASE FirstBodies[s] = {}
    BY <2>1, <2>2, FS_EmptySet
  <2>3. CASE FirstBodies[s] # {}
    <3>1. PICK b \in FirstBodies[s] : TRUE
      BY <2>3
    <3>2. b \in Bodies /\ FirstBodies[s] = {b}
      BY <2>1, <3>1
    <3>3. Cardinality(FirstBodies[s]) = 1
      BY <3>2, FS_Singleton
    <3>. QED  BY <2>1, <2>3, <3>2, <3>3
  <2>. QED  BY <2>2, <2>3
<1>2. RowsTyped
  <2>1. current_rev \in [Slugs -> Nat]
    BY <1>1 DEF LibraryInit
  <2>2. revisions \subseteq [slug : Slugs, rev : Nat, body : Bodies]
    BY <1>1 DEF LibraryInit, Revision
  <2>3. call \in [Calls -> CallRecord]
    BY DEF LibraryInit, Idle, CallRecord, RestCall
  <2>. QED  BY <2>1, <2>2, <2>3 DEF LibraryInit, RowsTyped
<1>3. SavesHold
  BY DEF LibraryInit, SavesHold, Idle
<1>4. ASSUME NEW s \in Slugs
      PROVE  Numbered(s)
  <2>1. /\ current_rev[s] = Cardinality(FirstBodies[s])
        /\ Of(s) = {Revision(s, 1, b) : b \in FirstBodies[s]}
    BY DEF LibraryInit, Of, Revision
  <2>2. CASE FirstBodies[s] = {}
    BY <1>1, <2>1, <2>2, FS_EmptySet DEF Numbered
  <2>3. CASE FirstBodies[s] # {}
    <3>1. PICK b \in Bodies : FirstBodies[s] = {b}
      BY <1>1, <2>3
    <3>2. current_rev[s] = 1
      BY <1>1, <2>1, <2>3
    <3>3. Of(s) = {Revision(s, 1, b)}
      BY <2>1, <3>1
    <3>4. IsFiniteSet(Of(s)) /\ Cardinality(Of(s)) = 1
      BY <3>3, FS_Singleton
    <3>5. {r.rev : r \in Of(s)} = {1}
      BY <3>3 DEF Revision
    <3>6. 1 .. current_rev[s] = {1}
      BY <3>2
    <3>. QED  BY <3>2, <3>4, <3>5, <3>6 DEF Numbered
  <2>. QED  BY <2>2, <2>3
<1>. QED  BY <1>2, <1>3, <1>4 DEF LInv

\* A step that writes no revision and moves one handler anywhere but to an append.
LEMMA QuietStep ==
  ASSUME LInv, NEW p \in Calls, UNCHANGED libVars,
         NEW c \in CallRecord, c.pc # "append", Goto(p, c)
  PROVE  LInv'
<1>1. RowsTyped'
  BY DEF LInv, RowsTyped, libVars, Goto
<1>2. SavesHold'
  BY DEF LInv, RowsTyped, SavesHold, libVars, Goto
<1>3. \A s \in Slugs : Numbered(s)'
  BY DEF LInv, Numbered, Of, libVars
<1>. QED  BY <1>1, <1>2, <1>3 DEF LInv

\* The next revision of a challenge.
LEMMA NumberedGrows ==
  ASSUME LInv, NEW s \in Slugs, NEW b \in Bodies, NEW n \in Nat, n = current_rev[s] + 1,
         current_rev' = [current_rev EXCEPT ![s] = n],
         revisions' = revisions \cup {Revision(s, n, b)}
  PROVE  \A t \in Slugs : Numbered(t)'
<1>. DEFINE new == Revision(s, n, b)
<1>1. new.slug = s /\ new.rev = n
  BY DEF Revision
<1>2. current_rev[s] \in Nat /\ current_rev'[s] = n
  BY DEF LInv, RowsTyped
<1>. HIDE DEF new
<1>3. ASSUME NEW t \in Slugs, t # s
      PROVE  Numbered(t)'
  <2>1. Of(t)' = Of(t) /\ current_rev'[t] = current_rev[t]
    BY <1>1, <1>3 DEF Of, new, LInv, RowsTyped
  <2>. QED  BY <2>1 DEF LInv, Numbered
<1>4. Numbered(s)'
  <2>1. Of(s)' = Of(s) \cup {new}
    BY <1>1 DEF Of, new
  <2>2. Numbered(s)
    BY DEF LInv
  <2>3. new \notin Of(s)
    BY <1>1, <1>2, <2>2 DEF Numbered
  <2>4. IsFiniteSet(Of(s)') /\ Cardinality(Of(s)') = n
    BY <1>2, <2>1, <2>2, <2>3, FS_AddElement DEF Numbered
  <2>5. {r.rev : r \in Of(s)'} = {r.rev : r \in Of(s)} \cup {n}
    BY <1>1, <2>1
  <2>6. {r.rev : r \in Of(s)'} = 1 .. n
    <3>1. {r.rev : r \in Of(s)} = 1 .. current_rev[s]
      BY <2>2 DEF Numbered
    <3>2. (1 .. current_rev[s]) \cup {n} = 1 .. n
      BY <1>2
    <3>. QED  BY <2>5, <3>1, <3>2
  <2>7. (1 .. current_rev[s])' = 1 .. n
    BY <1>2
  <2>. QED  BY <1>2, <2>4, <2>6, <2>7 DEF Numbered
<1>. QED  BY <1>3, <1>4

------------------------------------------------------------------------------
\* A challenge is created with its revision 1, or its slug is taken.
LEMMA CreateKeeps ==
  ASSUME LInv, NEW p \in Calls, call[p].pc # "append", NEW s \in Slugs, NEW b \in Bodies,
         CreateLibraryChallenge(p, s, b)
  PROVE  LInv'
<1>1. Done \in CallRecord /\ Done.pc = "done"
  BY DEF Done, CallRecord, RestCall
<1>2. CASE current_rev[s] = 0
  <2>1. /\ current_rev' = [current_rev EXCEPT ![s] = 1]
        /\ revisions' = revisions \cup {Revision(s, 1, b)}
        /\ lock' = lock /\ call' = [call EXCEPT ![p] = Done]
    BY <1>2 DEF CreateLibraryChallenge, Goto
  <2>2. RowsTyped'
    BY <1>1, <2>1 DEF LInv, RowsTyped, Revision
  <2>3. SavesHold'
    <3>1. SUFFICES ASSUME NEW q \in Calls, call'[q].pc = "append"
                   PROVE  /\ lock'[call'[q].slug] = q
                          /\ current_rev'[call'[q].slug] > 0
                          /\ call'[q].rev = current_rev'[call'[q].slug] + 1
      BY DEF SavesHold
    <3>2. q # p /\ call'[q] = call[q]
      BY <1>1, <2>1, <3>1 DEF LInv, RowsTyped
    <3>3. current_rev[call[q].slug] > 0
      BY <3>1, <3>2 DEF LInv, SavesHold
    <3>4. call[q].slug # s
      BY <1>2, <3>3
    <3>5. current_rev'[call[q].slug] = current_rev[call[q].slug]
      BY <2>1, <3>1, <3>2, <3>4, CallShape DEF LInv, RowsTyped, AppendCall
    <3>. QED  BY <2>1, <3>1, <3>2, <3>5 DEF LInv, SavesHold
  <2>4. 1 \in Nat /\ 1 = current_rev[s] + 1
    BY <1>2
  <2>5. \A t \in Slugs : Numbered(t)'
    BY <2>1, <2>4, NumberedGrows
  <2>. QED  BY <2>2, <2>3, <2>5 DEF LInv
<1>3. CASE current_rev[s] # 0
  <2>1. UNCHANGED libVars /\ Goto(p, Done)
    BY <1>3 DEF CreateLibraryChallenge, libVars
  <2>. QED  BY <1>1, <2>1, QuietStep
<1>. QED  BY <1>2, <1>3

\* The number is drawn under the row's lock.
LEMMA BumpKeeps ==
  ASSUME LInv, NEW p \in Calls, BumpRev(p)
  PROVE  LInv'
<1>. DEFINE c == call[p]
<1>1. /\ c \in CallRecord /\ c.pc = "bump" /\ c.slug \in Slugs /\ c.body \in Bodies
      /\ current_rev[c.slug] \in Nat
  BY CallShape DEF LInv, RowsTyped, BumpRev, BumpCall
<1>2. CASE current_rev[c.slug] = 0
  <2>1. UNCHANGED libVars /\ Goto(p, Done)
    BY <1>1, <1>2 DEF BumpRev, libVars
  <2>. QED  BY <2>1, QuietStep DEF Done, CallRecord, RestCall
<1>3. CASE current_rev[c.slug] > 0
  <2>. DEFINE d == [pc |-> "append", slug |-> c.slug, body |-> c.body,
                    rev |-> current_rev[c.slug] + 1]
  <2>1. /\ lock[c.slug] = NoCall
        /\ lock' = [lock EXCEPT ![c.slug] = p] /\ call' = [call EXCEPT ![p] = d]
        /\ current_rev' = current_rev /\ revisions' = revisions
    BY <1>1, <1>3 DEF BumpRev, Goto
  <2>2. d \in CallRecord
    BY <1>1 DEF CallRecord, AppendCall
  <2>3. RowsTyped'
    BY <1>1, <2>1, <2>2 DEF LInv, RowsTyped
  <2>4. SavesHold'
    <3>1. SUFFICES ASSUME NEW q \in Calls, call'[q].pc = "append"
                   PROVE  /\ lock'[call'[q].slug] = q
                          /\ current_rev'[call'[q].slug] > 0
                          /\ call'[q].rev = current_rev'[call'[q].slug] + 1
      BY DEF SavesHold
    <3>2. CASE q = p
      BY <1>1, <1>3, <2>1, <3>2 DEF LInv, RowsTyped
    <3>3. CASE q # p
      <4>1. call'[q] = call[q] /\ lock[call[q].slug] = q
        BY <2>1, <3>1, <3>3 DEF LInv, RowsTyped, SavesHold
      <4>2. call[q].slug # c.slug
        BY <2>1, <4>1, NoCallAssumption
      <4>. QED  BY <1>1, <2>1, <3>1, <4>1, <4>2 DEF LInv, RowsTyped, SavesHold
    <3>. QED  BY <3>2, <3>3
  <2>5. \A s \in Slugs : Numbered(s)'
    BY <2>1 DEF LInv, Numbered, Of
  <2>. QED  BY <2>3, <2>4, <2>5 DEF LInv
<1>. QED  BY <1>1, <1>2, <1>3

\* The revision is written and the row released, or the number is given back.
LEMMA AppendKeeps ==
  ASSUME LInv, NEW p \in Calls, AppendRevision(p)
  PROVE  LInv'
<1>. DEFINE c == call[p]
<1>1. /\ c.pc = "append" /\ c.slug \in Slugs /\ c.body \in Bodies /\ c.rev \in Nat
      /\ lock[c.slug] = p /\ c.rev = current_rev[c.slug] + 1
      /\ current_rev[c.slug] \in Nat
  BY CallShape DEF LInv, RowsTyped, SavesHold, AppendRevision, AppendCall
<1>2. /\ lock' = [lock EXCEPT ![c.slug] = NoCall]
      /\ call' = [call EXCEPT ![p] = Done]
  BY <1>1 DEF AppendRevision, Unlocked, Goto
<1>3. ASSUME NEW q \in Calls, call'[q].pc = "append"
      PROVE  /\ q # p /\ call'[q] = call[q] /\ call[q].slug \in Slugs
             /\ lock[call[q].slug] = q /\ call[q].slug # c.slug
  BY <1>1, <1>2, <1>3, CallShape DEF LInv, RowsTyped, SavesHold, AppendCall, Done
<1>4. \/ /\ current_rev' = [current_rev EXCEPT ![c.slug] = c.rev]
         /\ revisions' = revisions \cup {Revision(c.slug, c.rev, c.body)}
      \/ UNCHANGED <<current_rev, revisions>>
  BY DEF AppendRevision
<1>5. RowsTyped'
  BY <1>1, <1>2, <1>4 DEF LInv, RowsTyped, Revision, Done, CallRecord, RestCall
<1>6. SavesHold'
  BY <1>1, <1>2, <1>3, <1>4 DEF LInv, RowsTyped, SavesHold
<1>7. \A s \in Slugs : Numbered(s)'
  <2>1. CASE UNCHANGED <<current_rev, revisions>>
    BY <2>1 DEF LInv, Numbered, Of
  <2>2. CASE /\ current_rev' = [current_rev EXCEPT ![c.slug] = c.rev]
             /\ revisions' = revisions \cup {Revision(c.slug, c.rev, c.body)}
    BY <1>1, <2>2, NumberedGrows
  <2>. QED  BY <1>4, <2>1, <2>2
<1>. QED  BY <1>5, <1>6, <1>7 DEF LInv

\* Reading a challenge and one of its revisions.
LEMMA ReadKeeps ==
  ASSUME LInv, NEW p \in Calls, ReadRow(p) \/ ReadRevision(p)
  PROVE  LInv'
<1>. DEFINE c == call[p]
<1>1. c \in CallRecord /\ Done \in CallRecord /\ Done.pc # "append"
  BY DEF LInv, RowsTyped, CallRecord, RestCall, Done
<1>2. CASE ReadRow(p)
  <2>1. c.pc = "row" /\ c.slug \in Slugs /\ c.rev \in Nat \cup Revs /\ c.then \in {"clone", "embed"}
    BY <1>1, <1>2, CallShape DEF ReadRow, ReadCall
  <2>. DEFINE d == [pc |-> "revision", slug |-> c.slug, then |-> c.then,
                    rev |-> IF c.rev = 0 THEN current_rev[c.slug] ELSE c.rev]
  <2>2. d \in CallRecord /\ d.pc # "append"
    BY <2>1 DEF LInv, RowsTyped, CallRecord, ReadCall
  <2>3. UNCHANGED libVars /\ (Goto(p, Done) \/ Goto(p, d))
    BY <1>2 DEF ReadRow
  <2>. QED  BY <1>1, <2>2, <2>3, QuietStep
<1>3. CASE ReadRevision(p)
  <2>1. c.pc = "revision" /\ c.slug \in Slugs /\ c.then \in {"clone", "embed"}
    BY <1>1, <1>3, CallShape DEF ReadRevision, ReadCall
  <2>2. CASE Goto(p, Done)
    BY <1>1, <1>3, <2>2, QuietStep DEF ReadRevision
  <2>3. ASSUME NEW r \in revisions, r.rev = c.rev,
               Goto(p, [pc |-> c.then, slug |-> c.slug, rev |-> c.rev, body |-> r.body])
        PROVE  LInv'
    <3>1. r.body \in Bodies /\ c.rev \in Nat
      BY <2>3 DEF LInv, RowsTyped
    <3>. DEFINE d == [pc |-> c.then, slug |-> c.slug, rev |-> c.rev, body |-> r.body]
    <3>2. d \in CallRecord /\ d.pc # "append"
      BY <2>1, <3>1 DEF CallRecord, BodyCall
    <3>. QED  BY <1>3, <2>3, <3>2, QuietStep DEF ReadRevision
  <2>. QED  BY <1>3, <2>2, <2>3 DEF ReadRevision
<1>. QED  BY <1>2, <1>3

\* Every step of the library keeps the invariant.
LEMMA NextLInv == LInv /\ [LibraryNext]_<<libVars, call>> => LInv'
<1>. SUFFICES ASSUME LInv, [LibraryNext]_<<libVars, call>> PROVE LInv'
  OBVIOUS
<1>1. CASE UNCHANGED <<libVars, call>>
  BY <1>1 DEF LInv, RowsTyped, SavesHold, Numbered, Of, libVars
<1>2. ASSUME NEW p \in Calls, NEW s \in Slugs, NEW b \in Bodies, NewChallenge(p, s, b)
      PROVE  LInv'
  BY <1>2, CreateKeeps DEF NewChallenge, Idle
<1>3. ASSUME NEW p \in Calls, NEW s \in Slugs, NEW b \in Bodies, StartRevision(p, s, b)
      PROVE  LInv'
  <2>. DEFINE d == [pc |-> "bump", slug |-> s, body |-> b]
  <2>1. d \in CallRecord /\ d.pc # "append"
    BY DEF CallRecord, BumpCall
  <2>. QED  BY <1>3, <2>1, QuietStep DEF StartRevision
<1>4. ASSUME NEW p \in Calls, NEW s \in Slugs, StartRead(p, s, 0, "clone")
      PROVE  LInv'
  <2>. DEFINE d == [pc |-> "row", slug |-> s, rev |-> 0, then |-> "clone"]
  <2>1. d \in CallRecord /\ d.pc # "append"
    BY DEF CallRecord, ReadCall
  <2>. QED  BY <1>4, <2>1, QuietStep DEF StartRead
<1>5. ASSUME NEW p \in Calls, InsertClone(p)
      PROVE  LInv'
  <2>1. call[p].pc = "clone" /\ call[p].body \in Bodies
    BY <1>5, CallShape DEF InsertClone, LInv, RowsTyped, BodyCall
  <2>. QED  BY <1>5, <2>1, CreateKeeps DEF InsertClone
<1>. QED  BY <1>1, <1>2, <1>3, <1>4, <1>5, BumpKeeps, AppendKeeps, ReadKeeps DEF LibraryNext

\* The inductive invariant of the library: rows have their types, a save that has
\* its number holds the row, revisions are numbered.
THEOREM LibraryInvariance == LibrarySpec => []LInv
  BY InitLInv, NextLInv, PTL DEF LibrarySpec

\* The revisions of a challenge are numbered 1, 2, ... up to its current_rev, each
\* number once, however many NewRevision overlap or roll back.
THEOREM RevisionsNumbered == LibrarySpec => []RevisionsAreNumbered
<1>1. LInv => RevisionsAreNumbered
  BY DEF LInv, Numbered, Of, RevisionsAreNumbered
<1>. QED  BY <1>1, LibraryInvariance, PTL

------------------------------------------------------------------------------
(* Content.  What the tables hold, and what each handler knows of them.           *)

TablesTyped == rows \in Seq(ChallengeRow \cup {Gone}) /\ parts \subseteq PartRecord

Swapping(c) == c.pc \in {"swap", "delete", "put"}

\* Of a handler in c: its i-th write of that kind is made, or never will be.
PastIn(c, i, kind) ==
  \/ c.pc = "done" \/ c.pc = "answer"
  \/ c.pc = "flag" /\ i > Cardinality(c.left)
  \/ c \in ImportCall /\ i < c.n
  \/ c \in ImportCall /\ i = c.n /\ kind = "flags" /\ Swapping(c) /\ c.kind = "files"

Past(w, kind) == w[1] \in Calls => PastIn(call[w[1]], w[2], kind)

\* A flag or file belongs to a challenge, and its write and those it saw are made.
PartOK(x) ==
  /\ x.row \in Live
  /\ Past(x.write, x.kind)
  /\ \A w \in x.saw : Past(w, x.kind)

Beside(c, x) == x.row = c.row /\ x.kind = c.kind

\* An import is at an entry of its file; the handlers that had finished before it have
\* finished; and no challenge it should have found has the title it creates.
EntryOK(c) ==
  /\ c.n \in DOMAIN c.file
  /\ c.asof <= Len(rows)
  /\ \A q \in c.after : call[q] = Done

WorkingOK(c) ==
  /\ c.pc = "create" => \A d \in Live : rows[d].title = c.file[c.n].title => d > c.asof
  /\ c.pc = "update" \/ Swapping(c) => c.row \in Ids
  /\ Swapping(c) /\ c.kind = "flags" => Readable(c.file[c.n].flags) # {}

\* A DELETE has seen whole writes, and holds what is left of them.
SwapOK(c) ==
  /\ c.pc = "delete" =>
       /\ \A x \in c.snapshot : Beside(c, x) /\ Past(x.write, c.kind)
       /\ \A x \in c.snapshot, y \in parts : Beside(c, y) /\ y.write = x.write => y \in c.snapshot
  /\ c.pc = "put" =>
       /\ \A w \in c.saw : Past(w, c.kind)
       /\ \A y \in parts : Beside(c, y) /\ y.write \in c.saw => y \in c.held
       /\ \A x \in c.held : Beside(c, x) /\ x \in parts
  /\ c.pc # "put" => c.held = {}

LastOfTitle(file, n) == \A m \in n + 1 .. Len(file) : file[m].title # file[n].title

\* The entry is in place, if it has to be.
Placed(c, n) ==
  n \in DOMAIN c.file \ c.problems /\ LastOfTitle(c.file, n) => InPlace(c.file[n], n \in c.silent)

InOrder(p) == ~call[p].dry /\ Alone(p)

\* What an import with nothing else at work has done so far.
PlacedOK(c) ==
  /\ \A n \in DOMAIN c.file : n < c.n \/ c.pc = "answer" => Placed(c, n)
  /\ c.pc = "update" \/ Swapping(c) => c.row \in Titled(c.file[c.n].title)
  /\ Swapping(c) /\ c.n \notin c.problems => rows[c.row].text = c.file[c.n].text
  /\ Swapping(c) /\ c.kind = "files" /\ c.n \notin c.problems \cup c.silent
       => (Readable(c.file[c.n].flags) # {} => Vals(c.row, "flags") = Readable(c.file[c.n].flags))
  /\ c.pc = "delete" => c.snapshot = Has(c.row, c.kind)
  /\ c.pc = "put" => c.held = Has(c.row, c.kind)

ImportOK(p) ==
  /\ EntryOK(call[p]) /\ WorkingOK(call[p]) /\ SwapOK(call[p])
  /\ InOrder(p) => PlacedOK(call[p])

CallOK(p) ==
  /\ call[p].pc = "flag" => IsFiniteSet(call[p].left) /\ call[p].left # {} /\ call[p].row \in Ids
  /\ call[p].pc \in {"clone", "embed"} =>
       Revision(call[p].slug, call[p].rev, call[p].body) \in revisions
  /\ Importing(p) => ImportOK(p)

\* Two transactions hold no row together.
HeldApart ==
  \A p, q \in Calls : p # q /\ Importing(p) /\ Importing(q) => call[p].held \cap call[q].held = {}

CInv ==
  /\ LInv /\ TablesTyped
  /\ \A x \in parts : PartOK(x)
  /\ \A p \in Calls : CallOK(p)
  /\ HeldApart
  /\ SwapsMixOnlyByRace
  /\ DuplicateOnlyByRace

------------------------------------------------------------------------------
\* An import's call, and the others.
LEMMA ImportingCall ==
  ASSUME CInv, NEW p \in Calls
  PROVE  /\ call[p] \in CallRecord
         /\ Importing(p) <=> call[p] \in ImportCall
         /\ call[p].pc \in {"find", "create", "update", "swap", "delete", "put", "answer"} => Importing(p)
BY CallShape DEF CInv, LInv, RowsTyped, Importing

\* The rows of challenges by their number.
LEMMA RowsByNumber ==
  ASSUME TablesTyped
  PROVE  /\ Len(rows) \in Nat /\ Ids = 1 .. Len(rows)
         /\ \A e \in Ids : rows[e] \in ChallengeRow \cup {Gone}
         /\ \A e \in Live : rows[e] \in ChallengeRow
BY LenProperties, ElementOfSeq DEF TablesTyped, Ids, Live

\* Challenges are added, deleted and given new text.
RowsGrow ==
  /\ Len(rows) <= Len(rows')
  /\ \A e \in Ids : /\ rows[e] = Gone => rows'[e] = Gone
                    /\ rows'[e] # Gone => /\ rows'[e].title = rows[e].title
                                          /\ rows'[e].by = rows[e].by
                                          /\ rows'[e].asof = rows[e].asof

\* p's step adds parts of a write of its own that had not been made, and takes none that
\* others hold.
PartsMove(p) ==
  /\ \A x \in parts' \ parts : ~Past(x.write, x.kind)
  /\ \A q \in Calls \ {p} : Importing(q) => call[q].held \subseteq parts'

\* Writes are made and stay made.
PastGrows(c, d) == \A i \in Nat, kind \in Kinds : PastIn(c, i, kind) => PastIn(d, i, kind)

LEMMA PastStays ==
  ASSUME CInv, NEW p \in Calls, NEW d, Goto(p, d), PastGrows(call[p], d)
  PROVE  \A w \in Writes, kind \in Kinds : Past(w, kind) => Past(w, kind)'
<1>1. DOMAIN call = Calls
  BY DEF CInv, LInv, RowsTyped
<1>2. \A q \in Calls : call'[q] = IF q = p THEN d ELSE call[q]
  BY <1>1 DEF Goto
<1>3. ASSUME NEW w \in Writes, NEW kind \in Kinds, Past(w, kind), w[1] \in Calls
      PROVE  PastIn(call'[w[1]], w[2], kind)
  <2>1. w[2] \in Nat /\ PastIn(call[w[1]], w[2], kind)
    BY <1>3 DEF Writes, Past
  <2>. QED  BY <1>2, <1>3, <2>1 DEF PastGrows
<1>. QED  BY <1>3 DEF Past, PastIn, Swapping

\* What another handler knows when p has taken a step.
LEMMA OthersKept ==
  ASSUME CInv, TablesTyped', NEW p \in Calls, NEW d, Goto(p, d), call[p] # Done, d # Idle,
         PastGrows(call[p], d), RowsGrow, PartsMove(p), revisions \subseteq revisions',
         NEW q \in Calls, q # p
  PROVE  CallOK(q)'
<1>0. PICK c : c = call[q]
  OBVIOUS
<1>1. call[q] = c /\ call'[q] = c /\ call'[p] = d /\ \A r \in Calls \ {p} : call'[r] = call[r]
  BY <1>0 DEF Goto, CInv, LInv, RowsTyped
<1>2. CallOK(q) /\ TablesTyped
  BY DEF CInv
<1>3. /\ Len(rows) \in Nat /\ Ids = 1 .. Len(rows)
      /\ Len(rows') \in Nat /\ Ids' = 1 .. Len(rows')
      /\ Len(rows) <= Len(rows')
  <2>1. Len(rows) \in Nat /\ Ids = 1 .. Len(rows)
    BY <1>2, RowsByNumber
  <2>2. Len(rows') \in Nat /\ Ids' = 1 .. Len(rows')
    BY LenProperties DEF TablesTyped, Ids
  <2>. QED  BY <2>1, <2>2 DEF RowsGrow
<1>4. /\ c.pc = "flag" => IsFiniteSet(c.left) /\ c.left # {} /\ c.row \in Ids'
      /\ c.pc \in {"clone", "embed"} => Revision(c.slug, c.rev, c.body) \in revisions'
  BY <1>1, <1>2, <1>3 DEF CallOK
<1>5. ASSUME Importing(q) PROVE ImportOK(q)'
  <2>1. ImportOK(q) /\ c \in ImportCall
    BY <1>1, <1>2, <1>5, ImportingCall DEF CallOK
  <2>2. c.file \in Files /\ c.asof \in Nat /\ c.kind \in Kinds /\ c.snapshot \subseteq PartRecord
        /\ c.saw \subseteq Writes /\ c.after \subseteq Calls /\ c.row \in Nat /\ c.held \subseteq PartRecord
    BY <2>1 DEF ImportCall
  <2>3. p \notin c.after
    BY <1>1, <2>1 DEF ImportOK, EntryOK
  <2>4. EntryOK(c)'
    BY <1>1, <1>3, <2>1, <2>2, <2>3 DEF ImportOK, EntryOK
  <2>5. WorkingOK(c)'
    <3>1. ASSUME c.pc = "create", NEW e \in Live', rows'[e].title = c.file[c.n].title
          PROVE  e > c.asof
      <4>1. CASE e \in Ids
        <5>1. rows'[e] # Gone
          BY DEF Live
        <5>2. rows[e] # Gone /\ rows'[e].title = rows[e].title
          BY <4>1, <5>1 DEF RowsGrow
        <5>3. e \in Live
          BY <4>1, <5>2 DEF Live
        <5>. QED  BY <1>1, <2>1, <3>1, <5>2, <5>3 DEF ImportOK, WorkingOK
      <4>2. CASE e \notin Ids
        BY <1>1, <1>3, <2>1, <2>2, <3>1, <4>2 DEF Live, ImportOK, EntryOK
      <4>. QED  BY <4>1, <4>2
    <3>. QED  BY <1>1, <1>3, <2>1, <3>1 DEF ImportOK, WorkingOK, Swapping
  <2>6. SwapOK(c)'
    <3>1. ASSUME c.pc = "delete"
          PROVE  /\ \A x \in c.snapshot : Beside(c, x) /\ Past(x.write, c.kind)'
                 /\ \A x \in c.snapshot, y \in parts' :
                      Beside(c, y) /\ y.write = x.write => y \in c.snapshot
      <4>1. \A x \in c.snapshot : Beside(c, x) /\ Past(x.write, c.kind) /\ x.write \in Writes
        BY <1>1, <2>1, <2>2, <3>1 DEF ImportOK, SwapOK, PartRecord
      <4>2. ASSUME NEW x \in c.snapshot, NEW y \in parts', Beside(c, y), y.write = x.write
            PROVE  y \in c.snapshot
        <5>1. y \in parts
          BY <4>1, <4>2 DEF PartsMove, Beside
        <5>. QED  BY <1>1, <2>1, <3>1, <4>2, <5>1 DEF ImportOK, SwapOK
      <4>. QED  BY <2>2, <4>1, <4>2, PastStays
    <3>2. ASSUME c.pc = "put"
          PROVE  /\ \A w \in c.saw : Past(w, c.kind)'
                 /\ \A y \in parts' : Beside(c, y) /\ y.write \in c.saw => y \in c.held
                 /\ \A x \in c.held : Beside(c, x) /\ x \in parts'
      <4>1. /\ \A w \in c.saw : Past(w, c.kind) /\ w \in Writes
            /\ \A y \in parts : Beside(c, y) /\ y.write \in c.saw => y \in c.held
            /\ \A x \in c.held : Beside(c, x)
        BY <1>1, <2>1, <2>2, <3>2 DEF ImportOK, SwapOK
      <4>2. ASSUME NEW y \in parts', Beside(c, y), y.write \in c.saw
            PROVE  y \in c.held
        BY <4>1, <4>2 DEF PartsMove, Beside
      <4>3. c.held \subseteq parts'
        BY <1>1, <1>5 DEF PartsMove
      <4>. QED  BY <2>2, <4>1, <4>2, <4>3, PastStays
    <3>3. c.pc # "put" => c.held = {}
      BY <1>1, <2>1 DEF ImportOK, SwapOK
    <3>. QED  BY <1>1, <3>1, <3>2, <3>3 DEF SwapOK, Beside, Past, PastIn, Swapping
  <2>7. ~InOrder(q)'
    BY <1>1, <2>3 DEF InOrder, Alone
  <2>. QED  BY <1>1, <2>4, <2>5, <2>6, <2>7 DEF ImportOK, EntryOK, WorkingOK, SwapOK, Swapping, Beside, Past, PastIn
<1>. QED  BY <1>1, <1>4, <1>5 DEF CallOK, Importing

\* What a step of p has to leave behind for the invariant to hold.
LEMMA StepKeeps ==
  ASSUME CInv, LInv', TablesTyped', NEW p \in Calls, NEW d \in CallRecord, Goto(p, d),
         call[p] # Done, d # Idle, PastGrows(call[p], d), RowsGrow, PartsMove(p),
         revisions \subseteq revisions', CallOK(p)',
         \A x \in parts' : x.row \in Live',
         \A x \in parts' \ parts : Past(x.write, x.kind)' /\ \A w \in x.saw : Past(w, x.kind)',
         d \in ImportCall =>
           \A q \in Calls \ {p} : Importing(q) => d.held \cap call[q].held = {},
         SwapsMixOnlyByRace', DuplicateOnlyByRace'
  PROVE  CInv'
<1>1. call'[p] = d /\ \A q \in Calls \ {p} : call'[q] = call[q]
  BY DEF Goto, CInv, LInv, RowsTyped
<1>2. \A q \in Calls : CallOK(q)'
  BY OthersKept
<1>3. ASSUME NEW x \in parts' PROVE PartOK(x)'
  <2>1. CASE x \in parts
    <3>1. x \in PartRecord /\ Past(x.write, x.kind) /\ \A w \in x.saw : Past(w, x.kind)
      BY <2>1 DEF CInv, TablesTyped, PartOK
    <3>2. x.write \in Writes /\ x.kind \in Kinds /\ x.saw \subseteq Writes
      BY <3>1 DEF PartRecord
    <3>3. Past(x.write, x.kind)' /\ \A w \in x.saw : Past(w, x.kind)'
      BY <3>1, <3>2, PastStays
    <3>. QED  BY <3>3 DEF PartOK
  <2>2. CASE x \notin parts
    BY <2>2 DEF PartOK
  <2>. QED  BY <2>1, <2>2
<1>4. HeldApart'
  <2>1. SUFFICES ASSUME NEW q \in Calls, NEW r \in Calls, q # r, Importing(q)', Importing(r)'
                 PROVE  call'[q].held \cap call'[r].held = {}
    BY DEF HeldApart
  <2>2. CASE q # p /\ r # p
    BY <1>1, <2>1, <2>2 DEF CInv, HeldApart, Importing
  <2>3. \A s \in Calls \ {p} : Importing(s)' => Importing(s)
    BY <1>1 DEF Importing
  <2>4. Importing(p)' => d \in ImportCall
    BY <1>1, CallShape DEF Importing
  <2>5. CASE q = p
    BY <1>1, <2>1, <2>3, <2>4, <2>5
  <2>6. CASE r = p
    BY <1>1, <2>1, <2>3, <2>4, <2>6
  <2>. QED  BY <2>2, <2>5, <2>6
<1>. QED  BY <1>2, <1>3, <1>4 DEF CInv

\* A step that leaves challenges, flags and files as they are.
LEMMA QuietKeeps ==
  ASSUME CInv, LInv', UNCHANGED contentVars, NEW p \in Calls, NEW d \in CallRecord, Goto(p, d),
         call[p] # Done, d # Idle, PastGrows(call[p], d), revisions \subseteq revisions', CallOK(p)',
         d \in ImportCall =>
           \A q \in Calls \ {p} : Importing(q) => d.held \cap call[q].held = {}
  PROVE  CInv'
<1>1. rows' = rows /\ parts' = parts
  BY DEF contentVars
<1>2. TablesTyped' /\ SwapsMixOnlyByRace' /\ DuplicateOnlyByRace'
  BY <1>1 DEF CInv, TablesTyped, SwapsMixOnlyByRace, DuplicateOnlyByRace, Live, Ids
<1>3. RowsGrow
  <2>1. Len(rows) \in Nat
    BY RowsByNumber DEF CInv
  <2>. QED  BY <1>1, <2>1 DEF RowsGrow
<1>4. PartsMove(p)
  BY <1>1, ImportingCall DEF PartsMove, CInv, CallOK, ImportOK, SwapOK
<1>5. \A x \in parts' : x.row \in Live'
  BY <1>1 DEF CInv, PartOK, Live, Ids
<1>. QED  BY <1>1, <1>2, <1>3, <1>4, <1>5, StepKeeps

\* With no new challenge, there is no new pair of them with one title.
LEMMA NoNewDuplicate ==
  ASSUME CInv, TablesTyped', RowsGrow, Len(rows') = Len(rows)
  PROVE  DuplicateOnlyByRace' /\ Live' \subseteq Live
<1>1. Ids' = Ids
  <2>1. Ids = 1 .. Len(rows)
    BY RowsByNumber DEF CInv
  <2>2. Ids' = 1 .. Len(rows')
    BY LenProperties DEF TablesTyped, Ids
  <2>. QED  BY <2>1, <2>2
<1>2. \A e \in Live' : /\ e \in Live
                       /\ rows'[e].title = rows[e].title
                       /\ rows'[e].by = rows[e].by
                       /\ rows'[e].asof = rows[e].asof
  BY <1>1 DEF Live, RowsGrow
<1>. QED  BY <1>2 DEF CInv, DuplicateOnlyByRace

------------------------------------------------------------------------------
\* Where an import goes after an entry, after the entry's flags, after its content.
NextOf(c) ==
  IF c.n = Len(c.file) THEN [c EXCEPT !.pc = "answer"]
  ELSE [c EXCEPT !.pc = "find", !.n = @ + 1]

FilesOf(c) ==
  IF Readable(c.file[c.n].files) = {} THEN NextOf(c) ELSE [c EXCEPT !.pc = "swap", !.kind = "files"]

FlagsOf(c) ==
  IF Readable(c.file[c.n].flags) = {} THEN FilesOf(c) ELSE [c EXCEPT !.pc = "swap", !.kind = "flags"]

LEMMA WhereNext ==
  ASSUME NEW p, NEW c
  PROVE  /\ NextItem(p, c) <=> Goto(p, NextOf(c))
         /\ ThenFiles(p, c) <=> Goto(p, FilesOf(c))
         /\ ThenFlags(p, c) <=> Goto(p, FlagsOf(c))
<1>1. NextItem(p, c) <=> Goto(p, NextOf(c))
  BY DEF NextItem, NextOf
<1>2. ThenFiles(p, c) <=> Goto(p, FilesOf(c))
  BY <1>1 DEF ThenFiles, FilesOf
<1>. QED  BY <1>1, <1>2 DEF ThenFlags, FlagsOf

\* The entries of an import file.
LEMMA FileShape ==
  ASSUME NEW c \in ImportCall, c.n \in DOMAIN c.file
  PROVE  /\ Len(c.file) \in Nat /\ DOMAIN c.file = 1 .. Len(c.file) /\ c.n \in 1 .. Len(c.file)
         /\ \A n \in DOMAIN c.file : c.file[n] \in Items
         /\ Readable(c.file[c.n].flags) \subseteq Values /\ Readable(c.file[c.n].files) \subseteq Values
<1>1. c.file \in Seq(Items)
  BY ItemsAssumption DEF ImportCall
<1>2. /\ Len(c.file) \in Nat /\ DOMAIN c.file = 1 .. Len(c.file)
      /\ \A n \in DOMAIN c.file : c.file[n] \in Items
  BY <1>1, LenProperties, ElementOfSeq
<1>3. ASSUME NEW i \in Items PROVE i.flags \subseteq Values /\ i.files \subseteq Values
  <2>1. i.flags \cup i.files \in {j.flags \cup j.files : j \in Items}
    OBVIOUS
  <2>2. i.flags \cup i.files \subseteq UNION {j.flags \cup j.files : j \in Items}
    BY <2>1
  <2>. QED  BY <2>2 DEF Values
<1>. QED  BY <1>2, <1>3 DEF Readable

LEMMA NextShape ==
  ASSUME NEW c \in ImportCall, c.n \in DOMAIN c.file, NEW d \in {NextOf(c), FilesOf(c), FlagsOf(c)}
  PROVE  /\ d \in ImportCall /\ d # Idle
         /\ d.file = c.file /\ d.dry = c.dry /\ d.after = c.after /\ d.held = c.held
         /\ d.problems = c.problems /\ d.silent = c.silent /\ d.asof = c.asof /\ d.row = c.row
         /\ \/ d.pc = "answer"
            \/ d.pc = "find" /\ d.n = c.n + 1
            \/ d.pc = "swap" /\ d.n = c.n /\ (d.kind = "flags" => d = FlagsOf(c))
<1>1. /\ c.pc \in {"find", "create", "update", "swap", "delete", "put", "answer"}
      /\ c.file \in Files /\ c.dry \in BOOLEAN /\ c.n \in Nat /\ c.row \in Nat /\ c.asof \in Nat
      /\ c.kind \in Kinds /\ c.snapshot \in SUBSET PartRecord /\ c.held \in SUBSET PartRecord
      /\ c.saw \in SUBSET Writes /\ c.problems \in SUBSET Nat /\ c.silent \in SUBSET Nat
      /\ c.after \in SUBSET Calls
  BY DEF ImportCall
<1>2. /\ [c EXCEPT !.pc = "answer"] \in ImportCall
      /\ [c EXCEPT !.pc = "find", !.n = @ + 1] \in ImportCall
      /\ [c EXCEPT !.pc = "swap", !.kind = "files"] \in ImportCall
      /\ [c EXCEPT !.pc = "swap", !.kind = "flags"] \in ImportCall
  <2>1. [c EXCEPT !.pc = "answer"] \in ImportCall
    BY DEF ImportCall
  <2>2. [c EXCEPT !.pc = "find", !.n = @ + 1] \in ImportCall
    <3>1. PICK m \in Nat : m = c.n + 1
      BY <1>1
    <3>2. [c EXCEPT !.pc = "find", !.n = m] \in ImportCall
      BY DEF ImportCall
    <3>. QED  BY <3>1, <3>2
  <2>3. [c EXCEPT !.pc = "swap", !.kind = "files"] \in ImportCall
    BY DEF ImportCall, Kinds
  <2>4. [c EXCEPT !.pc = "swap", !.kind = "flags"] \in ImportCall
    BY DEF ImportCall, Kinds
  <2>. QED  BY <2>1, <2>2, <2>3, <2>4
<1>3. d \in {[c EXCEPT !.pc = "answer"], [c EXCEPT !.pc = "find", !.n = @ + 1],
             [c EXCEPT !.pc = "swap", !.kind = "files"], [c EXCEPT !.pc = "swap", !.kind = "flags"]}
  BY DEF NextOf, FilesOf, FlagsOf
<1>4. d \in ImportCall
  BY <1>2, <1>3
<1>5. CASE d = [c EXCEPT !.pc = "answer"]
  BY <1>1, <1>4, <1>5 DEF ImportCall, Idle
<1>6. CASE d = [c EXCEPT !.pc = "find", !.n = @ + 1]
  BY <1>1, <1>4, <1>6 DEF ImportCall, Idle
<1>7. CASE d = [c EXCEPT !.pc = "swap", !.kind = "files"]
  BY <1>1, <1>4, <1>7 DEF ImportCall, Idle
<1>8. CASE d = [c EXCEPT !.pc = "swap", !.kind = "flags"]
  <2>1. d.kind = "flags" => d = FlagsOf(c)
    <3>1. d # NextOf(c)
      BY <1>4, <1>8 DEF NextOf, ImportCall
    <3>2. d # FilesOf(c)
      BY <1>4, <1>8, <3>1 DEF FilesOf, ImportCall
    <3>. QED  BY <3>1, <3>2
  <2>. QED  BY <1>1, <1>4, <1>8, <2>1 DEF ImportCall, Idle
<1>. QED  BY <1>3, <1>5, <1>6, <1>7, <1>8

\* The writes that an import has made, when it goes on.
LEMMA PastGoesOn ==
  ASSUME NEW c \in ImportCall, NEW d \in ImportCall, c.pc # "answer",
         \/ d.pc = "answer"
         \/ d.n > c.n
         \/ d.n = c.n /\ (Swapping(c) /\ c.kind = "files" => Swapping(d) /\ d.kind = "files")
  PROVE  PastGrows(c, d)
BY DEF PastGrows, PastIn, ImportCall, Swapping

\* An import is done with an entry, which is in place if it has to be.
LEMMA AfterEntry ==
  ASSUME NEW p \in Calls, NEW c \in ImportCall, call'[p] = NextOf(c), c.held = {}, EntryOK(c)',
         InOrder(p)' => \A n \in DOMAIN c.file : n <= c.n => Placed(c, n)'
  PROVE  ImportOK(p)'
<1>1. PICK d : d = NextOf(c)
  OBVIOUS
<1>2. /\ d \in ImportCall /\ d.file = c.file /\ d.after = c.after /\ d.held = {}
      /\ d.problems = c.problems /\ d.silent = c.silent /\ d.asof = c.asof
  BY <1>1, NextShape DEF EntryOK
<1>3. /\ c.n \in 1 .. Len(c.file) /\ DOMAIN c.file = 1 .. Len(c.file) /\ Len(c.file) \in Nat
  BY FileShape DEF EntryOK
<1>4. /\ d.pc \in {"answer", "find"}
      /\ d.n \in DOMAIN c.file
      /\ \A n \in DOMAIN c.file : n < d.n \/ d.pc = "answer" => n <= c.n
  BY <1>1, <1>3 DEF NextOf, ImportCall
<1>5. EntryOK(d)'
  BY <1>2, <1>4 DEF EntryOK
<1>6. WorkingOK(d)' /\ SwapOK(d)'
  BY <1>2, <1>4 DEF WorkingOK, SwapOK, Swapping
<1>7. ASSUME InOrder(p)' PROVE PlacedOK(d)'
  <2>1. \A n \in DOMAIN d.file : n < d.n \/ d.pc = "answer" => Placed(d, n)'
    BY <1>2, <1>4, <1>7 DEF Placed
  <2>. QED  BY <1>4, <2>1 DEF PlacedOK, Swapping
<1>. QED  BY <1>1, <1>5, <1>6, <1>7 DEF ImportOK

\* An import has written the entry's content into c.row, unless it will say it has not.
ContentPut(c) ==
  /\ \A n \in DOMAIN c.file : n < c.n => Placed(c, n)
  /\ c.row \in Titled(c.file[c.n].title)
  /\ c.n \notin c.problems => rows[c.row].text = c.file[c.n].text

\* And the entry's flags, unless that failed.
FlagsPut(c) ==
  c.n \notin c.problems \cup c.silent /\ Readable(c.file[c.n].flags) # {}
    => Vals(c.row, "flags") = Readable(c.file[c.n].flags)

LEMMA AfterFlags ==
  ASSUME NEW p \in Calls, NEW c \in ImportCall, call'[p] = FilesOf(c), c.held = {}, EntryOK(c)',
         c.row \in Ids', InOrder(p)' => ContentPut(c)' /\ FlagsPut(c)'
  PROVE  ImportOK(p)'
<1>1. CASE Readable(c.file[c.n].files) = {}
  <2>1. call'[p] = NextOf(c)
    BY <1>1 DEF FilesOf
  <2>2. ASSUME InOrder(p)' PROVE \A n \in DOMAIN c.file : n <= c.n => Placed(c, n)'
    <3>1. DOMAIN c.file = 1 .. Len(c.file) /\ c.n \in 1 .. Len(c.file) /\ Len(c.file) \in Nat
      BY FileShape DEF EntryOK
    <3>2. ContentPut(c)' /\ FlagsPut(c)'
      BY <2>2
    <3>3. c.n \notin c.problems => InPlace(c.file[c.n], c.n \in c.silent)'
      BY <1>1, <3>2 DEF ContentPut, FlagsPut, InPlace
    <3>4. Placed(c, c.n)'
      BY <3>3 DEF Placed
    <3>5. \A n \in DOMAIN c.file : n <= c.n => n < c.n \/ n = c.n
      BY <3>1
    <3>. QED  BY <3>2, <3>4, <3>5 DEF ContentPut
  <2>. QED  BY <2>1, <2>2, AfterEntry
<1>2. CASE Readable(c.file[c.n].files) # {}
  <2>1. PICK d : d = [c EXCEPT !.pc = "swap", !.kind = "files"]
    OBVIOUS
  <2>2. call'[p] = d /\ d = FilesOf(c)
    BY <1>2, <2>1 DEF FilesOf
  <2>3. /\ d \in ImportCall /\ d.file = c.file /\ d.after = c.after /\ d.held = {}
        /\ d.problems = c.problems /\ d.silent = c.silent /\ d.asof = c.asof /\ d.row = c.row
    BY <2>2, NextShape DEF EntryOK
  <2>4. d.pc = "swap" /\ d.kind = "files" /\ d.n = c.n
    BY <2>1 DEF ImportCall
  <2>5. EntryOK(d)' /\ WorkingOK(d)' /\ SwapOK(d)'
    BY <2>3, <2>4 DEF EntryOK, WorkingOK, SwapOK, Swapping
  <2>6. ASSUME InOrder(p)' PROVE PlacedOK(d)'
    <3>1. ContentPut(c)' /\ FlagsPut(c)'
      BY <2>6
    <3>2. \A n \in DOMAIN d.file : n < d.n \/ d.pc = "answer" => Placed(d, n)'
      BY <2>3, <2>4, <3>1 DEF Placed, ContentPut
    <3>. QED  BY <2>3, <2>4, <3>1, <3>2 DEF PlacedOK, ContentPut, FlagsPut, Swapping
  <2>. QED  BY <2>2, <2>5, <2>6 DEF ImportOK
<1>. QED  BY <1>1, <1>2

LEMMA AfterContent ==
  ASSUME NEW p \in Calls, NEW c \in ImportCall, call'[p] = FlagsOf(c), c.held = {}, EntryOK(c)',
         c.row \in Ids', InOrder(p)' => ContentPut(c)'
  PROVE  ImportOK(p)'
<1>1. CASE Readable(c.file[c.n].flags) = {}
  <2>1. call'[p] = FilesOf(c)
    BY <1>1 DEF FlagsOf
  <2>2. FlagsPut(c)'
    BY <1>1 DEF FlagsPut
  <2>. QED  BY <2>1, <2>2, AfterFlags
<1>2. CASE Readable(c.file[c.n].flags) # {}
  <2>1. PICK d : d = [c EXCEPT !.pc = "swap", !.kind = "flags"]
    OBVIOUS
  <2>2. call'[p] = d /\ d = FlagsOf(c)
    BY <1>2, <2>1 DEF FlagsOf
  <2>3. /\ d \in ImportCall /\ d.file = c.file /\ d.after = c.after /\ d.held = {}
        /\ d.problems = c.problems /\ d.silent = c.silent /\ d.asof = c.asof /\ d.row = c.row
    BY <2>2, NextShape DEF EntryOK
  <2>4. d.pc = "swap" /\ d.kind = "flags" /\ d.n = c.n
    BY <2>1 DEF ImportCall
  <2>5. EntryOK(d)' /\ WorkingOK(d)' /\ SwapOK(d)'
    BY <1>2, <2>3, <2>4 DEF EntryOK, WorkingOK, SwapOK, Swapping
  <2>6. ASSUME InOrder(p)' PROVE PlacedOK(d)'
    <3>1. \A n \in DOMAIN d.file : n < d.n \/ d.pc = "answer" => Placed(d, n)'
      BY <2>3, <2>4, <2>6 DEF Placed, ContentPut
    <3>. QED  BY <2>3, <2>4, <2>6, <3>1 DEF PlacedOK, ContentPut, Swapping
  <2>. QED  BY <2>2, <2>5, <2>6 DEF ImportOK
<1>. QED  BY <1>1, <1>2

------------------------------------------------------------------------------
\* What is known when a step of an import begins, and what has changed after it.
LEMMA ImportBegins ==
  ASSUME CInv, NEW p \in Calls, Importing(p)
  PROVE  /\ call[p] \in ImportCall /\ call[p] # Done
         /\ EntryOK(call[p]) /\ WorkingOK(call[p]) /\ SwapOK(call[p])
         /\ InOrder(p) => PlacedOK(call[p])
         /\ call[p].n \in DOMAIN call[p].file
<1>1. call[p] \in ImportCall
  BY ImportingCall
<1>2. ImportOK(p)
  BY DEF CInv, CallOK
<1>. QED  BY <1>1, <1>2 DEF ImportOK, EntryOK, Done, ImportCall

LEMMA StillInOrder ==
  ASSUME CInv, NEW p \in Calls, NEW d, Goto(p, d), d.dry = call[p].dry, d.after = call[p].after
  PROVE  /\ call'[p] = d /\ \A q \in Calls \ {p} : call'[q] = call[q]
         /\ InOrder(p)' => InOrder(p)
BY DEF Goto, CInv, LInv, RowsTyped, InOrder, Alone

LEMMA ContentSame ==
  ASSUME UNCHANGED contentVars
  PROVE  /\ Ids' = Ids /\ Live' = Live
         /\ \A title : Titled(title)' = Titled(title)
         /\ \A e, kind : Has(e, kind)' = Has(e, kind) /\ Vals(e, kind)' = Vals(e, kind)
         /\ \A c, n : Placed(c, n) => Placed(c, n)'
<1>1. rows' = rows /\ parts' = parts
  BY DEF contentVars
<1>2. Ids' = Ids /\ Live' = Live /\ \A title : Titled(title)' = Titled(title)
  BY <1>1 DEF Ids, Live, Titled
<1>3. \A e, kind : Has(e, kind)' = Has(e, kind) /\ Vals(e, kind)' = Vals(e, kind)
  BY <1>1 DEF Has, Vals
<1>. QED  BY <1>1, <1>2, <1>3 DEF Placed, InPlace

\* A step of an import that changes nothing but its own call.
LEMMA ImportMoves ==
  ASSUME CInv, UNCHANGED <<libVars, contentVars>>, NEW p \in Calls, Importing(p),
         NEW d \in ImportCall, Goto(p, d), PastGrows(call[p], d), ImportOK(p)',
         \A q \in Calls \ {p} : Importing(q) => d.held \cap call[q].held = {}
  PROVE  CInv'
<1>1. d \in CallRecord /\ d.pc # "append" /\ d # Idle
  BY DEF CallRecord, ImportCall, Idle
<1>2. LInv' /\ revisions' = revisions
  BY <1>1, QuietStep DEF CInv, libVars
<1>3. call'[p] = d
  BY DEF Goto, CInv, LInv, RowsTyped
<1>4. CallOK(p)'
  BY <1>3 DEF CallOK, ImportCall
<1>. QED  BY <1>1, <1>2, <1>4, ImportBegins, QuietKeeps

LEMMA StartImportKeeps ==
  ASSUME CInv, NEW p \in Calls, NEW file \in Files, NEW dry \in BOOLEAN, StartImport(p, file, dry)
  PROVE  CInv'
<1>1. PICK after : after = {q \in Calls : call[q] = Done}
  OBVIOUS
<1>2. PICK d : d = [pc |-> "find", file |-> file, dry |-> dry, n |-> 1, row |-> 0,
                    asof |-> 0, kind |-> "flags", snapshot |-> {}, held |-> {}, saw |-> {},
                    problems |-> {}, silent |-> {}, after |-> after]
  OBVIOUS
<1>3. call[p] = Idle /\ Goto(p, d) /\ UNCHANGED <<libVars, contentVars>>
  BY <1>1, <1>2 DEF StartImport
<1>4. d \in ImportCall /\ d \in CallRecord /\ d.pc # "append" /\ d # Idle
  BY <1>1, <1>2 DEF ImportCall, CallRecord, Kinds, Idle
<1>5. call'[p] = d /\ \A q \in Calls \ {p} : call'[q] = call[q]
  BY <1>3 DEF Goto, CInv, LInv, RowsTyped
<1>6. LInv' /\ revisions' = revisions
  BY <1>3, <1>4, QuietStep DEF CInv, libVars
<1>7. file \in Seq(Items) /\ file # <<>>
  BY ItemsAssumption
<1>8. 1 \in DOMAIN file /\ \A n \in DOMAIN file : ~(n < 1)
  BY <1>7, EmptySeq, LenProperties
<1>9. EntryOK(d)'
  <2>1. Len(rows) \in Nat /\ rows' = rows
    BY <1>3, RowsByNumber DEF CInv, contentVars
  <2>2. \A q \in after : q # p /\ call[q] = Done
    BY <1>1, <1>3 DEF Idle, Done
  <2>. QED  BY <1>1, <1>2, <1>5, <1>8, <2>1, <2>2 DEF EntryOK
<1>10. WorkingOK(d)' /\ SwapOK(d)' /\ PlacedOK(d)'
  BY <1>2, <1>8 DEF WorkingOK, SwapOK, PlacedOK, Swapping
<1>11. CallOK(p)'
  BY <1>2, <1>5, <1>9, <1>10 DEF CallOK, ImportOK
<1>12. PastGrows(call[p], d)
  BY <1>3 DEF PastGrows, PastIn, Idle, ImportCall
<1>. QED  BY <1>2, <1>3, <1>4, <1>6, <1>11, <1>12, QuietKeeps DEF Idle, Done

\* An entry's problem changes nothing else of the call.
LEMMA ProblemShape ==
  ASSUME NEW c \in ImportCall
  PROVE  /\ Problem(c) \in ImportCall
         /\ Problem(c).problems = c.problems \cup {c.n}
         /\ Problem(c).pc = c.pc /\ Problem(c).file = c.file /\ Problem(c).dry = c.dry
         /\ Problem(c).n = c.n /\ Problem(c).row = c.row /\ Problem(c).asof = c.asof
         /\ Problem(c).kind = c.kind /\ Problem(c).held = c.held /\ Problem(c).saw = c.saw
         /\ Problem(c).silent = c.silent /\ Problem(c).after = c.after
         /\ Problem(c).snapshot = c.snapshot
<1>1. c.problems \cup {c.n} \in SUBSET Nat
  BY DEF ImportCall
<1>2. [c EXCEPT !.problems = c.problems \cup {c.n}] \in ImportCall
  BY <1>1 DEF ImportCall
<1>. QED  BY <1>2 DEF Problem, ImportCall

\* A lookup that finds a challenge, or none, or fails.
LEMMA FindTitleKeeps ==
  ASSUME CInv, NEW p \in Calls, FindTitle(p)
  PROVE  CInv'
<1>1. Importing(p) /\ call[p].pc = "find" /\ UNCHANGED <<libVars, contentVars>>
  BY DEF FindTitle
<1>2. PICK c : c = call[p]
  OBVIOUS
<1>3. /\ c \in ImportCall /\ EntryOK(c) /\ SwapOK(c) /\ (InOrder(p) => PlacedOK(c))
      /\ c.n \in DOMAIN c.file /\ c.held = {} /\ c.pc = "find"
  BY <1>1, <1>2, ImportBegins DEF SwapOK
<1>4. PICK b : b = Converted([c EXCEPT !.asof = Len(rows)])
  OBVIOUS
<1>5. Len(rows) \in Nat /\ Ids = 1 .. Len(rows)
  BY RowsByNumber DEF CInv
<1>6. /\ b \in ImportCall /\ b.file = c.file /\ b.dry = c.dry /\ b.n = c.n /\ b.held = {}
      /\ c.problems \subseteq b.problems /\ b.silent = c.silent /\ b.after = c.after
      /\ b.asof = Len(rows) /\ b.pc = "find"
  <2>1. PICK a : a = [c EXCEPT !.asof = Len(rows)]
    OBVIOUS
  <2>2. /\ a \in ImportCall /\ a.file = c.file /\ a.dry = c.dry /\ a.n = c.n /\ a.held = {}
        /\ a.problems = c.problems /\ a.silent = c.silent /\ a.after = c.after
        /\ a.asof = Len(rows) /\ a.pc = "find"
    BY <1>3, <1>5, <2>1 DEF ImportCall
  <2>3. b \in {a, Problem(a)}
    BY <1>4, <2>1 DEF Converted
  <2>. QED  BY <2>2, <2>3, ProblemShape
<1>7. \A n \in DOMAIN c.file : InOrder(p) /\ n < c.n => Placed(b, n)'
  <2>1. \A n \in DOMAIN c.file : InOrder(p) /\ n < c.n => Placed(c, n)
    BY <1>3 DEF PlacedOK
  <2>2. \A n \in DOMAIN c.file : InOrder(p) /\ n < c.n => Placed(c, n)'
    BY <1>1, <2>1, ContentSame
  <2>. QED  BY <1>6, <2>2 DEF Placed
<1>8. ASSUME NEW d \in ImportCall, Goto(p, d), d.dry = c.dry, d.after = c.after
      PROVE  /\ call'[p] = d
             /\ InOrder(p)' => InOrder(p)
             /\ EntryOK(b)'
  <2>1. call'[p] = d /\ (InOrder(p)' => InOrder(p)) /\ \A q \in Calls \ {p} : call'[q] = call[q]
    BY <1>2, <1>8, StillInOrder
  <2>2. b.asof <= Len(rows')
    BY <1>1, <1>5, <1>6 DEF contentVars
  <2>3. \A q \in c.after : q \in Calls /\ call[q] = Done /\ q # p
    BY <1>2, <1>3, <1>1, ImportBegins DEF EntryOK, ImportCall
  <2>. QED  BY <1>3, <1>6, <2>1, <2>2, <2>3 DEF EntryOK
<1>9. ASSUME NEW e \in {b, Problem(b)}, NextItem(p, e),
             InOrder(p) => Placed(e, c.n)'
      PROVE  CInv'
  <2>1. /\ e \in ImportCall /\ e.file = c.file /\ e.dry = c.dry /\ e.n = c.n /\ e.held = {}
        /\ e.silent = c.silent /\ e.after = c.after /\ e.asof = b.asof
        /\ c.problems \subseteq e.problems
    BY <1>6, ProblemShape
  <2>2. PICK d : d = NextOf(e)
    OBVIOUS
  <2>3. Goto(p, d)
    BY <1>9, <2>2, WhereNext
  <2>4. /\ d \in ImportCall /\ d.dry = c.dry /\ d.after = c.after /\ d.held = {}
        /\ d.pc = "answer" \/ d.n > c.n \/ d.n = c.n
    <3>1. c.n \in Nat
      BY <1>3 DEF ImportCall
    <3>. QED  BY <1>3, <2>1, <2>2, <3>1, NextShape
  <2>5. call'[p] = d /\ (InOrder(p)' => InOrder(p)) /\ EntryOK(b)'
    BY <1>8, <2>3, <2>4
  <2>6. EntryOK(e)'
    BY <1>6, <2>1, <2>5 DEF EntryOK
  <2>7. ASSUME InOrder(p)' PROVE \A n \in DOMAIN e.file : n <= e.n => Placed(e, n)'
    <3>1. \A n \in DOMAIN c.file : n < c.n => Placed(b, n)'
      BY <1>7, <2>5, <2>7
    <3>2. \A n \in DOMAIN c.file : n < c.n => Placed(e, n)'
      <4>1. b.problems \subseteq e.problems
        BY <1>6, <1>9, ProblemShape
      <4>. QED  BY <1>6, <2>1, <3>1, <4>1 DEF Placed
    <3>3. DOMAIN c.file = 1 .. Len(c.file) /\ Len(c.file) \in Nat /\ c.n \in Nat
      BY <1>3, FileShape DEF ImportCall
    <3>4. \A n \in DOMAIN c.file : n <= c.n => n < c.n \/ n = c.n
      BY <3>3
    <3>. QED  BY <1>9, <2>1, <2>5, <2>7, <3>2, <3>4
  <2>8. ImportOK(p)'
    BY <2>1, <2>2, <2>5, <2>6, <2>7, AfterEntry
  <2>9. PastGrows(c, d)
    BY <1>3, <2>4, PastGoesOn DEF Swapping
  <2>. QED  BY <1>1, <1>2, <2>3, <2>4, <2>8, <2>9, ImportMoves
<1>10. CASE b.dry /\ NextItem(p, b)
  BY <1>6, <1>8, <1>9, <1>10, <1>2 DEF InOrder
<1>11. CASE NextItem(p, Problem(b))
  <2>1. Placed(Problem(b), c.n)'
    BY <1>6, ProblemShape DEF Placed
  <2>. QED  BY <1>9, <1>11, <2>1
<1>12. ASSUME NEW e \in Titled(c.file[c.n].title), Goto(p, [b EXCEPT !.pc = "update", !.row = e])
       PROVE  CInv'
  <2>1. PICK d : d = [b EXCEPT !.pc = "update", !.row = e]
    OBVIOUS
  <2>2. e \in Ids /\ e \in Nat
    BY <1>5 DEF Titled, Live
  <2>3. /\ d \in ImportCall /\ d.file = c.file /\ d.dry = c.dry /\ d.n = c.n /\ d.held = {}
        /\ d.problems = b.problems /\ d.silent = c.silent /\ d.after = c.after /\ d.asof = b.asof
        /\ d.pc = "update" /\ d.row = e
    BY <1>6, <2>1, <2>2 DEF ImportCall
  <2>4. call'[p] = d /\ (InOrder(p)' => InOrder(p)) /\ EntryOK(b)'
    BY <1>8, <1>12, <2>1, <2>3
  <2>5. EntryOK(d)'
    BY <1>6, <2>3, <2>4 DEF EntryOK
  <2>6. e \in Ids' /\ e \in Titled(c.file[c.n].title)'
    BY <1>1, <2>2, ContentSame
  <2>7. WorkingOK(d)' /\ SwapOK(d)'
    BY <2>3, <2>6 DEF WorkingOK, SwapOK, Swapping
  <2>8. InOrder(p)' => PlacedOK(d)'
    <3>1. InOrder(p)' => \A n \in DOMAIN c.file : n < c.n => Placed(d, n)'
      BY <1>6, <1>7, <2>3, <2>4 DEF Placed
    <3>. QED  BY <2>3, <2>6, <3>1 DEF PlacedOK, Swapping
  <2>9. ImportOK(p)'
    BY <2>4, <2>5, <2>7, <2>8 DEF ImportOK
  <2>10. PastGrows(c, d)
    BY <1>3, <2>3, PastGoesOn DEF Swapping
  <2>. QED  BY <1>1, <1>2, <1>12, <2>1, <2>3, <2>9, <2>10, ImportMoves
<1>13. CASE Titled(c.file[c.n].title) = {} /\ Goto(p, [b EXCEPT !.pc = "create"])
  <2>1. PICK d : d = [b EXCEPT !.pc = "create"]
    OBVIOUS
  <2>2. /\ d \in ImportCall /\ d.file = c.file /\ d.dry = c.dry /\ d.n = c.n /\ d.held = {}
        /\ d.problems = b.problems /\ d.silent = c.silent /\ d.after = c.after /\ d.asof = b.asof
        /\ d.pc = "create"
    BY <1>6, <2>1 DEF ImportCall
  <2>3. call'[p] = d /\ (InOrder(p)' => InOrder(p)) /\ EntryOK(b)'
    BY <1>8, <1>13, <2>1, <2>2
  <2>4. EntryOK(d)'
    BY <1>6, <2>2, <2>3 DEF EntryOK
  <2>5. rows' = rows /\ Live' = Live
    BY <1>1, ContentSame DEF contentVars
  <2>6. WorkingOK(d)' /\ SwapOK(d)'
    BY <1>13, <2>2, <2>5 DEF WorkingOK, SwapOK, Swapping, Titled
  <2>7. InOrder(p)' => PlacedOK(d)'
    <3>1. InOrder(p)' => \A n \in DOMAIN c.file : n < c.n => Placed(d, n)'
      BY <1>6, <1>7, <2>2, <2>3 DEF Placed
    <3>. QED  BY <2>2, <3>1 DEF PlacedOK, Swapping
  <2>8. ImportOK(p)'
    BY <2>3, <2>4, <2>6, <2>7 DEF ImportOK
  <2>9. PastGrows(c, d)
    BY <1>3, <2>2, PastGoesOn DEF Swapping
  <2>. QED  BY <1>1, <1>2, <1>13, <2>1, <2>2, <2>8, <2>9, ImportMoves
<1>. QED  BY <1>2, <1>4, <1>10, <1>11, <1>12, <1>13 DEF FindTitle, Item

------------------------------------------------------------------------------
\* Entries whose title is another stay in place when one challenge changes.
LEMMA PlacedElsewhere ==
  ASSUME NEW c \in ImportCall, c.n \in DOMAIN c.file, NEW f,
         \A e \in Live \ {f} : /\ e \in Live'
                               /\ rows'[e] = rows[e]
                               /\ \A kind \in Kinds : Vals(e, kind)' = Vals(e, kind),
         f \in Live => rows[f].title = c.file[c.n].title,
         NEW n \in DOMAIN c.file, n < c.n, Placed(c, n)
  PROVE  Placed(c, n)'
<1>1. SUFFICES ASSUME n \notin c.problems, LastOfTitle(c.file, n)
               PROVE  InPlace(c.file[n], n \in c.silent)'
  BY DEF Placed
<1>2. c.file[c.n].title # c.file[n].title
  <2>1. c.n \in n + 1 .. Len(c.file)
    <3>1. DOMAIN c.file = 1 .. Len(c.file) /\ Len(c.file) \in Nat
      BY FileShape
    <3>. QED  BY <3>1
  <2>. QED  BY <1>1, <2>1 DEF LastOfTitle
<1>3. PICK e \in Titled(c.file[n].title) :
        /\ rows[e].text = c.file[n].text
        /\ Readable(c.file[n].flags) # {} /\ n \notin c.silent
             => Vals(e, "flags") = Readable(c.file[n].flags)
        /\ Readable(c.file[n].files) # {} => Vals(e, "files") = Readable(c.file[n].files)
  BY <1>1 DEF Placed, InPlace
<1>4. e \in Live /\ e # f
  BY <1>2, <1>3 DEF Titled
<1>5. e \in Live' /\ rows'[e] = rows[e] /\ \A kind \in Kinds : Vals(e, kind)' = Vals(e, kind)
  BY <1>4
<1>6. e \in Titled(c.file[n].title)'
  BY <1>3, <1>5 DEF Titled
<1>. QED  BY <1>3, <1>5, <1>6 DEF InPlace, Kinds

\* A step of an import that writes, and holds nothing afterwards.
LEMMA ImportWrites ==
  ASSUME CInv, UNCHANGED libVars, NEW p \in Calls, Importing(p),
         NEW d \in ImportCall, Goto(p, d), PastGrows(call[p], d), ImportOK(p)', d.held = {},
         TablesTyped', RowsGrow, PartsMove(p),
         \A x \in parts' : x.row \in Live',
         \A x \in parts' \ parts : Past(x.write, x.kind)' /\ \A w \in x.saw : Past(w, x.kind)',
         SwapsMixOnlyByRace', DuplicateOnlyByRace'
  PROVE  CInv'
<1>1. d \in CallRecord /\ d.pc # "append" /\ d # Idle
  BY DEF CallRecord, ImportCall, Idle
<1>2. LInv' /\ revisions' = revisions
  BY <1>1, QuietStep DEF CInv, libVars
<1>3. call'[p] = d
  BY DEF Goto, CInv, LInv, RowsTyped
<1>4. CallOK(p)'
  BY <1>3 DEF CallOK, ImportCall
<1>. QED  BY <1>1, <1>2, <1>4, ImportBegins, StepKeeps

\* Nobody's parts are taken if none are.
LEMMA NoneTaken ==
  ASSUME CInv, NEW p \in Calls, parts \subseteq parts',
         \A x \in parts' \ parts : ~Past(x.write, x.kind)
  PROVE  PartsMove(p)
BY ImportBegins DEF PartsMove, SwapOK

LEMMA UpdateContentKeeps ==
  ASSUME CInv, NEW p \in Calls, UpdateContent(p)
  PROVE  CInv'
<1>1. Importing(p) /\ call[p].pc = "update" /\ UNCHANGED <<libVars, parts>>
  BY DEF UpdateContent
<1>2. PICK c : c = call[p]
  OBVIOUS
<1>3. /\ c \in ImportCall /\ EntryOK(c) /\ WorkingOK(c) /\ SwapOK(c) /\ (InOrder(p) => PlacedOK(c))
      /\ c.n \in DOMAIN c.file /\ c.held = {} /\ c.pc = "update" /\ c.row \in Ids
  BY <1>1, <1>2, ImportBegins DEF SwapOK, WorkingOK
<1>4. /\ Len(rows) \in Nat /\ Ids = 1 .. Len(rows) /\ rows \in Seq(ChallengeRow \cup {Gone})
      /\ \A e \in Live : rows[e] \in ChallengeRow
      /\ parts \subseteq PartRecord
  BY RowsByNumber DEF CInv, TablesTyped
<1>5. ASSUME NEW b \in {c, Problem(c)}, NEW d, d = FlagsOf(b), ThenFlags(p, b), rows' \in {rows, [rows EXCEPT ![c.row].text = c.file[c.n].text]}
      PROVE  /\ d \in ImportCall /\ Goto(p, d) /\ d.held = {} /\ PastGrows(c, d)
             /\ b \in ImportCall /\ b.held = {} /\ call'[p] = d /\ EntryOK(b)'
             /\ InOrder(p)' => InOrder(p)
             /\ c.row \in Ids'
  <2>1. /\ b \in ImportCall /\ b.file = c.file /\ b.dry = c.dry /\ b.n = c.n /\ b.held = {}
        /\ b.silent = c.silent /\ b.after = c.after /\ b.asof = c.asof /\ b.row = c.row
        /\ c.problems \subseteq b.problems
    BY <1>3, <1>5, ProblemShape
  <2>2. Goto(p, d)
    BY <1>5, WhereNext
  <2>3. /\ d \in ImportCall /\ d.dry = c.dry /\ d.after = c.after /\ d.held = {}
        /\ d.pc = "answer" \/ d.n > c.n \/ d.n = c.n
    <3>1. c.n \in Nat
      BY <1>3 DEF ImportCall
    <3>. QED  BY <1>3, <1>5, <2>1, <3>1, NextShape
  <2>4. PastGrows(c, d)
    BY <1>3, <2>3, PastGoesOn DEF Swapping
  <2>5. call'[p] = d /\ (InOrder(p)' => InOrder(p)) /\ \A q \in Calls \ {p} : call'[q] = call[q]
    BY <1>2, <2>2, <2>3, StillInOrder
  <2>6. Len(rows') = Len(rows) /\ Ids' = Ids
    <3>1. CASE rows' = rows
      BY <3>1 DEF Ids
    <3>2. CASE rows' = [rows EXCEPT ![c.row].text = c.file[c.n].text]
      <4>1. DOMAIN rows' = DOMAIN rows
        BY <3>2
      <4>2. PICK r : r = [rows[c.row] EXCEPT !.text = c.file[c.n].text]
        OBVIOUS
      <4>3. rows' = [rows EXCEPT ![c.row] = r]
        BY <3>2, <4>2
      <4>4. rows' \in [1 .. Len(rows) -> ChallengeRow \cup {Gone, r}]
        <5>1. rows \in [1 .. Len(rows) -> ChallengeRow \cup {Gone}]
          BY <1>4, LenProperties
        <5>. QED  BY <4>3, <5>1
      <4>5. rows' \in Seq(ChallengeRow \cup {Gone, r})
        BY <1>4, <4>4, SeqDef
      <4>. QED  BY <1>4, <4>1, <4>4, <4>5, LenProperties DEF Ids
    <3>. QED  BY <1>5, <3>1, <3>2
  <2>7. \A q \in c.after : q \in Calls /\ call[q] = Done /\ q # p
    BY <1>1, <1>2, <1>3, ImportBegins DEF EntryOK, ImportCall
  <2>8. EntryOK(b)'
    BY <1>3, <2>1, <2>5, <2>6, <2>7 DEF EntryOK
  <2>. QED  BY <1>3, <2>1, <2>2, <2>3, <2>4, <2>5, <2>6, <2>8
<1>6. CASE ThenFlags(p, Problem(c)) /\ UNCHANGED rows
  <2>1. PICK b : b = Problem(c)
    OBVIOUS
  <2>2. PICK d : d = FlagsOf(b)
    OBVIOUS
  <2>3. /\ d \in ImportCall /\ Goto(p, d) /\ d.held = {} /\ PastGrows(c, d)
        /\ b \in ImportCall /\ b.held = {} /\ call'[p] = d /\ EntryOK(b)'
        /\ InOrder(p)' => InOrder(p)
        /\ c.row \in Ids'
    BY <1>5, <1>6, <2>1, <2>2
  <2>4. /\ b.file = c.file /\ b.n = c.n /\ b.row = c.row /\ b.silent = c.silent
        /\ b.problems = c.problems \cup {c.n}
    BY <1>3, <2>1, ProblemShape
  <2>5. UNCHANGED contentVars
    BY <1>1, <1>6 DEF contentVars
  <2>6. InOrder(p)' => ContentPut(b)'
    <3>1. SUFFICES ASSUME InOrder(p)' PROVE ContentPut(b)'
      OBVIOUS
    <3>2. /\ \A n \in DOMAIN c.file : n < c.n => Placed(c, n)
          /\ c.row \in Titled(c.file[c.n].title)
      BY <1>3, <2>3, <3>1 DEF PlacedOK
    <3>3. /\ \A n \in DOMAIN c.file : n < c.n => Placed(c, n)'
          /\ c.row \in Titled(c.file[c.n].title)'
      BY <2>5, <3>2, ContentSame
    <3>4. \A n \in DOMAIN c.file : n < c.n => Placed(b, n)'
      BY <2>4, <3>3 DEF Placed
    <3>. QED  BY <2>4, <3>3, <3>4 DEF ContentPut
  <2>7. ImportOK(p)'
    BY <2>2, <2>3, <2>4, <2>6, AfterContent
  <2>. QED  BY <1>1, <1>2, <2>3, <2>5, <2>7, ImportMoves
<1>7. CASE /\ rows[c.row] # Gone
           /\ rows' = [rows EXCEPT ![c.row].text = c.file[c.n].text]
           /\ ThenFlags(p, c)
  <2>1. PICK d : d = FlagsOf(c)
    OBVIOUS
  <2>2. /\ d \in ImportCall /\ Goto(p, d) /\ d.held = {} /\ PastGrows(c, d)
        /\ call'[p] = d /\ EntryOK(c)'
        /\ InOrder(p)' => InOrder(p)
        /\ c.row \in Ids'
    BY <1>5, <1>7, <2>1
  <2>3. PICK r : r = [rows[c.row] EXCEPT !.text = c.file[c.n].text]
    OBVIOUS
  <2>4. /\ r \in ChallengeRow /\ r.text = c.file[c.n].text /\ r.title = rows[c.row].title
        /\ r.by = rows[c.row].by /\ r.asof = rows[c.row].asof
    <3>1. rows[c.row] \in ChallengeRow
      BY <1>3, <1>4, <1>7 DEF Live
    <3>2. c.file[c.n].text \in {x.text : x \in Items \cup Bodies}
      BY <1>3, FileShape
    <3>. QED  BY <2>3, <3>1, <3>2 DEF ChallengeRow
  <2>5. rows' = [rows EXCEPT ![c.row] = r]
    BY <1>7, <2>3
  <2>6. /\ rows' \in Seq(ChallengeRow \cup {Gone}) /\ Len(rows') = Len(rows)
        /\ \A e \in Ids : rows'[e] = IF e = c.row THEN r ELSE rows[e]
    BY <1>3, <1>4, <2>4, <2>5, ExceptSeq
  <2>7. Ids' = Ids /\ Live' = Live
    <3>1. Ids' = Ids
      BY <2>5 DEF Ids
    <3>. QED  BY <1>7, <2>4, <2>6, <3>1, GoneAssumption DEF Live
  <2>8. RowsGrow
    BY <1>4, <1>7, <2>4, <2>6 DEF RowsGrow
  <2>9. /\ TablesTyped' /\ SwapsMixOnlyByRace' /\ PartsMove(p) /\ DuplicateOnlyByRace'
        /\ \A x \in parts' : x.row \in Live'
    <3>1. TablesTyped'
      BY <1>1, <1>4, <2>6 DEF TablesTyped
    <3>. QED  BY <1>1, <2>6, <2>7, <2>8, <3>1, NoneTaken, NoNewDuplicate
              DEF CInv, SwapsMixOnlyByRace, PartOK
  <2>10. InOrder(p)' => ContentPut(c)'
    <3>1. SUFFICES ASSUME InOrder(p)' PROVE ContentPut(c)'
      OBVIOUS
    <3>2. /\ \A n \in DOMAIN c.file : n < c.n => Placed(c, n)
          /\ c.row \in Titled(c.file[c.n].title)
      BY <1>3, <2>2, <3>1 DEF PlacedOK
    <3>3. \A e \in Live \ {c.row} : /\ e \in Live'
                                    /\ rows'[e] = rows[e]
                                    /\ \A kind \in Kinds : Vals(e, kind)' = Vals(e, kind)
      BY <1>1, <2>6, <2>7 DEF Vals, Has, Live
    <3>4. \A n \in DOMAIN c.file : n < c.n => Placed(c, n)'
      BY <1>3, <3>2, <3>3, PlacedElsewhere DEF Titled
    <3>5. c.row \in Titled(c.file[c.n].title)' /\ rows'[c.row].text = c.file[c.n].text
      BY <1>3, <2>4, <2>6, <2>7, <3>2 DEF Titled
    <3>. QED  BY <3>4, <3>5 DEF ContentPut
  <2>11. ImportOK(p)'
    BY <1>3, <2>1, <2>2, <2>10, AfterContent
  <2>. QED  BY <1>1, <1>2, <2>2, <2>8, <2>9, <2>11, ImportWrites
<1>. QED  BY <1>2, <1>6, <1>7 DEF UpdateContent, Item

------------------------------------------------------------------------------
\* A step within ReplaceFlags or ReplaceChallengeFiles, before it commits.
LEMMA SwapMoves ==
  ASSUME CInv, UNCHANGED <<libVars, contentVars>>, NEW p \in Calls, Importing(p), NEW c, c = call[p],
         Swapping(c), NEW d \in ImportCall, Goto(p, d), Swapping(d),
         d.file = c.file, d.dry = c.dry, d.n = c.n, d.row = c.row, d.asof = c.asof, d.kind = c.kind,
         d.problems = c.problems, d.silent = c.silent, d.after = c.after, SwapOK(d)',
         InOrder(p) => /\ d.pc = "delete" => d.snapshot = Has(d.row, d.kind)
                       /\ d.pc = "put" => d.held = Has(d.row, d.kind),
         \A q \in Calls \ {p} : Importing(q) => d.held \cap call[q].held = {}
  PROVE  CInv'
<1>1. /\ c \in ImportCall /\ EntryOK(c) /\ WorkingOK(c) /\ (InOrder(p) => PlacedOK(c))
      /\ c # Done
  BY ImportBegins
<1>2. call'[p] = d /\ (InOrder(p)' => InOrder(p)) /\ \A q \in Calls \ {p} : call'[q] = call[q]
  BY StillInOrder
<1>3. rows' = rows /\ Ids' = Ids
  BY ContentSame DEF contentVars
<1>4. EntryOK(d)'
  <2>1. \A q \in c.after : q \in Calls /\ call[q] = Done /\ q # p
    BY <1>1 DEF EntryOK, ImportCall
  <2>. QED  BY <1>1, <1>2, <1>3, <2>1 DEF EntryOK
<1>5. WorkingOK(d)'
  BY <1>1, <1>3 DEF WorkingOK, Swapping
<1>6. InOrder(p)' => PlacedOK(d)'
  <2>1. SUFFICES ASSUME InOrder(p)' PROVE PlacedOK(d)'
    OBVIOUS
  <2>2. PlacedOK(c) /\ InOrder(p)
    BY <1>1, <1>2, <2>1
  <2>3. \A n \in DOMAIN c.file : n < c.n => Placed(d, n)'
    <3>1. \A n \in DOMAIN c.file : n < c.n => Placed(c, n)'
      BY <2>2, ContentSame DEF PlacedOK
    <3>. QED  BY <3>1 DEF Placed
  <2>4. /\ c.row \in Titled(c.file[c.n].title)
        /\ c.n \notin c.problems => rows[c.row].text = c.file[c.n].text
        /\ c.kind = "files" /\ c.n \notin c.problems \cup c.silent
             => (Readable(c.file[c.n].flags) # {} => Vals(c.row, "flags") = Readable(c.file[c.n].flags))
    BY <2>2 DEF PlacedOK
  <2>5. /\ c.row \in Titled(c.file[c.n].title)'
        /\ Vals(c.row, "flags")' = Vals(c.row, "flags")
        /\ Has(d.row, d.kind)' = Has(d.row, d.kind)
    BY <2>4, ContentSame
  <2>. QED  BY <1>3, <2>2, <2>3, <2>4, <2>5 DEF PlacedOK, Swapping
<1>7. ImportOK(p)'
  BY <1>2, <1>4, <1>5, <1>6 DEF ImportOK
<1>8. PastGrows(c, d)
  BY <1>1, PastGoesOn DEF Swapping
<1>. QED  BY <1>7, <1>8, ImportMoves

LEMMA OpenSwapKeeps ==
  ASSUME CInv, NEW p \in Calls, OpenSwap(p)
  PROVE  CInv'
<1>1. PICK c : c = call[p]
  OBVIOUS
<1>2. PICK s : s = Has(c.row, c.kind)
  OBVIOUS
<1>3. PICK d : d = [c EXCEPT !.pc = "delete", !.snapshot = s]
  OBVIOUS
<1>4. /\ Importing(p) /\ c.pc = "swap" /\ Goto(p, d) /\ UNCHANGED <<libVars, contentVars>>
  BY <1>1, <1>2, <1>3 DEF OpenSwap
<1>5. c \in ImportCall /\ c.held = {}
  BY <1>1, <1>4, ImportBegins DEF SwapOK
<1>6. s \subseteq parts /\ \A x \in parts : x \in s <=> Beside(c, x)
  BY <1>2 DEF Has, Beside
<1>7. s \subseteq PartRecord
  BY <1>6 DEF CInv, TablesTyped
<1>8. /\ d \in ImportCall /\ d.pc = "delete" /\ d.snapshot = s /\ d.held = {}
      /\ d.file = c.file /\ d.dry = c.dry /\ d.n = c.n /\ d.row = c.row /\ d.asof = c.asof
      /\ d.kind = c.kind /\ d.problems = c.problems /\ d.silent = c.silent /\ d.after = c.after
  BY <1>3, <1>5, <1>7 DEF ImportCall
<1>9. SwapOK(d)'
  <2>1. parts' = parts
    BY <1>4 DEF contentVars
  <2>2. \A x \in s : Past(x.write, x.kind) /\ x.write \in Writes /\ x.kind = c.kind /\ c.kind \in Kinds
    BY <1>5, <1>6 DEF CInv, PartOK, Beside, TablesTyped, PartRecord, ImportCall
  <2>3. PastGrows(call[p], d)
    BY <1>1, <1>4, <1>5, <1>8, PastGoesOn DEF Swapping
  <2>4. \A x \in s : Past(x.write, c.kind)'
    BY <1>4, <2>2, <2>3, PastStays
  <2>. QED  BY <1>6, <1>8, <2>1, <2>4 DEF SwapOK, Beside
<1>. QED  BY <1>1, <1>2, <1>4, <1>8, <1>9, SwapMoves DEF Swapping

LEMMA DeletePartsKeeps ==
  ASSUME CInv, NEW p \in Calls, DeleteParts(p)
  PROVE  CInv'
<1>1. PICK c : c = call[p]
  OBVIOUS
<1>2. PICK h : h = c.snapshot \cap parts
  OBVIOUS
<1>3. PICK w : w = {x.write : x \in c.snapshot}
  OBVIOUS
<1>4. PICK d : d = [c EXCEPT !.pc = "put", !.snapshot = {}, !.held = h, !.saw = w]
  OBVIOUS
<1>5. /\ Importing(p) /\ c.pc = "delete" /\ Goto(p, d) /\ UNCHANGED <<libVars, contentVars>>
      /\ \A q \in Calls, x \in c.snapshot : ~Holds(q, x)
  BY <1>1, <1>2, <1>3, <1>4 DEF DeleteParts
<1>6. c \in ImportCall /\ SwapOK(c) /\ (InOrder(p) => PlacedOK(c))
  BY <1>1, <1>5, ImportBegins
<1>7. h \subseteq PartRecord /\ w \subseteq Writes
  BY <1>2, <1>3, <1>6 DEF ImportCall, PartRecord
<1>8. /\ d \in ImportCall /\ d.pc = "put" /\ d.held = h /\ d.saw = w
      /\ d.file = c.file /\ d.dry = c.dry /\ d.n = c.n /\ d.row = c.row /\ d.asof = c.asof
      /\ d.kind = c.kind /\ d.problems = c.problems /\ d.silent = c.silent /\ d.after = c.after
  BY <1>4, <1>6, <1>7 DEF ImportCall
<1>9. /\ \A x \in c.snapshot : Beside(c, x) /\ Past(x.write, c.kind)
      /\ \A x \in c.snapshot, y \in parts : Beside(c, y) /\ y.write = x.write => y \in c.snapshot
  BY <1>5, <1>6 DEF SwapOK
<1>10. SwapOK(d)'
  <2>1. parts' = parts
    BY <1>5 DEF contentVars
  <2>2. PastGrows(call[p], d)
    BY <1>1, <1>5, <1>6, <1>8, PastGoesOn DEF Swapping
  <2>3. \A v \in w : Past(v, c.kind) /\ v \in Writes /\ c.kind \in Kinds
    BY <1>3, <1>6, <1>7, <1>9 DEF ImportCall
  <2>4. \A v \in w : Past(v, c.kind)'
    BY <1>5, <2>2, <2>3, PastStays
  <2>5. \A y \in parts : Beside(c, y) /\ y.write \in w => y \in h
    BY <1>2, <1>3, <1>9
  <2>6. \A x \in h : Beside(c, x) /\ x \in parts
    BY <1>2, <1>9
  <2>. QED  BY <1>8, <2>1, <2>4, <2>5, <2>6 DEF SwapOK, Beside
<1>11. InOrder(p) => d.held = Has(d.row, d.kind)
  <2>1. InOrder(p) => c.snapshot = Has(c.row, c.kind)
    BY <1>5, <1>6 DEF PlacedOK
  <2>2. Has(c.row, c.kind) \subseteq parts
    BY DEF Has
  <2>. QED  BY <1>2, <1>8, <2>1, <2>2
<1>12. \A q \in Calls \ {p} : Importing(q) => d.held \cap call[q].held = {}
  BY <1>2, <1>5, <1>8 DEF Holds
<1>. QED  BY <1>1, <1>5, <1>8, <1>10, <1>11, <1>12, SwapMoves DEF Swapping

\* The answer is given, and the call is over.
LEMMA AnswerImportKeeps ==
  ASSUME CInv, NEW p \in Calls, AnswerImport(p)
  PROVE  CInv'
<1>1. /\ Importing(p) /\ Goto(p, Done) /\ UNCHANGED <<libVars, contentVars>>
  BY DEF AnswerImport
<1>2. Done \in CallRecord /\ Done.pc = "done" /\ Done # Idle /\ Done \notin ImportCall
  BY DEF Done, Idle, CallRecord, RestCall, ImportCall
<1>3. LInv' /\ revisions' = revisions
  BY <1>1, <1>2, QuietStep DEF CInv, libVars
<1>4. call'[p] = Done
  BY <1>1 DEF Goto, CInv, LInv, RowsTyped
<1>5. CallOK(p)'
  BY <1>2, <1>4 DEF CallOK, Importing, Done
<1>6. PastGrows(call[p], Done)
  BY <1>2 DEF PastGrows, PastIn
<1>. QED  BY <1>1, <1>2, <1>3, <1>5, <1>6, ImportBegins, QuietKeeps

\* The transaction is over, and holds nothing.
LEMMA ReleasedShape ==
  ASSUME NEW c \in ImportCall
  PROVE  /\ Released(c) \in ImportCall /\ Released(c).held = {} /\ Released(c).pc = c.pc
         /\ Released(c).file = c.file /\ Released(c).dry = c.dry /\ Released(c).n = c.n
         /\ Released(c).row = c.row /\ Released(c).asof = c.asof /\ Released(c).kind = c.kind
         /\ Released(c).problems = c.problems /\ Released(c).silent = c.silent
         /\ Released(c).after = c.after
<1>1. [c EXCEPT !.snapshot = {}, !.held = {}, !.saw = {}] \in ImportCall
  BY DEF ImportCall
<1>. QED  BY <1>1 DEF Released, ImportCall

LEMMA SilentShape ==
  ASSUME NEW b \in ImportCall, NEW c, c = [b EXCEPT !.silent = @ \cup {b.n}]
  PROVE  /\ c \in ImportCall /\ c.silent = b.silent \cup {b.n} /\ c.held = b.held /\ c.pc = b.pc
         /\ c.file = b.file /\ c.dry = b.dry /\ c.n = b.n /\ c.row = b.row /\ c.asof = b.asof
         /\ c.kind = b.kind /\ c.problems = b.problems /\ c.after = b.after
<1>1. b.silent \cup {b.n} \in SUBSET Nat
  BY DEF ImportCall
<1>2. [b EXCEPT !.silent = b.silent \cup {b.n}] \in ImportCall
  BY <1>1 DEF ImportCall
<1>. QED  BY <1>2 DEF ImportCall

\* After a swap an import goes on to files or to the next entry, whatever it notes down.
LEMMA AfterSwapGoes ==
  ASSUME CInv, NEW p \in Calls, Importing(p), NEW c, c = call[p], Swapping(c), NEW b \in ImportCall,
         b.file = c.file, b.dry = c.dry, b.n = c.n, b.held = {}, b.asof = c.asof, b.after = c.after,
         NEW d, c.kind = "flags" => d = FilesOf(b), c.kind # "flags" => d = NextOf(b), Goto(p, d),
         Len(rows') = Len(rows)
  PROVE  /\ d \in ImportCall /\ d.held = {} /\ PastGrows(c, d) /\ PastIn(d, c.n, c.kind)
         /\ call'[p] = d /\ EntryOK(b)'
         /\ InOrder(p)' => InOrder(p)
<1>1. c \in ImportCall /\ EntryOK(c) /\ c # Done /\ c.n \in DOMAIN c.file /\ c.n \in Nat
  BY ImportBegins DEF ImportCall
<1>2. /\ d \in ImportCall /\ d.dry = c.dry /\ d.after = c.after /\ d.held = {}
      /\ \/ d.pc = "answer"
         \/ d.n = c.n + 1
         \/ c.kind = "flags" /\ d.pc = "swap" /\ d.n = c.n /\ d.kind = "files"
  <2>1. CASE c.kind = "flags" /\ Readable(c.file[c.n].files) # {}
    <3>1. d = [b EXCEPT !.pc = "swap", !.kind = "files"]
      BY <2>1 DEF FilesOf
    <3>2. d.pc = "swap" /\ d.kind = "files" /\ d.n = c.n
      BY <3>1 DEF ImportCall
    <3>3. d \in ImportCall /\ d.dry = c.dry /\ d.after = c.after /\ d.held = {}
      BY <1>1, <2>1, NextShape
    <3>. QED  BY <2>1, <3>2, <3>3
  <2>2. CASE ~(c.kind = "flags" /\ Readable(c.file[c.n].files) # {})
    <3>1. d = NextOf(b)
      BY <2>2 DEF FilesOf
    <3>2. d \in ImportCall /\ d.dry = c.dry /\ d.after = c.after /\ d.held = {}
      BY <1>1, <3>1, NextShape
    <3>3. CASE c.n = Len(c.file)
      <4>1. d = [b EXCEPT !.pc = "answer"]
        BY <3>1, <3>3 DEF NextOf
      <4>. QED  BY <3>2, <4>1 DEF ImportCall
    <3>4. CASE c.n # Len(c.file)
      <4>1. d = [b EXCEPT !.pc = "find", !.n = c.n + 1]
        BY <3>1, <3>4 DEF NextOf
      <4>2. d.n = c.n + 1
        BY <4>1 DEF ImportCall
      <4>. QED  BY <3>2, <4>2
    <3>. QED  BY <3>3, <3>4
  <2>. QED  BY <2>1, <2>2
<1>3. PastGrows(c, d)
  BY <1>1, <1>2, PastGoesOn DEF Swapping
<1>4. PastIn(d, c.n, c.kind)
  BY <1>1, <1>2 DEF PastIn, ImportCall, Swapping
<1>5. call'[p] = d /\ (InOrder(p)' => InOrder(p)) /\ \A q \in Calls \ {p} : call'[q] = call[q]
  BY <1>2, StillInOrder
<1>6. \A q \in c.after : q \in Calls /\ call[q] = Done /\ q # p
  BY <1>1 DEF EntryOK, ImportCall
<1>7. EntryOK(b)'
  BY <1>1, <1>5, <1>6 DEF EntryOK
<1>. QED  BY <1>2, <1>3, <1>4, <1>5, <1>7

LEMMA FailSwapKeeps ==
  ASSUME CInv, NEW p \in Calls, FailSwap(p)
  PROVE  CInv'
<1>1. PICK c : c = call[p]
  OBVIOUS
<1>2. PICK r : r = Released(c)
  OBVIOUS
<1>3. /\ Importing(p) /\ Swapping(c) /\ UNCHANGED <<libVars, contentVars>>
      /\ IF r.kind = "flags" THEN ThenFiles(p, [r EXCEPT !.silent = @ \cup {r.n}])
         ELSE NextItem(p, Problem(r))
  BY <1>1, <1>2 DEF FailSwap, Swapping
<1>4. c \in ImportCall /\ (InOrder(p) => PlacedOK(c)) /\ c.n \in DOMAIN c.file
  BY <1>1, <1>3, ImportBegins
<1>5. /\ r \in ImportCall /\ r.held = {}
      /\ r.file = c.file /\ r.dry = c.dry /\ r.n = c.n /\ r.row = c.row /\ r.asof = c.asof
      /\ r.kind = c.kind /\ r.problems = c.problems /\ r.silent = c.silent /\ r.after = c.after
  BY <1>2, <1>4, ReleasedShape
<1>6. Len(rows') = Len(rows) /\ c.row \in Ids'
  BY <1>1, <1>3, ImportBegins, ContentSame DEF contentVars, WorkingOK
<1>7. InOrder(p) => /\ \A n \in DOMAIN c.file : n < c.n => Placed(c, n)'
                    /\ c.row \in Titled(c.file[c.n].title)'
                    /\ c.n \notin c.problems => rows'[c.row].text = c.file[c.n].text
  <2>1. InOrder(p) => /\ \A n \in DOMAIN c.file : n < c.n => Placed(c, n)
                      /\ c.row \in Titled(c.file[c.n].title)
                      /\ c.n \notin c.problems => rows[c.row].text = c.file[c.n].text
    BY <1>3, <1>4 DEF PlacedOK
  <2>2. rows' = rows
    BY <1>3 DEF contentVars
  <2>. QED  BY <1>3, <2>1, <2>2, ContentSame
<1>8. CASE c.kind = "flags"
  <2>1. PICK b : b = [r EXCEPT !.silent = @ \cup {r.n}]
    OBVIOUS
  <2>2. PICK d : d = FilesOf(b)
    OBVIOUS
  <2>3. /\ b \in ImportCall /\ b.silent = c.silent \cup {c.n} /\ b.held = {}
        /\ b.file = c.file /\ b.dry = c.dry /\ b.n = c.n /\ b.row = c.row /\ b.asof = c.asof
        /\ b.problems = c.problems /\ b.after = c.after
    BY <1>5, <2>1, SilentShape
  <2>4. Goto(p, d)
    BY <1>3, <1>5, <1>8, <2>1, <2>2, WhereNext
  <2>5. /\ d \in ImportCall /\ d.held = {} /\ PastGrows(c, d) /\ call'[p] = d /\ EntryOK(b)'
        /\ InOrder(p)' => InOrder(p)
    BY <1>1, <1>3, <1>6, <1>8, <2>2, <2>3, <2>4, AfterSwapGoes
  <2>6. InOrder(p)' => ContentPut(b)' /\ FlagsPut(b)'
    <3>1. \A n \in DOMAIN c.file : n < c.n => (n \in b.silent <=> n \in c.silent)
      BY <1>4, <2>3, FileShape
    <3>2. \A n \in DOMAIN c.file : n < c.n /\ Placed(c, n)' => Placed(b, n)'
      BY <2>3, <3>1 DEF Placed
    <3>3. InOrder(p)' => ContentPut(b)'
      BY <1>7, <2>3, <2>5, <3>2 DEF ContentPut
    <3>4. FlagsPut(b)'
      BY <2>3 DEF FlagsPut
    <3>. QED  BY <3>3, <3>4
  <2>7. ImportOK(p)'
    BY <1>6, <2>2, <2>3, <2>5, <2>6, AfterFlags
  <2>. QED  BY <1>1, <1>3, <2>4, <2>5, <2>7, ImportMoves
<1>9. CASE c.kind # "flags"
  <2>1. PICK b : b = Problem(r)
    OBVIOUS
  <2>2. PICK d : d = NextOf(b)
    OBVIOUS
  <2>3. /\ b \in ImportCall /\ b.silent = c.silent /\ b.held = {}
        /\ b.file = c.file /\ b.dry = c.dry /\ b.n = c.n /\ b.row = c.row /\ b.asof = c.asof
        /\ b.problems = c.problems \cup {c.n} /\ b.after = c.after
    BY <1>5, <2>1, ProblemShape
  <2>4. Goto(p, d)
    BY <1>3, <1>5, <1>9, <2>1, <2>2, WhereNext
  <2>5. /\ d \in ImportCall /\ d.held = {} /\ PastGrows(c, d) /\ call'[p] = d /\ EntryOK(b)'
        /\ InOrder(p)' => InOrder(p)
    BY <1>1, <1>3, <1>6, <1>9, <2>2, <2>3, <2>4, AfterSwapGoes
  <2>6. ASSUME InOrder(p)' PROVE \A n \in DOMAIN b.file : n <= b.n => Placed(b, n)'
    <3>1. DOMAIN c.file = 1 .. Len(c.file) /\ Len(c.file) \in Nat /\ c.n \in Nat
      BY <1>4, FileShape DEF ImportCall
    <3>2. \A n \in DOMAIN c.file : n <= c.n => n < c.n \/ n = c.n
      BY <3>1
    <3>3. \A n \in DOMAIN c.file : n < c.n => Placed(b, n)'
      BY <1>7, <2>3, <2>5, <2>6 DEF Placed
    <3>4. Placed(b, c.n)'
      BY <2>3 DEF Placed
    <3>. QED  BY <2>3, <3>2, <3>3, <3>4
  <2>7. ImportOK(p)'
    BY <2>2, <2>3, <2>5, <2>6, AfterEntry
  <2>. QED  BY <1>1, <1>3, <2>4, <2>5, <2>7, ImportMoves
<1>. QED  BY <1>8, <1>9

\* The rows that one write inserts.
LEMMA PartsShape ==
  ASSUME NEW e, NEW kind, NEW vals, NEW write, NEW saw, NEW new, new = Parts(e, kind, vals, write, saw)
  PROVE  /\ \A x \in new : x.row = e /\ x.kind = kind /\ x.val \in vals /\ x.write = write /\ x.saw = saw
         /\ {x.val : x \in new} = vals
         /\ e \in Nat /\ kind \in Kinds /\ vals \subseteq Values /\ write \in Writes /\ saw \subseteq Writes
              => new \subseteq PartRecord
<1>. DEFINE P(v) == [row |-> e, kind |-> kind, val |-> v, write |-> write, saw |-> saw]
<1>1. \A x \in new : \E v \in vals : x = P(v)
  BY DEF Parts
<1>2. \A v \in vals : P(v) \in new
  BY DEF Parts
<1>3. \A v : /\ P(v).row = e /\ P(v).kind = kind /\ P(v).val = v /\ P(v).write = write /\ P(v).saw = saw
  OBVIOUS
<1>4. e \in Nat /\ kind \in Kinds /\ vals \subseteq Values /\ write \in Writes /\ saw \subseteq Writes
        => \A v \in vals : P(v) \in PartRecord
  BY DEF PartRecord
<1>. HIDE DEF P
<1>5. {x.val : x \in new} = vals
  <2>1. \A v \in {x.val : x \in new} : v \in vals
    BY <1>1, <1>3
  <2>2. \A v \in vals : v \in {x.val : x \in new}
    BY <1>2, <1>3
  <2>. QED  BY <2>1, <2>2
<1>. QED  BY <1>1, <1>3, <1>4, <1>5

\* What was inserted stands in place of what was held.
LEMMA CommitSwapKeeps ==
  ASSUME CInv, NEW p \in Calls, CommitSwap(p)
  PROVE  CInv'
<1>1. PICK c : c = call[p]
  OBVIOUS
<1>2. PICK vals : vals = Readable(IF c.kind = "flags" THEN c.file[c.n].flags ELSE c.file[c.n].files)
  OBVIOUS
<1>3. PICK new : new = Parts(c.row, c.kind, vals, <<p, c.n>>, c.saw)
  OBVIOUS
<1>4. PICK b : b = Released(c)
  OBVIOUS
<1>5. /\ Importing(p) /\ c.pc = "put" /\ UNCHANGED libVars /\ rows' = rows
      /\ rows[c.row] # Gone /\ parts' = (parts \ c.held) \cup new
      /\ IF b.kind = "flags" THEN ThenFiles(p, b) ELSE NextItem(p, b)
  BY <1>1, <1>2, <1>3, <1>4 DEF CommitSwap, ItemParts, Item, Write, AfterSwap
<1>6. /\ c \in ImportCall /\ EntryOK(c) /\ WorkingOK(c) /\ SwapOK(c) /\ (InOrder(p) => PlacedOK(c))
      /\ c.n \in DOMAIN c.file /\ Swapping(c) /\ c.n \in Nat /\ c.row \in Ids /\ c.kind \in Kinds
      /\ c.saw \subseteq Writes
  BY <1>1, <1>5, ImportBegins DEF ImportCall, WorkingOK, Swapping
<1>7. /\ b \in ImportCall /\ b.held = {}
      /\ b.file = c.file /\ b.dry = c.dry /\ b.n = c.n /\ b.row = c.row /\ b.asof = c.asof
      /\ b.kind = c.kind /\ b.problems = c.problems /\ b.silent = c.silent /\ b.after = c.after
  BY <1>4, <1>6, ReleasedShape
<1>8. /\ Ids' = Ids /\ Live' = Live /\ c.row \in Live
      /\ \A title : Titled(title)' = Titled(title)
  BY <1>5, <1>6 DEF Ids, Live, Titled
<1>9. /\ \A x \in new : /\ x.row = c.row /\ x.kind = c.kind /\ x.write = <<p, c.n>> /\ x.saw = c.saw
                        /\ x \in PartRecord
      /\ {x.val : x \in new} = vals
  <2>1. vals \subseteq Values
    BY <1>2, <1>6, FileShape
  <2>2. c.row \in Nat /\ <<p, c.n>> \in Writes
    BY <1>6 DEF Writes, ImportCall
  <2>. QED  BY <1>3, <1>6, <2>1, <2>2, PartsShape
<1>11. /\ \A w \in c.saw : Past(w, c.kind)
       /\ \A y \in parts : Beside(c, y) /\ y.write \in c.saw => y \in c.held
       /\ \A x \in c.held : Beside(c, x) /\ x \in parts
  BY <1>5, <1>6 DEF SwapOK
<1>12. ~Past(<<p, c.n>>, c.kind)
  BY <1>1, <1>5, <1>6 DEF Past, PastIn, Swapping, ImportCall
<1>13. PICK d : d = IF c.kind = "flags" THEN FilesOf(b) ELSE NextOf(b)
  OBVIOUS
<1>14. (c.kind = "flags" => d = FilesOf(b)) /\ (c.kind # "flags" => d = NextOf(b))
  BY <1>13
<1>15. Goto(p, d)
  BY <1>5, <1>7, <1>13, WhereNext
<1>16. /\ d \in ImportCall /\ d.held = {} /\ PastGrows(c, d) /\ PastIn(d, c.n, c.kind)
       /\ call'[p] = d /\ EntryOK(b)'
       /\ InOrder(p)' => InOrder(p)
  <2>1. Len(rows') = Len(rows)
    BY <1>5
  <2>. QED  BY <1>1, <1>5, <1>6, <1>7, <1>14, <1>15, <2>1, AfterSwapGoes
<1>17. TablesTyped' /\ RowsGrow
  <2>1. parts \subseteq PartRecord /\ rows \in Seq(ChallengeRow \cup {Gone}) /\ Len(rows) \in Nat
    BY RowsByNumber DEF CInv, TablesTyped
  <2>2. parts' \subseteq PartRecord
    BY <1>5, <1>9, <2>1
  <2>. QED  BY <1>5, <2>1, <2>2 DEF TablesTyped, RowsGrow
<1>18. PartsMove(p)
  <2>1. \A x \in parts' \ parts : ~Past(x.write, x.kind)
    BY <1>5, <1>9, <1>12
  <2>2. ASSUME NEW q \in Calls \ {p}, Importing(q), NEW x \in call[q].held
        PROVE  x \in parts'
    <3>1. x \in parts
      BY <2>2, ImportBegins DEF SwapOK
    <3>2. x \notin c.held
      BY <1>1, <1>5, <2>2 DEF CInv, HeldApart
    <3>. QED  BY <1>5, <3>1, <3>2
  <2>. QED  BY <2>1, <2>2 DEF PartsMove
<1>19. \A x \in parts' : x.row \in Live'
  BY <1>5, <1>8, <1>9 DEF CInv, PartOK
<1>20. \A x \in parts' \ parts : Past(x.write, x.kind)' /\ \A w \in x.saw : Past(w, x.kind)'
  <2>1. Past(<<p, c.n>>, c.kind)'
    BY <1>16 DEF Past, PastIn, Swapping
  <2>2. \A w \in c.saw : Past(w, c.kind)'
    BY <1>1, <1>6, <1>11, <1>15, <1>16, PastStays
  <2>. QED  BY <1>5, <1>9, <2>1, <2>2
<1>21. SwapsMixOnlyByRace'
  <2>1. SUFFICES ASSUME NEW x \in parts', NEW y \in parts', x.row = y.row, x.kind = y.kind,
                        x.write # y.write, y.write \in x.saw
                 PROVE  FALSE
    BY DEF SwapsMixOnlyByRace
  <2>2. CASE x \in new
    <3>1. y \in parts /\ y \notin c.held
      BY <1>5, <1>9, <2>1, <2>2
    <3>. QED  BY <1>9, <1>11, <2>1, <2>2, <3>1 DEF Beside
  <2>3. CASE x \notin new /\ y \in new
    <3>1. x \in parts /\ \A w \in x.saw : Past(w, x.kind)
      BY <1>5, <2>3 DEF CInv, PartOK
    <3>. QED  BY <1>9, <1>12, <2>1, <2>3, <3>1
  <2>4. CASE x \notin new /\ y \notin new
    BY <1>5, <2>1, <2>4 DEF CInv, SwapsMixOnlyByRace
  <2>. QED  BY <2>2, <2>3, <2>4
<1>22. DuplicateOnlyByRace'
  BY <1>5, <1>17, NoNewDuplicate
<1>23. InOrder(p) => /\ \A n \in DOMAIN c.file : n < c.n => Placed(c, n)'
                     /\ c.row \in Titled(c.file[c.n].title)'
                     /\ c.n \notin c.problems => rows'[c.row].text = c.file[c.n].text
                     /\ Vals(c.row, c.kind)' = vals
                     /\ c.kind = "files" => Vals(c.row, "flags")' = Vals(c.row, "flags")
  <2>1. SUFFICES ASSUME InOrder(p)
                 PROVE  /\ \A n \in DOMAIN c.file : n < c.n => Placed(c, n)'
                        /\ c.row \in Titled(c.file[c.n].title)'
                        /\ c.n \notin c.problems => rows'[c.row].text = c.file[c.n].text
                        /\ Vals(c.row, c.kind)' = vals
                        /\ c.kind = "files" => Vals(c.row, "flags")' = Vals(c.row, "flags")
    OBVIOUS
  <2>2. /\ \A n \in DOMAIN c.file : n < c.n => Placed(c, n)
        /\ c.row \in Titled(c.file[c.n].title)
        /\ c.n \notin c.problems => rows[c.row].text = c.file[c.n].text
        /\ c.held = Has(c.row, c.kind)
    BY <1>5, <1>6, <2>1 DEF PlacedOK, Swapping
  <2>3. \A e, kind : e # c.row \/ kind # c.kind => Has(e, kind)' = Has(e, kind)
    BY <1>5, <1>9, <1>11 DEF Has, Beside
  <2>4. \A e, kind : e # c.row \/ kind # c.kind => Vals(e, kind)' = Vals(e, kind)
    BY <2>3 DEF Vals
  <2>5. \A e \in Live \ {c.row} : /\ e \in Live'
                                  /\ rows'[e] = rows[e]
                                  /\ \A kind \in Kinds : Vals(e, kind)' = Vals(e, kind)
    BY <1>5, <1>8, <2>4
  <2>6. \A n \in DOMAIN c.file : n < c.n => Placed(c, n)'
    BY <1>6, <2>2, <2>5, PlacedElsewhere DEF Titled
  <2>7. Has(c.row, c.kind)' = new
    BY <1>5, <1>9, <2>2 DEF Has
  <2>8. Vals(c.row, c.kind)' = vals
    BY <1>9, <2>7 DEF Vals
  <2>. QED  BY <1>5, <1>8, <2>2, <2>4, <2>6, <2>8
<1>24. CASE c.kind = "flags"
  <2>1. InOrder(p)' => ContentPut(b)' /\ FlagsPut(b)'
    <3>1. \A n \in DOMAIN c.file : Placed(c, n)' => Placed(b, n)'
      BY <1>7 DEF Placed
    <3>. QED  BY <1>2, <1>7, <1>16, <1>23, <1>24, <3>1 DEF ContentPut, FlagsPut
  <2>2. ImportOK(p)'
    BY <1>6, <1>7, <1>8, <1>14, <1>16, <1>24, <2>1, AfterFlags
  <2>. QED  BY <1>1, <1>5, <1>15, <1>16, <1>17, <1>18, <1>19, <1>20, <1>21, <1>22, <2>2, ImportWrites
<1>25. CASE c.kind = "files"
  <2>1. ASSUME InOrder(p)' PROVE \A n \in DOMAIN b.file : n <= b.n => Placed(b, n)'
    <3>1. DOMAIN c.file = 1 .. Len(c.file) /\ Len(c.file) \in Nat
      BY <1>6, FileShape
    <3>2. \A n \in DOMAIN c.file : n <= c.n => n < c.n \/ n = c.n
      BY <1>6, <3>1
    <3>3. \A n \in DOMAIN c.file : n < c.n => Placed(b, n)'
      BY <1>7, <1>16, <1>23, <2>1 DEF Placed
    <3>4. c.n \notin c.problems \cup c.silent =>
            (Readable(c.file[c.n].flags) # {} => Vals(c.row, "flags") = Readable(c.file[c.n].flags))
      BY <1>6, <1>16, <1>25, <2>1 DEF PlacedOK
    <3>5. c.n \notin c.problems => InPlace(c.file[c.n], c.n \in c.silent)'
      BY <1>2, <1>16, <1>23, <1>25, <2>1, <3>4 DEF InPlace
    <3>6. Placed(b, c.n)'
      BY <1>7, <3>5 DEF Placed
    <3>. QED  BY <1>7, <3>2, <3>3, <3>6
  <2>2. ImportOK(p)'
    BY <1>7, <1>14, <1>16, <1>25, <2>1, AfterEntry
  <2>. QED  BY <1>1, <1>5, <1>15, <1>16, <1>17, <1>18, <1>19, <1>20, <1>21, <1>22, <2>2, ImportWrites
<1>. QED  BY <1>6, <1>24, <1>25 DEF Kinds

------------------------------------------------------------------------------
\* A challenge is inserted.
LEMMA RowAppended ==
  ASSUME TablesTyped, NEW r \in ChallengeRow, rows' = Append(rows, r), NEW e, e = Len(rows) + 1
  PROVE  /\ rows' \in Seq(ChallengeRow \cup {Gone}) /\ RowsGrow
         /\ e \in Nat /\ e \notin Ids /\ \A i \in Ids : i < e
         /\ Ids' = Ids \cup {e} /\ Live' = Live \cup {e} /\ Len(rows') = Len(rows) + 1
         /\ rows'[e] = r /\ \A i \in Ids : rows'[i] = rows[i]
<1>1. rows \in Seq(ChallengeRow \cup {Gone}) /\ Len(rows) \in Nat /\ Ids = 1 .. Len(rows)
  BY RowsByNumber DEF TablesTyped
<1>2. /\ rows' \in Seq(ChallengeRow \cup {Gone}) /\ Len(rows') = e
      /\ rows'[e] = r /\ \A i \in 1 .. Len(rows) : rows'[i] = rows[i]
  BY <1>1, AppendProperties
<1>3. Ids' = 1 .. e
  BY <1>2, LenProperties DEF Ids
<1>4. e \in Nat /\ e \notin Ids /\ \A i \in Ids : i < e
  BY <1>1
<1>5. Ids' = Ids \cup {e}
  BY <1>1, <1>3
<1>6. Live' = Live \cup {e}
  BY <1>1, <1>2, <1>4, <1>5, GoneAssumption DEF Live
<1>7. RowsGrow
  BY <1>1, <1>2 DEF RowsGrow
<1>. QED  BY <1>1, <1>2, <1>4, <1>5, <1>6, <1>7

\* A write that saw nothing is added.
LEMMA PartsAdded ==
  ASSUME CInv, NEW p \in Calls, NEW e \in Nat, NEW vals, vals \subseteq Values, NEW n \in Nat,
         ~Past(<<p, n>>, "flags"), NEW new, new = Parts(e, "flags", vals, <<p, n>>, {}),
         parts' = parts \cup new, e \in Live', Live \subseteq Live'
  PROVE  /\ parts' \subseteq PartRecord /\ PartsMove(p) /\ SwapsMixOnlyByRace'
         /\ \A x \in parts' : x.row \in Live'
         /\ \A x \in parts' \ parts : x.write = <<p, n>> /\ x.kind = "flags" /\ x.saw = {}
<1>1. <<p, n>> \in Writes /\ "flags" \in Kinds /\ {} \subseteq Writes
  BY DEF Writes, Kinds
<1>2. /\ \A x \in new : x.row = e /\ x.kind = "flags" /\ x.write = <<p, n>> /\ x.saw = {}
      /\ new \subseteq PartRecord
  BY <1>1, PartsShape
<1>3. parts' \subseteq PartRecord
  BY <1>2 DEF CInv, TablesTyped
<1>4. PartsMove(p)
  BY <1>2, NoneTaken
<1>5. ASSUME NEW x \in parts', NEW y \in parts', x.row = y.row, x.kind = y.kind,
             x.write # y.write, y.write \in x.saw
      PROVE  FALSE
  <2>1. x \in parts
    BY <1>2, <1>5
  <2>2. Past(y.write, y.kind)
    BY <1>5, <2>1 DEF CInv, PartOK
  <2>3. y \in parts
    BY <1>2, <2>2
  <2>. QED  BY <1>5, <2>1, <2>3 DEF CInv, SwapsMixOnlyByRace
<1>6. SwapsMixOnlyByRace'
  BY <1>5 DEF SwapsMixOnlyByRace
<1>7. \A x \in parts' : x.row \in Live'
  BY <1>2 DEF CInv, PartOK
<1>. QED  BY <1>2, <1>3, <1>4, <1>6, <1>7

\* The row of a new challenge, and the flags of a write that comes with it.
Inserts(r, e, vals, w) ==
  /\ rows' = Append(rows, r) /\ e = Len(rows) + 1
  /\ parts' = parts \cup Parts(e, "flags", vals, w, {})

\* No challenge that an import should have found has the title of the one it adds.
NotThere(r) == r.by = "import" => \A d \in Live : rows[d].title = r.title => d > r.asof

\* A challenge is inserted with its flags, or without any.
LEMMA ChallengeAdded ==
  ASSUME CInv, NEW p \in Calls, NEW r \in ChallengeRow, NEW e, NEW n \in Nat, NEW vals \in SUBSET Values,
         ~Past(<<p, n>>, "flags"), Inserts(r, e, vals, <<p, n>>), NotThere(r)
  PROVE  /\ TablesTyped' /\ RowsGrow /\ PartsMove(p)
         /\ SwapsMixOnlyByRace' /\ DuplicateOnlyByRace'
         /\ \A x \in parts' : x.row \in Live'
         /\ \A x \in parts' \ parts : x.write = <<p, n>> /\ x.kind = "flags" /\ x.saw = {}
         /\ e \in Live' /\ e \notin Ids /\ Ids' = Ids \cup {e}
         /\ rows'[e] = r /\ Vals(e, "flags")' = vals
         /\ \A f \in Live : /\ f \in Live' /\ rows'[f] = rows[f]
                            /\ \A kind \in Kinds : Vals(f, kind)' = Vals(f, kind)
<1>1. /\ TablesTyped /\ rows' = Append(rows, r) /\ e = Len(rows) + 1
      /\ r.by = "import" => \A d \in Live : rows[d].title = r.title => d > r.asof
  BY DEF CInv, Inserts, NotThere
<1>2. /\ rows' \in Seq(ChallengeRow \cup {Gone}) /\ RowsGrow /\ e \in Nat
      /\ e \notin Ids /\ Ids' = Ids \cup {e} /\ Live' = Live \cup {e}
      /\ rows'[e] = r /\ \A i \in Ids : i < e /\ rows'[i] = rows[i]
  BY <1>1, RowAppended
<1>3. PICK new : new = Parts(e, "flags", vals, <<p, n>>, {})
  OBVIOUS
<1>4. parts' = parts \cup new
  BY <1>3 DEF Inserts
<1>5. /\ parts' \subseteq PartRecord /\ PartsMove(p) /\ SwapsMixOnlyByRace'
      /\ \A x \in parts' : x.row \in Live'
      /\ \A x \in parts' \ parts : x.write = <<p, n>> /\ x.kind = "flags" /\ x.saw = {}
  BY <1>2, <1>3, <1>4, PartsAdded
<1>6. (\A x \in new : x.row = e /\ x.kind = "flags") /\ {x.val : x \in new} = vals
  BY <1>3, PartsShape
<1>7. \A x \in parts : x.row \in Live /\ x.row # e
  BY <1>2 DEF CInv, PartOK, Live
<1>8. Vals(e, "flags")' = vals
  <2>1. Has(e, "flags")' = new
    BY <1>4, <1>6, <1>7 DEF Has
  <2>. QED  BY <1>6, <2>1 DEF Vals
<1>9. ASSUME NEW f \in Live
      PROVE  f \in Live' /\ rows'[f] = rows[f] /\ \A kind \in Kinds : Vals(f, kind)' = Vals(f, kind)
  <2>1. f \in Ids /\ f # e
    BY <1>2 DEF Live
  <2>2. \A kind : Has(f, kind)' = Has(f, kind)
    BY <1>4, <1>6, <2>1 DEF Has
  <2>. QED  BY <1>2, <2>1, <2>2 DEF Vals
<1>10. DuplicateOnlyByRace'
  <2>1. SUFFICES ASSUME NEW d \in Live', NEW f \in Live', d < f, rows'[d].title = rows'[f].title,
                        rows'[f].by = "import"
                 PROVE  d > rows'[f].asof
    BY DEF DuplicateOnlyByRace
  <2>2. \A i \in Live : i \in Ids /\ i < e /\ rows'[i] = rows[i] /\ i \in Nat
    BY <1>1, <1>2, RowsByNumber DEF Live
  <2>3. d \in Live
    <3>1. d = e => f \in Live
      BY <1>2, <2>1
    <3>2. d = e => FALSE
      BY <1>2, <2>1, <2>2, <3>1
    <3>. QED  BY <1>2, <3>2
  <2>4. CASE f = e
    BY <1>1, <1>2, <2>1, <2>2, <2>3, <2>4
  <2>5. CASE f # e
    <3>1. f \in Live
      BY <1>2, <2>5
    <3>. QED  BY <2>1, <2>2, <2>3, <3>1 DEF CInv, DuplicateOnlyByRace
  <2>. QED  BY <2>4, <2>5
<1>11. TablesTyped'
  BY <1>2, <1>5 DEF TablesTyped
<1>. QED  BY <1>2, <1>5, <1>8, <1>9, <1>10, <1>11

\* An import stays at its entry while its step adds challenges or leaves them be.
LEMMA SameEntry ==
  ASSUME CInv, NEW p \in Calls, Importing(p), NEW c, c = call[p],
         NEW d, Goto(p, d), d.dry = c.dry, d.after = c.after, c.asof <= Len(rows'),
         NEW b, b.n = c.n, b.file = c.file, b.asof = c.asof, b.after = c.after
  PROVE  call'[p] = d /\ (InOrder(p)' => InOrder(p)) /\ EntryOK(b)'
<1>1. call'[p] = d /\ (InOrder(p)' => InOrder(p)) /\ \A q \in Calls \ {p} : call'[q] = call[q]
  BY StillInOrder
<1>2. \A q \in c.after : q \in Calls /\ call[q] = Done /\ q # p
  BY ImportBegins DEF EntryOK, ImportCall
<1>3. c.n \in DOMAIN c.file
  BY ImportBegins
<1>. QED  BY <1>1, <1>2, <1>3 DEF EntryOK

LEMMA CreateWithFlagsKeeps ==
  ASSUME CInv, NEW p \in Calls, CreateWithFlags(p)
  PROVE  CInv'
<1>1. PICK c : c = call[p]
  OBVIOUS
<1>2. PICK i : i = c.file[c.n]
  OBVIOUS
<1>3. PICK e : e = Len(rows) + 1
  OBVIOUS
<1>4. Importing(p) /\ c.pc = "create" /\ UNCHANGED libVars
  BY <1>1 DEF CreateWithFlags
<1>5. /\ c \in ImportCall /\ EntryOK(c) /\ WorkingOK(c) /\ SwapOK(c) /\ (InOrder(p) => PlacedOK(c))
      /\ c.n \in DOMAIN c.file /\ c.n \in Nat /\ c.held = {} /\ c.asof \in Nat /\ ~Swapping(c)
      /\ c.asof <= Len(rows)
  BY <1>1, <1>4, ImportBegins DEF ImportCall, SwapOK, Swapping, EntryOK
<1>6. i \in Items /\ Readable(i.flags) \subseteq Values
  BY <1>2, <1>5, FileShape
<1>7. CASE NextItem(p, Problem(c)) /\ UNCHANGED contentVars
  <2>1. PICK b : b = Problem(c)
    OBVIOUS
  <2>2. PICK d : d = NextOf(b)
    OBVIOUS
  <2>3. /\ b \in ImportCall /\ b.silent = c.silent /\ b.held = {} /\ b.asof = c.asof
        /\ b.file = c.file /\ b.dry = c.dry /\ b.n = c.n
        /\ b.problems = c.problems \cup {c.n} /\ b.after = c.after
    BY <1>5, <2>1, ProblemShape
  <2>4. Goto(p, d)
    BY <1>7, <2>1, <2>2, WhereNext
  <2>5. /\ d \in ImportCall /\ d.dry = c.dry /\ d.after = c.after /\ d.held = {}
        /\ d.pc = "answer" \/ d.n > c.n \/ d.n = c.n
    BY <1>5, <2>2, <2>3, NextShape
  <2>6. PastGrows(c, d)
    BY <1>4, <1>5, <2>5, PastGoesOn
  <2>7. call'[p] = d /\ (InOrder(p)' => InOrder(p)) /\ EntryOK(b)'
    <3>1. c.asof <= Len(rows')
      BY <1>5, <1>7 DEF contentVars
    <3>. QED  BY <1>1, <1>4, <2>3, <2>4, <2>5, <3>1, SameEntry
  <2>8. ASSUME InOrder(p)' PROVE \A n \in DOMAIN b.file : n <= b.n => Placed(b, n)'
    <3>1. DOMAIN c.file = 1 .. Len(c.file) /\ Len(c.file) \in Nat
      BY <1>5, FileShape
    <3>2. \A n \in DOMAIN c.file : n <= c.n => n < c.n \/ n = c.n
      BY <1>5, <3>1
    <3>3. \A n \in DOMAIN c.file : n < c.n => Placed(c, n)'
      BY <1>5, <1>7, <2>7, <2>8, ContentSame DEF PlacedOK
    <3>4. \A n \in DOMAIN c.file : n < c.n => Placed(b, n)'
      BY <2>3, <3>3 DEF Placed
    <3>5. Placed(b, c.n)'
      BY <2>3 DEF Placed
    <3>. QED  BY <2>3, <3>2, <3>4, <3>5
  <2>9. ImportOK(p)'
    BY <2>2, <2>3, <2>7, <2>8, AfterEntry
  <2>. QED  BY <1>1, <1>4, <1>7, <2>4, <2>5, <2>6, <2>9, ImportMoves
<1>8. CASE /\ rows' = Append(rows, Row(i.title, i.text, NoPin, "import", c.asof))
           /\ parts' = parts \cup Parts(e, "flags", Readable(i.flags), <<p, c.n>>, {})
           /\ ThenFiles(p, [c EXCEPT !.row = e])
  <2>1. PICK r : r = Row(i.title, i.text, NoPin, "import", c.asof)
    OBVIOUS
  <2>2. r \in ChallengeRow /\ r.title = i.title /\ r.text = i.text /\ r.by = "import" /\ r.asof = c.asof
    <3>1. i.text \in {x.text : x \in Items \cup Bodies} /\ i.title \in {x.title : x \in Items}
      BY <1>6
    <3>. QED  BY <1>5, <2>1, <3>1 DEF Row, ChallengeRow
  <2>3. rows' = Append(rows, r)
    BY <1>8, <2>1
  <2>4. ~Past(<<p, c.n>>, "flags")
    BY <1>1, <1>4, <1>5 DEF Past, PastIn
  <2>5. \A d \in Live : rows[d].title = r.title => d > r.asof
    BY <1>2, <1>4, <1>5, <2>2 DEF WorkingOK
  <2>6. /\ TablesTyped' /\ RowsGrow /\ PartsMove(p)
        /\ SwapsMixOnlyByRace' /\ DuplicateOnlyByRace'
        /\ \A x \in parts' : x.row \in Live'
        /\ \A x \in parts' \ parts : x.write = <<p, c.n>> /\ x.kind = "flags" /\ x.saw = {}
        /\ e \in Live' /\ e \notin Ids /\ Ids' = Ids \cup {e}
        /\ rows'[e] = r /\ Vals(e, "flags")' = Readable(i.flags)
        /\ \A f \in Live : /\ f \in Live' /\ rows'[f] = rows[f]
                           /\ \A kind \in Kinds : Vals(f, kind)' = Vals(f, kind)
    <3>1. Readable(i.flags) \in SUBSET Values
      BY <1>6
    <3>2. Inserts(r, e, Readable(i.flags), <<p, c.n>>) /\ NotThere(r)
      BY <1>3, <1>8, <2>3, <2>5 DEF Inserts, NotThere
    <3>. QED  BY <1>5, <2>2, <2>4, <3>1, <3>2, ChallengeAdded
  <2>7. e \in Nat /\ c.asof <= Len(rows') /\ e \in Ids'
    <3>1. Len(rows) \in Nat /\ Len(rows') \in Nat /\ Len(rows) <= Len(rows')
      BY <2>6, RowsByNumber, LenProperties DEF CInv, RowsGrow, TablesTyped
    <3>2. e \in Nat
      BY <1>3, <3>1
    <3>3. c.asof <= Len(rows')
      BY <1>5, <3>1
    <3>. QED  BY <2>6, <3>2, <3>3
  <2>8. PICK b : b = [c EXCEPT !.row = e]
    OBVIOUS
  <2>9. /\ b \in ImportCall /\ b.silent = c.silent /\ b.held = {} /\ b.row = e /\ b.asof = c.asof
        /\ b.file = c.file /\ b.dry = c.dry /\ b.n = c.n
        /\ b.problems = c.problems /\ b.after = c.after
    BY <1>5, <2>7, <2>8 DEF ImportCall
  <2>10. PICK d : d = FilesOf(b)
    OBVIOUS
  <2>11. Goto(p, d)
    BY <1>8, <2>8, <2>10, WhereNext
  <2>12. /\ d \in ImportCall /\ d.dry = c.dry /\ d.after = c.after /\ d.held = {}
         /\ \/ d.pc = "answer"
            \/ d.n = c.n + 1
            \/ d.pc = "swap" /\ d.n = c.n /\ d.kind = "files"
    <3>1. CASE Readable(b.file[b.n].files) = {}
      BY <1>5, <2>9, <2>10, <3>1, NextShape DEF FilesOf, NextOf, ImportCall
    <3>2. CASE Readable(b.file[b.n].files) # {}
      <4>1. d = [b EXCEPT !.pc = "swap", !.kind = "files"]
        BY <2>10, <3>2 DEF FilesOf
      <4>2. d.pc = "swap" /\ d.kind = "files" /\ d.n = c.n
        BY <2>9, <4>1 DEF ImportCall
      <4>3. d \in ImportCall /\ d.dry = c.dry /\ d.after = c.after /\ d.held = {}
        BY <1>5, <2>9, <2>10, NextShape
      <4>. QED  BY <4>2, <4>3
    <3>. QED  BY <3>1, <3>2
  <2>13. PastGrows(c, d) /\ PastIn(d, c.n, "flags")
    <3>1. PastIn(d, c.n, "flags")
      BY <1>5, <2>12 DEF PastIn, ImportCall, Swapping
    <3>2. d.pc = "answer" \/ d.n > c.n \/ d.n = c.n
      BY <1>5, <2>12
    <3>. QED  BY <1>4, <1>5, <2>12, <3>1, <3>2, PastGoesOn
  <2>14. call'[p] = d /\ (InOrder(p)' => InOrder(p)) /\ EntryOK(b)'
    BY <1>1, <1>4, <2>7, <2>9, <2>11, <2>12, SameEntry
  <2>15. InOrder(p)' => ContentPut(b)' /\ FlagsPut(b)'
    <3>1. SUFFICES ASSUME InOrder(p)' PROVE ContentPut(b)' /\ FlagsPut(b)'
      OBVIOUS
    <3>2. \A n \in DOMAIN c.file : n < c.n => Placed(c, n)
      BY <1>5, <2>14, <3>1 DEF PlacedOK
    <3>3. e \notin Live
      BY <2>6 DEF Live
    <3>4. \A n \in DOMAIN c.file : n < c.n => Placed(c, n)'
      BY <1>5, <2>6, <3>2, <3>3, PlacedElsewhere
    <3>5. \A n \in DOMAIN b.file : n < b.n => Placed(b, n)'
      BY <2>9, <3>4 DEF Placed
    <3>6. e \in Titled(i.title)' /\ rows'[e].text = i.text
      BY <2>2, <2>6 DEF Titled
    <3>. QED  BY <1>2, <2>6, <2>9, <3>5, <3>6 DEF ContentPut, FlagsPut
  <2>16. ImportOK(p)'
    BY <2>7, <2>9, <2>10, <2>14, <2>15, AfterFlags
  <2>17. \A x \in parts' \ parts : Past(x.write, x.kind)' /\ \A w \in x.saw : Past(w, x.kind)'
    <3>1. Past(<<p, c.n>>, "flags")'
      BY <2>13, <2>14 DEF Past, PastIn, Swapping
    <3>. QED  BY <2>6, <3>1
  <2>. QED  BY <1>1, <1>4, <2>6, <2>11, <2>12, <2>13, <2>16, <2>17, ImportWrites
<1>. QED  BY <1>1, <1>2, <1>3, <1>7, <1>8 DEF CreateWithFlags, Item, Write

------------------------------------------------------------------------------
\* A step that ends a call which writes nothing.
LEMMA EndsQuietly ==
  ASSUME CInv, NEW p \in Calls, Goto(p, Done), UNCHANGED <<libVars, contentVars>>, call[p] # Done
  PROVE  CInv'
<1>1. Done \in CallRecord /\ Done.pc = "done" /\ Done # Idle /\ Done \notin ImportCall
  BY DEF Done, Idle, CallRecord, RestCall, ImportCall
<1>2. LInv' /\ revisions' = revisions
  BY <1>1, QuietStep DEF CInv, libVars
<1>3. call'[p] = Done
  BY DEF Goto, CInv, LInv, RowsTyped
<1>4. CallOK(p)'
  BY <1>1, <1>3 DEF CallOK, Importing, Done
<1>5. PastGrows(call[p], Done)
  BY <1>1 DEF PastGrows, PastIn
<1>. QED  BY <1>1, <1>2, <1>4, <1>5, QuietKeeps

\* A step of a handler that is no import and writes.
LEMMA OtherWrites ==
  ASSUME CInv, UNCHANGED libVars, NEW p \in Calls, NEW d \in CallRecord, Goto(p, d),
         d.pc = "done" \/ (d.pc = "flag" /\ IsFiniteSet(d.left) /\ d.left # {} /\ d.row \in Ids'),
         call[p] # Done, PastGrows(call[p], d), TablesTyped', RowsGrow, PartsMove(p),
         \A x \in parts' : x.row \in Live',
         \A x \in parts' \ parts : Past(x.write, x.kind)' /\ \A w \in x.saw : Past(w, x.kind)',
         SwapsMixOnlyByRace', DuplicateOnlyByRace'
  PROVE  CInv'
<1>1. d.pc # "append" /\ d # Idle /\ d \notin ImportCall
  BY DEF ImportCall, Idle
<1>2. LInv' /\ revisions' = revisions
  BY <1>1, QuietStep DEF CInv, libVars
<1>3. call'[p] = d
  BY DEF Goto, CInv, LInv, RowsTyped
<1>4. CallOK(p)'
  <2>1. ~("file" \in DOMAIN d)
    BY <1>1, CallShape
  <2>. QED  BY <1>3, <2>1 DEF CallOK, Importing
<1>. QED  BY <1>1, <1>2, <1>4, StepKeeps

LEMMA CreateChallengeKeeps ==
  ASSUME CInv, NEW p \in Calls, NEW i \in Made, CreateChallenge(p, i)
  PROVE  CInv'
<1>1. PICK e : e = Len(rows) + 1
  OBVIOUS
<1>2. PICK r : r = Row(i.title, i.text, NoPin, "create", 0)
  OBVIOUS
<1>3. PICK d : d = IF Readable(i.flags) = {} THEN Done
               ELSE [pc |-> "flag", row |-> e, left |-> Readable(i.flags)]
  OBVIOUS
<1>4. call[p] = Idle /\ rows' = Append(rows, r) /\ Goto(p, d) /\ UNCHANGED <<libVars, parts>>
  BY <1>1, <1>2, <1>3 DEF CreateChallenge
<1>5. i \in Items /\ IsFiniteSet(Readable(i.flags))
  BY ItemsAssumption, FS_Subset DEF Readable
<1>6. Readable(i.flags) \subseteq Values
  <2>1. i.flags \cup i.files \in {j.flags \cup j.files : j \in Items}
    BY <1>5
  <2>2. i.flags \cup i.files \subseteq UNION {j.flags \cup j.files : j \in Items}
    BY <2>1
  <2>. QED  BY <2>2 DEF Values, Readable
<1>7. r \in ChallengeRow /\ r.by = "create"
  <2>1. i.text \in {x.text : x \in Items \cup Bodies} /\ i.title \in {x.title : x \in Items}
    BY <1>5
  <2>. QED  BY <1>2, <2>1 DEF Row, ChallengeRow
<1>8. ~Past(<<p, 1>>, "flags")
  BY <1>4 DEF Past, PastIn, Idle, ImportCall
<1>9. Inserts(r, e, {}, <<p, 1>>) /\ NotThere(r)
  <2>1. Parts(e, "flags", {}, <<p, 1>>, {}) = {}
    BY DEF Parts
  <2>. QED  BY <1>1, <1>4, <1>7, <2>1 DEF Inserts, NotThere
<1>10. /\ TablesTyped' /\ RowsGrow /\ PartsMove(p)
       /\ SwapsMixOnlyByRace' /\ DuplicateOnlyByRace'
       /\ \A x \in parts' : x.row \in Live'
       /\ Ids' = Ids \cup {e}
  <2>1. {} \in SUBSET Values
    OBVIOUS
  <2>. QED  BY <1>7, <1>8, <1>9, <2>1, ChallengeAdded
<1>11. e \in Nat
  BY <1>1, RowsByNumber DEF CInv
<1>12. d \in CallRecord
  BY <1>3, <1>6, <1>11 DEF CallRecord, RestCall, FlagCall, Done
<1>13. d.pc = "done" \/ (d.pc = "flag" /\ IsFiniteSet(d.left) /\ d.left # {} /\ d.row \in Ids')
  BY <1>3, <1>5, <1>10 DEF Done
<1>14. PastGrows(call[p], d) /\ call[p] # Done
  BY <1>4 DEF PastGrows, PastIn, Idle, Done, ImportCall
<1>. QED  BY <1>4, <1>10, <1>12, <1>13, <1>14, OtherWrites

LEMMA AddFlagKeeps ==
  ASSUME CInv, NEW p \in Calls, AddFlag(p)
  PROVE  CInv'
<1>1. PICK c : c = call[p]
  OBVIOUS
<1>2. PICK f \in c.left :
        /\ rows[c.row] # Gone
        /\ parts' = parts \cup Parts(c.row, "flags", {f}, <<p, Cardinality(c.left)>>, {})
        /\ Goto(p, IF c.left = {f} THEN Done ELSE [c EXCEPT !.left = @ \ {f}])
  BY <1>1 DEF AddFlag
<1>3. c.pc = "flag" /\ UNCHANGED <<libVars, rows>>
  BY <1>1 DEF AddFlag
<1>4. c \in FlagCall /\ IsFiniteSet(c.left) /\ c.row \in Ids /\ c # Done
  BY <1>1, <1>3, CallShape DEF CInv, LInv, RowsTyped, CallOK, Done
<1>5. PICK k : k = Cardinality(c.left)
  OBVIOUS
<1>6. k \in Nat /\ Cardinality(c.left \ {f}) = k - 1 /\ IsFiniteSet(c.left \ {f}) /\ k >= 1
  <2>1. IsFiniteSet(c.left \ {f}) /\ Cardinality(c.left \ {f}) = k - 1
    BY <1>2, <1>4, <1>5, FS_RemoveElement
  <2>2. k \in Nat /\ Cardinality(c.left \ {f}) \in Nat
    BY <1>4, <1>5, <2>1, FS_CardinalityType
  <2>. QED  BY <2>1, <2>2
<1>7. PICK d : d = IF c.left = {f} THEN Done ELSE [c EXCEPT !.left = @ \ {f}]
  OBVIOUS
<1>8. d = Done \/ (/\ d \in FlagCall /\ d.pc = "flag" /\ d.row = c.row
                   /\ d.left = c.left \ {f} /\ d.left # {})
  BY <1>2, <1>3, <1>4, <1>7 DEF FlagCall
<1>9. d \in CallRecord /\ c \notin ImportCall
  BY <1>4, <1>8 DEF CallRecord, RestCall, Done, FlagCall, ImportCall
<1>10. /\ PastGrows(c, d) /\ PastIn(d, k, "flags") /\ ~PastIn(c, k, "flags")
  BY <1>3, <1>5, <1>6, <1>8, <1>9 DEF PastGrows, PastIn, Done
<1>11. call'[p] = d /\ Goto(p, d)
  BY <1>2, <1>7 DEF Goto, CInv, LInv, RowsTyped
<1>12. Ids' = Ids /\ Live' = Live /\ c.row \in Live /\ c.row \in Nat
  BY <1>2, <1>3, <1>4 DEF Ids, Live, FlagCall
<1>13. ~Past(<<p, k>>, "flags")
  BY <1>1, <1>10 DEF Past
<1>14. PICK new : new = Parts(c.row, "flags", {f}, <<p, k>>, {})
  OBVIOUS
<1>15. /\ parts' \subseteq PartRecord /\ PartsMove(p) /\ SwapsMixOnlyByRace'
       /\ \A x \in parts' : x.row \in Live'
       /\ \A x \in parts' \ parts : x.write = <<p, k>> /\ x.kind = "flags" /\ x.saw = {}
  <2>1. {f} \subseteq Values
    BY <1>2, <1>4 DEF FlagCall
  <2>2. parts' = parts \cup new
    BY <1>2, <1>5, <1>14
  <2>. QED  BY <1>6, <1>12, <1>13, <1>14, <2>1, <2>2, PartsAdded
<1>16. \A x \in parts' \ parts : Past(x.write, x.kind)' /\ \A w \in x.saw : Past(w, x.kind)'
  <2>1. Past(<<p, k>>, "flags")'
    BY <1>10, <1>11 DEF Past, PastIn, Swapping
  <2>. QED  BY <1>15, <2>1
<1>17. TablesTyped' /\ RowsGrow /\ DuplicateOnlyByRace'
  <2>1. TablesTyped' /\ RowsGrow
    BY <1>3, <1>15, RowsByNumber DEF CInv, TablesTyped, RowsGrow
  <2>. QED  BY <1>3, <2>1, NoNewDuplicate
<1>18. d.pc = "done" \/ (d.pc = "flag" /\ IsFiniteSet(d.left) /\ d.left # {} /\ d.row \in Ids')
  <2>1. CASE d = Done
    BY <2>1 DEF Done
  <2>2. CASE d.pc = "flag" /\ d.row = c.row /\ d.left = c.left \ {f} /\ d.left # {}
    <3>1. IsFiniteSet(d.left)
      BY <1>6, <2>2
    <3>. QED  BY <1>4, <1>12, <2>2, <3>1
  <2>. QED  BY <1>8, <2>1, <2>2
<1>. QED  BY <1>1, <1>3, <1>4, <1>9, <1>10, <1>11, <1>15, <1>16, <1>17, <1>18, OtherWrites

LEMMA InsertEmbeddedKeeps ==
  ASSUME CInv, NEW p \in Calls, InsertEmbedded(p)
  PROVE  CInv'
<1>1. PICK c : c = call[p]
  OBVIOUS
<1>2. c.pc = "embed" /\ Goto(p, Done) /\ UNCHANGED libVars /\ c # Done
  BY <1>1 DEF InsertEmbedded, Done
<1>3. CASE UNCHANGED contentVars
  BY <1>1, <1>2, <1>3, EndsQuietly
<1>4. PICK e : e = Len(rows) + 1
  OBVIOUS
<1>5. PICK r : r = Row(c.slug, c.body.text, [slug |-> c.slug, rev |-> c.rev], "embed", 0)
  OBVIOUS
<1>6. CASE rows' = Append(rows, r) /\ parts' = parts \cup Parts(e, "flags", c.body.flags, <<p, 1>>, {})
  <2>1. c.slug \in Slugs /\ c.body \in Bodies /\ c.rev \in Nat
    BY <1>1, <1>2, CallShape DEF CInv, LInv, RowsTyped, BodyCall
  <2>2. c.body.flags \in SUBSET Values
    <3>1. c.body.flags \in {b.flags : b \in Bodies}
      BY <2>1
    <3>2. c.body.flags \subseteq UNION {b.flags : b \in Bodies}
      BY <3>1
    <3>. QED  BY <3>2 DEF Values
  <2>3. r \in ChallengeRow /\ r.by = "embed"
    <3>1. c.body.text \in {x.text : x \in Items \cup Bodies}
      BY <2>1
    <3>2. [slug |-> c.slug, rev |-> c.rev] \in [slug : Slugs, rev : Nat] \cup {NoPin}
      BY <2>1
    <3>. QED  BY <1>5, <2>1, <3>1, <3>2 DEF Row, ChallengeRow
  <2>4. ~Past(<<p, 1>>, "flags")
    BY <1>1, <1>2 DEF Past, PastIn, ImportCall
  <2>5. Inserts(r, e, c.body.flags, <<p, 1>>) /\ NotThere(r)
    BY <1>4, <1>6, <2>3 DEF Inserts, NotThere
  <2>6. /\ TablesTyped' /\ RowsGrow /\ PartsMove(p)
        /\ SwapsMixOnlyByRace' /\ DuplicateOnlyByRace'
        /\ \A x \in parts' : x.row \in Live'
        /\ \A x \in parts' \ parts : x.write = <<p, 1>> /\ x.kind = "flags" /\ x.saw = {}
    <3>1. PICK n \in Nat : n = 1
      OBVIOUS
    <3>2. Inserts(r, e, c.body.flags, <<p, n>>) /\ ~Past(<<p, n>>, "flags")
      BY <2>4, <2>5, <3>1
    <3>3. /\ TablesTyped' /\ RowsGrow /\ PartsMove(p)
          /\ SwapsMixOnlyByRace' /\ DuplicateOnlyByRace'
          /\ \A x \in parts' : x.row \in Live'
          /\ \A x \in parts' \ parts : x.write = <<p, n>> /\ x.kind = "flags" /\ x.saw = {}
      BY <2>2, <2>3, <2>5, <3>2, ChallengeAdded
    <3>. QED  BY <3>1, <3>3
  <2>7. Done \in CallRecord /\ Done.pc = "done" /\ PastGrows(c, Done)
    BY DEF Done, CallRecord, RestCall, PastGrows, PastIn
  <2>8. \A x \in parts' \ parts : Past(x.write, x.kind)' /\ \A w \in x.saw : Past(w, x.kind)'
    <3>1. call'[p] = Done
      BY <1>2 DEF Goto, CInv, LInv, RowsTyped
    <3>2. Past(<<p, 1>>, "flags")'
      BY <2>7, <3>1 DEF Past, PastIn
    <3>. QED  BY <2>6, <3>2
  <2>. QED  BY <1>1, <1>2, <2>6, <2>7, <2>8, OtherWrites
<1>. QED  BY <1>1, <1>3, <1>4, <1>5, <1>6 DEF InsertEmbedded

LEMMA DeleteChallengeKeeps ==
  ASSUME CInv, NEW p \in Calls, NEW e \in Ids, DeleteChallenge(p, e)
  PROVE  CInv'
<1>1. /\ call[p] = Idle /\ rows' = [rows EXCEPT ![e] = Gone]
      /\ parts' = {x \in parts : x.row # e} /\ Goto(p, Done) /\ UNCHANGED libVars
      /\ \A q \in Calls, x \in parts : x.row = e => ~Holds(q, x)
  BY DEF DeleteChallenge
<1>2. /\ rows \in Seq(ChallengeRow \cup {Gone}) /\ Len(rows) \in Nat /\ Ids = 1 .. Len(rows)
      /\ parts \subseteq PartRecord
  BY RowsByNumber DEF CInv, TablesTyped
<1>3. /\ rows' \in Seq(ChallengeRow \cup {Gone}) /\ Len(rows') = Len(rows)
      /\ \A f \in Ids : rows'[f] = IF f = e THEN Gone ELSE rows[f]
  BY <1>1, <1>2, ExceptSeq
<1>4. Ids' = Ids /\ Live' = Live \ {e}
  <2>1. Ids' = Ids
    BY <1>1 DEF Ids
  <2>. QED  BY <1>3, <2>1 DEF Live
<1>5. TablesTyped' /\ RowsGrow
  BY <1>1, <1>2, <1>3 DEF TablesTyped, RowsGrow
<1>6. DuplicateOnlyByRace'
  BY <1>3, <1>5, NoNewDuplicate
<1>7. SwapsMixOnlyByRace'
  BY <1>1 DEF CInv, SwapsMixOnlyByRace
<1>8. PartsMove(p)
  <2>1. ASSUME NEW q \in Calls \ {p}, Importing(q), NEW x \in call[q].held
        PROVE  x \in parts'
    <3>1. x \in parts
      BY <2>1, ImportBegins DEF SwapOK
    <3>. QED  BY <1>1, <2>1, <3>1 DEF Holds
  <2>. QED  BY <1>1, <2>1 DEF PartsMove
<1>9. \A x \in parts' : x.row \in Live'
  BY <1>1, <1>4 DEF CInv, PartOK
<1>10. Done \in CallRecord /\ Done.pc = "done" /\ PastGrows(call[p], Done) /\ call[p] # Done
  BY <1>1 DEF Done, Idle, CallRecord, RestCall, PastGrows, PastIn
<1>11. parts' \ parts = {}
  BY <1>1
<1>. QED  BY <1>1, <1>5, <1>6, <1>7, <1>8, <1>9, <1>10, <1>11, OtherWrites

------------------------------------------------------------------------------
\* A step of the library, and the reading that comes before an embedding.
LEMMA LibraryMoves ==
  ASSUME CInv, LInv', UNCHANGED contentVars, NEW p \in Calls,
         call[p].pc \in {"idle", "bump", "append", "row", "revision", "clone"},
         NEW d \in CallRecord, Goto(p, d),
         d.pc \in {"done", "bump", "append", "row", "revision", "clone", "embed"},
         d.pc \in {"clone", "embed"} => Revision(d.slug, d.rev, d.body) \in revisions,
         revisions \subseteq revisions'
  PROVE  CInv'
<1>1. d # Idle /\ d \notin ImportCall /\ call[p] \notin ImportCall /\ call[p] # Done
  BY DEF Idle, Done, ImportCall
<1>2. PastGrows(call[p], d)
  BY <1>1 DEF PastGrows, PastIn
<1>3. CallOK(p)'
  <2>1. call'[p] = d
    BY DEF Goto, CInv, LInv, RowsTyped
  <2>2. ~("file" \in DOMAIN d)
    BY <1>1, CallShape
  <2>. QED  BY <2>1, <2>2 DEF CallOK, Importing
<1>. QED  BY <1>1, <1>2, <1>3, QuietKeeps

LEMMA LibraryKeeps ==
  ASSUME CInv, LibraryNext, UNCHANGED contentVars
  PROVE  CInv'
<1>1. LInv /\ LInv'
  BY NextLInv DEF CInv
<1>2. Done \in CallRecord /\ Done.pc = "done" /\ Idle.pc = "idle"
  BY DEF Done, Idle, CallRecord, RestCall
<1>3. \A p \in Calls : call[p] \in CallRecord
  BY <1>1 DEF LInv, RowsTyped
<1>4. ASSUME NEW p \in Calls, call[p].pc \in {"idle", "bump", "append", "row", "revision", "clone"},
             Goto(p, Done), revisions \subseteq revisions'
      PROVE  CInv'
  BY <1>1, <1>2, <1>4, LibraryMoves
<1>5. ASSUME NEW p \in Calls, NEW s \in Slugs, NEW b \in Bodies, NewChallenge(p, s, b)
      PROVE  CInv'
  BY <1>2, <1>4, <1>5 DEF NewChallenge, CreateLibraryChallenge
<1>6. ASSUME NEW p \in Calls, NEW s \in Slugs, NEW b \in Bodies, StartRevision(p, s, b)
      PROVE  CInv'
  <2>1. PICK d : d = [pc |-> "bump", slug |-> s, body |-> b]
    OBVIOUS
  <2>2. d \in CallRecord /\ d.pc = "bump"
    BY <2>1 DEF CallRecord, BumpCall
  <2>3. call[p].pc = "idle" /\ Goto(p, d) /\ revisions' = revisions
    BY <1>2, <1>6, <2>1 DEF StartRevision, libVars
  <2>. QED  BY <1>1, <2>2, <2>3, LibraryMoves
<1>7. ASSUME NEW p \in Calls, BumpRev(p)
      PROVE  CInv'
  <2>1. call[p].pc = "bump" /\ revisions' = revisions
    BY <1>7 DEF BumpRev
  <2>2. CASE Goto(p, Done)
    BY <1>4, <2>1, <2>2
  <2>3. PICK d : d = [pc |-> "append", slug |-> call[p].slug, body |-> call[p].body,
                      rev |-> current_rev[call[p].slug] + 1]
    OBVIOUS
  <2>4. CASE Goto(p, d)
    <3>1. call[p].slug \in Slugs /\ call[p].body \in Bodies
      BY <1>3, <2>1, CallShape DEF BumpCall
    <3>2. current_rev[call[p].slug] + 1 \in Nat
      BY <1>1, <3>1 DEF LInv, RowsTyped
    <3>3. d \in CallRecord /\ d.pc = "append"
      BY <2>3, <3>1, <3>2 DEF CallRecord, AppendCall
    <3>. QED  BY <1>1, <2>1, <2>4, <3>3, LibraryMoves
  <2>. QED  BY <1>7, <2>2, <2>3, <2>4 DEF BumpRev
<1>8. ASSUME NEW p \in Calls, AppendRevision(p)
      PROVE  CInv'
  BY <1>4, <1>8 DEF AppendRevision
<1>9. ASSUME NEW p \in Calls, NEW s \in Slugs, StartRead(p, s, 0, "clone")
      PROVE  CInv'
  <2>1. PICK d : d = [pc |-> "row", slug |-> s, rev |-> 0, then |-> "clone"]
    OBVIOUS
  <2>2. d \in CallRecord /\ d.pc = "row"
    BY <2>1 DEF CallRecord, ReadCall
  <2>3. call[p].pc = "idle" /\ Goto(p, d) /\ revisions' = revisions
    BY <1>2, <1>9, <2>1 DEF StartRead, libVars
  <2>. QED  BY <1>1, <2>2, <2>3, LibraryMoves
<1>10. ASSUME NEW p \in Calls, ReadRow(p)
       PROVE  CInv'
  <2>1. call[p].pc = "row" /\ revisions' = revisions
    BY <1>10 DEF ReadRow, libVars
  <2>2. CASE Goto(p, Done)
    BY <1>4, <2>1, <2>2
  <2>3. PICK d : d = [pc |-> "revision", slug |-> call[p].slug, then |-> call[p].then,
                      rev |-> IF call[p].rev = 0 THEN current_rev[call[p].slug] ELSE call[p].rev]
    OBVIOUS
  <2>4. CASE Goto(p, d)
    <3>1. /\ call[p].slug \in Slugs /\ call[p].rev \in Nat \cup Revs /\ call[p].then \in {"clone", "embed"}
          /\ current_rev[call[p].slug] \in Nat
      BY <1>1, <1>3, <2>1, CallShape DEF ReadCall, LInv, RowsTyped
    <3>2. d \in CallRecord /\ d.pc = "revision"
      BY <2>3, <3>1 DEF CallRecord, ReadCall
    <3>. QED  BY <1>1, <2>1, <2>4, <3>2, LibraryMoves
  <2>. QED  BY <1>10, <2>2, <2>3, <2>4 DEF ReadRow
<1>11. ASSUME NEW p \in Calls, ReadRevision(p)
       PROVE  CInv'
  <2>1. call[p].pc = "revision" /\ revisions' = revisions
    BY <1>11 DEF ReadRevision, libVars
  <2>2. CASE Goto(p, Done)
    BY <1>4, <2>1, <2>2
  <2>3. ASSUME NEW r \in revisions, r.slug = call[p].slug, r.rev = call[p].rev,
               Goto(p, [pc |-> call[p].then, slug |-> call[p].slug, rev |-> call[p].rev, body |-> r.body])
        PROVE  CInv'
    <3>1. call[p].slug \in Slugs /\ call[p].then \in {"clone", "embed"}
      BY <1>3, <2>1, CallShape DEF ReadCall
    <3>2. /\ r = [slug |-> r.slug, rev |-> r.rev, body |-> r.body]
          /\ r.rev \in Nat /\ r.body \in Bodies
      BY <1>1 DEF LInv, RowsTyped
    <3>3. PICK d : d = [pc |-> call[p].then, slug |-> call[p].slug, rev |-> call[p].rev, body |-> r.body]
      OBVIOUS
    <3>4. d \in CallRecord /\ d.pc \in {"clone", "embed"}
      BY <2>3, <3>1, <3>2, <3>3 DEF CallRecord, BodyCall
    <3>5. Revision(d.slug, d.rev, d.body) = r
      BY <2>3, <3>2, <3>3 DEF Revision
    <3>. QED  BY <1>1, <2>1, <2>3, <3>3, <3>4, <3>5, LibraryMoves
  <2>. QED  BY <1>11, <2>2, <2>3 DEF ReadRevision
<1>12. ASSUME NEW p \in Calls, InsertClone(p)
       PROVE  CInv'
  BY <1>4, <1>12 DEF InsertClone, CreateLibraryChallenge
<1>. QED  BY <1>5, <1>6, <1>7, <1>8, <1>9, <1>10, <1>11, <1>12 DEF LibraryNext

LEMMA StartEmbedKeeps ==
  ASSUME CInv, NEW p \in Calls, NEW s \in Slugs, NEW n \in Revs, StartRead(p, s, n, "embed"),
         UNCHANGED contentVars
  PROVE  CInv'
<1>1. PICK d : d = [pc |-> "row", slug |-> s, rev |-> n, then |-> "embed"]
  OBVIOUS
<1>2. d \in CallRecord /\ d.pc = "row" /\ d.pc # "append"
  BY <1>1 DEF CallRecord, ReadCall
<1>3. call[p].pc = "idle" /\ Goto(p, d) /\ UNCHANGED libVars /\ revisions' = revisions
  BY <1>1 DEF StartRead, libVars, Idle
<1>4. LInv'
  BY <1>2, <1>3, QuietStep DEF CInv
<1>. QED  BY <1>2, <1>3, <1>4, LibraryMoves

LEMMA InitCInv == Init => CInv
<1>. SUFFICES ASSUME Init PROVE CInv
  OBVIOUS
<1>1. LInv
  BY InitLInv DEF Init
<1>2. /\ FirstItems \in Seq(Items) /\ Len(FirstItems) \in Nat /\ DOMAIN FirstItems = 1 .. Len(FirstItems)
      /\ \A i \in DOMAIN FirstItems : FirstItems[i] \in Items
  BY ItemsAssumption, LenProperties, ElementOfSeq
<1>3. /\ DOMAIN rows = DOMAIN FirstItems
      /\ \A i \in DOMAIN FirstItems :
           rows[i] = Row(FirstItems[i].title, FirstItems[i].text, NoPin, "create", 0)
  BY DEF Init
<1>4. \A i \in DOMAIN rows : rows[i] \in ChallengeRow /\ rows[i].by = "create"
  <2>1. \A j \in Items : j.text \in {x.text : x \in Items \cup Bodies} /\ j.title \in {x.title : x \in Items}
    OBVIOUS
  <2>. QED  BY <1>2, <1>3, <2>1 DEF ChallengeRow, Row
<1>5. rows \in Seq(ChallengeRow \cup {Gone})
  <2>1. rows \in [1 .. Len(FirstItems) -> ChallengeRow \cup {Gone}]
    BY <1>2, <1>3, <1>4 DEF Init
  <2>. QED  BY <1>2, <2>1, SeqDef
<1>6. Live = DOMAIN FirstItems
  BY <1>3, <1>4, GoneAssumption DEF Live, Ids
<1>7. \A x \in parts : /\ x \in PartRecord /\ x.row \in DOMAIN FirstItems
                       /\ x.write = <<NoCall, x.row>> /\ x.kind = "flags" /\ x.saw = {}
  <2>1. SUFFICES ASSUME NEW i \in DOMAIN FirstItems, NEW new,
                        new = Parts(i, "flags", Readable(FirstItems[i].flags), <<NoCall, i>>, {}), NEW x \in new
                 PROVE  /\ x \in PartRecord /\ x.row \in DOMAIN FirstItems
                        /\ x.write = <<NoCall, x.row>> /\ x.kind = "flags" /\ x.saw = {}
    BY DEF Init
  <2>2. Readable(FirstItems[i].flags) \subseteq Values
    <3>1. FirstItems[i].flags \cup FirstItems[i].files \in {j.flags \cup j.files : j \in Items}
      BY <1>2
    <3>2. FirstItems[i].flags \cup FirstItems[i].files \subseteq UNION {j.flags \cup j.files : j \in Items}
      BY <3>1
    <3>. QED  BY <3>2 DEF Values, Readable
  <2>3. i \in Nat /\ <<NoCall, i>> \in Writes /\ "flags" \in Kinds
    BY <1>2 DEF Writes, Kinds
  <2>. QED  BY <2>1, <2>2, <2>3, PartsShape
<1>8. \A x \in parts : PartOK(x)
  BY <1>6, <1>7, NoCallAssumption DEF PartOK, Past
<1>9. \A p \in Calls : call[p] = Idle /\ ~Importing(p)
  BY DEF Init, LibraryInit, Importing, Idle
<1>10. \A p \in Calls : CallOK(p)
  BY <1>9 DEF CallOK, Idle
<1>11. HeldApart
  BY <1>9 DEF HeldApart
<1>12. SwapsMixOnlyByRace
  BY <1>7 DEF SwapsMixOnlyByRace
<1>13. DuplicateOnlyByRace
  BY <1>4 DEF DuplicateOnlyByRace, Live, Ids
<1>14. TablesTyped
  BY <1>5, <1>7 DEF TablesTyped
<1>. QED  BY <1>1, <1>8, <1>10, <1>11, <1>12, <1>13, <1>14 DEF CInv

LEMMA StutterCInv ==
  ASSUME CInv, UNCHANGED vars
  PROVE  CInv'
<1>1. UNCHANGED <<current_rev, revisions, lock, call, rows, parts>>
  BY DEF vars, libVars, contentVars
<1>2. LInv'
  BY <1>1 DEF CInv, LInv, RowsTyped, SavesHold, Numbered, Of
<1>3. Live' = Live /\ Ids' = Ids /\ \A title : Titled(title)' = Titled(title)
  BY <1>1 DEF Live, Ids, Titled
<1>4. \A e, kind : Has(e, kind)' = Has(e, kind) /\ Vals(e, kind)' = Vals(e, kind)
  BY <1>1 DEF Has, Vals
<1>5. \A c, n : Placed(c, n)' <=> Placed(c, n)
  BY <1>1, <1>3, <1>4 DEF Placed, InPlace
<1>6. ASSUME NEW p \in Calls PROVE CallOK(p)'
  <2>1. CallOK(p)
    BY DEF CInv
  <2>2. InOrder(p)' <=> InOrder(p)
    BY <1>1 DEF InOrder, Alone
  <2>3. PlacedOK(call[p])' <=> PlacedOK(call[p])
    BY <1>1, <1>3, <1>4, <1>5 DEF PlacedOK
  <2>4. SwapOK(call[p])' <=> SwapOK(call[p])
    BY <1>1 DEF SwapOK, Past, PastIn, Swapping, Beside
  <2>5. EntryOK(call[p])' <=> EntryOK(call[p])
    BY <1>1 DEF EntryOK
  <2>6. WorkingOK(call[p])' <=> WorkingOK(call[p])
    BY <1>1, <1>3 DEF WorkingOK, Swapping
  <2>7. ImportOK(p)' <=> ImportOK(p)
    BY <1>1, <2>2, <2>3, <2>4, <2>5, <2>6 DEF ImportOK
  <2>. QED  BY <1>1, <1>3, <2>1, <2>7 DEF CallOK, Importing
<1>7. HeldApart'
  BY <1>1 DEF CInv, HeldApart, Importing
<1>8. SwapsMixOnlyByRace' /\ DuplicateOnlyByRace' /\ TablesTyped'
  BY <1>1, <1>3 DEF CInv, SwapsMixOnlyByRace, DuplicateOnlyByRace, TablesTyped
<1>9. ASSUME NEW x \in parts PROVE PartOK(x)'
  BY <1>1, <1>3 DEF CInv, PartOK, Past, PastIn, Swapping
<1>. QED  BY <1>1, <1>2, <1>6, <1>7, <1>8, <1>9 DEF CInv

LEMMA NextCInv == CInv /\ [Next]_vars => CInv'
<1>. SUFFICES ASSUME CInv, [Next]_vars PROVE CInv'
  OBVIOUS
<1>1. ASSUME NEW p \in Calls, ImportStep(p) PROVE CInv'
  BY <1>1, FindTitleKeeps, CreateWithFlagsKeeps, UpdateContentKeeps, OpenSwapKeeps, DeletePartsKeeps,
     CommitSwapKeeps, FailSwapKeeps, AnswerImportKeeps DEF ImportStep
<1>2. ASSUME NEW p \in Calls, AddFlagFails(p) PROVE CInv'
  BY <1>2, EndsQuietly DEF AddFlagFails, Done
<1>3. CASE ContentNext
  BY <1>1, <1>2, <1>3, StartImportKeeps, CreateChallengeKeeps, AddFlagKeeps, StartEmbedKeeps,
     InsertEmbeddedKeeps, DeleteChallengeKeeps DEF ContentNext
<1>. QED  BY <1>3, LibraryKeeps, StutterCInv DEF Next

------------------------------------------------------------------------------
\* Who holds a challenge's row is about to append a revision to it.
LocksHeld ==
  \A s \in Slugs : lock[s] # NoCall => call[lock[s]].pc = "append" /\ call[lock[s]].slug = s

\* A step of a handler that holds no lock and takes none.
Lockless(p) == call[p].pc # "append" /\ lock' = lock /\ \E d : Goto(p, d)

LEMMA LocklessKeeps ==
  ASSUME LInv, LocksHeld, NEW p \in Calls, Lockless(p)
  PROVE  LocksHeld'
<1>1. PICK d : Goto(p, d)
  BY DEF Lockless
<1>2. \A q \in Calls \ {p} : call'[q] = call[q]
  BY <1>1 DEF Goto, LInv, RowsTyped
<1>3. ASSUME NEW s \in Slugs, lock[s] # NoCall
      PROVE  call'[lock[s]].pc = "append" /\ call'[lock[s]].slug = s
  <2>1. lock[s] \in Calls \ {p}
    BY <1>3 DEF LInv, RowsTyped, LocksHeld, Lockless
  <2>. QED  BY <1>2, <1>3, <2>1 DEF LocksHeld
<1>. QED  BY <1>3 DEF LocksHeld, Lockless

LEMMA ImportsLockless ==
  ASSUME NEW p \in Calls, ImportStep(p)
  PROVE  Lockless(p)
<1>1. CASE FindTitle(p)
  BY <1>1, WhereNext DEF FindTitle, Lockless, libVars
<1>2. CASE CreateWithFlags(p)
  BY <1>2, WhereNext DEF CreateWithFlags, Lockless, libVars
<1>3. CASE UpdateContent(p)
  BY <1>3, WhereNext DEF UpdateContent, Lockless, libVars
<1>4. CASE OpenSwap(p)
  BY <1>4 DEF OpenSwap, Lockless, libVars
<1>5. CASE DeleteParts(p)
  BY <1>5 DEF DeleteParts, Lockless, libVars
<1>6. CASE CommitSwap(p)
  BY <1>6, WhereNext DEF CommitSwap, AfterSwap, Lockless, libVars
<1>7. CASE FailSwap(p)
  BY <1>7, WhereNext DEF FailSwap, Lockless, libVars
<1>8. CASE AnswerImport(p)
  BY <1>8 DEF AnswerImport, Lockless, libVars
<1>. QED  BY <1>1, <1>2, <1>3, <1>4, <1>5, <1>6, <1>7, <1>8 DEF ImportStep

LEMMA LibraryLocks ==
  ASSUME LInv, LocksHeld, LibraryNext
  PROVE  LocksHeld'
<1>1. ASSUME NEW p \in Calls, BumpRev(p) PROVE LocksHeld'
  <2>. DEFINE c == call[p]
  <2>1. c \in BumpCall /\ lock[c.slug] = NoCall
    BY <1>1, CallShape DEF BumpRev, LInv, RowsTyped
  <2>2. CASE lock' = lock
    <3>1. \E d : Goto(p, d)
      BY <1>1 DEF BumpRev
    <3>. QED  BY <1>1, <2>2, <3>1, LocklessKeeps DEF BumpRev, Lockless
  <2>3. CASE /\ lock' = [lock EXCEPT ![c.slug] = p]
             /\ Goto(p, [pc |-> "append", slug |-> c.slug, body |-> c.body,
                         rev |-> current_rev[c.slug] + 1])
    <3>1. /\ call'[p].pc = "append" /\ call'[p].slug = c.slug
          /\ \A q \in Calls \ {p} : call'[q] = call[q]
      BY <2>3 DEF Goto, LInv, RowsTyped
    <3>2. lock'[c.slug] = p /\ \A s \in Slugs \ {c.slug} : lock'[s] = lock[s]
      BY <2>1, <2>3 DEF LInv, RowsTyped, BumpCall
    <3>3. \A s \in Slugs : lock[s] # p
      <4>1. c.pc = "bump" /\ p # NoCall
        BY <1>1, NoCallAssumption DEF BumpRev
      <4>. QED  BY <4>1 DEF LocksHeld
    <3>4. \A s \in Slugs : lock[s] \in Calls \cup {NoCall}
      BY DEF LInv, RowsTyped
    <3>. QED  BY <3>1, <3>2, <3>3, <3>4 DEF LocksHeld
  <2>. QED  BY <1>1, <2>2, <2>3 DEF BumpRev
<1>2. ASSUME NEW p \in Calls, AppendRevision(p) PROVE LocksHeld'
  <2>. DEFINE c == call[p]
  <2>1. /\ c.slug \in Slugs /\ c.pc = "append" /\ lock[c.slug] = p
        /\ lock' = [lock EXCEPT ![c.slug] = IF lock[c.slug] = p THEN NoCall ELSE lock[c.slug]]
    BY <1>2, CallShape DEF AppendRevision, Unlocked, LInv, RowsTyped, AppendCall, SavesHold
  <2>2. lock'[c.slug] = NoCall /\ \A s \in Slugs \ {c.slug} : lock'[s] = lock[s]
    BY <2>1 DEF LInv, RowsTyped
  <2>3. \A q \in Calls \ {p} : call'[q] = call[q]
    BY <1>2 DEF AppendRevision, Goto, LInv, RowsTyped
  <2>4. \A s \in Slugs \ {c.slug} : lock[s] # NoCall => lock[s] \in Calls \ {p}
    BY <2>1 DEF LInv, RowsTyped, LocksHeld
  <2>. QED  BY <2>2, <2>3, <2>4 DEF LocksHeld
<1>3. ASSUME NEW p \in Calls,
             \/ \E s \in Slugs, b \in Bodies : NewChallenge(p, s, b) \/ StartRevision(p, s, b)
             \/ \E s \in Slugs : StartRead(p, s, 0, "clone")
             \/ ReadRow(p) \/ ReadRevision(p) \/ InsertClone(p)
      PROVE  LocksHeld'
  <2>1. ASSUME NEW s \in Slugs, NEW b \in Bodies, NewChallenge(p, s, b) \/ StartRevision(p, s, b)
        PROVE  Lockless(p)
    BY <2>1 DEF NewChallenge, StartRevision, CreateLibraryChallenge, Idle, Lockless, libVars
  <2>2. ASSUME NEW s \in Slugs, StartRead(p, s, 0, "clone") PROVE Lockless(p)
    BY <2>2 DEF StartRead, Idle, Lockless, libVars
  <2>3. ASSUME ReadRow(p) PROVE Lockless(p)
    BY <2>3 DEF ReadRow, Lockless, libVars
  <2>4. ASSUME ReadRevision(p) PROVE Lockless(p)
    BY <2>4 DEF ReadRevision, Lockless, libVars
  <2>5. ASSUME InsertClone(p) PROVE Lockless(p)
    BY <2>5 DEF InsertClone, CreateLibraryChallenge, Lockless
  <2>. QED  BY <1>3, <2>1, <2>2, <2>3, <2>4, <2>5, LocklessKeeps
<1>. QED  BY <1>1, <1>2, <1>3 DEF LibraryNext

LEMMA NextLocks == CInv /\ LocksHeld /\ [Next]_vars => LocksHeld'
<1>. SUFFICES ASSUME CInv, LocksHeld, [Next]_vars PROVE LocksHeld'
  OBVIOUS
<1>1. LInv
  BY DEF CInv
<1>2. CASE UNCHANGED vars
  BY <1>2 DEF vars, libVars, LocksHeld
<1>3. ASSUME NEW p \in Calls,
             \/ \E f \in Files, dry \in BOOLEAN : StartImport(p, f, dry)
             \/ \E i \in Made : CreateChallenge(p, i)
             \/ AddFlag(p) \/ AddFlagFails(p)
             \/ \E s \in Slugs, n \in Revs : StartRead(p, s, n, "embed")
             \/ InsertEmbedded(p)
             \/ \E e \in Ids : DeleteChallenge(p, e)
      PROVE  LocksHeld'
  <2>1. ASSUME NEW f \in Files, NEW dry \in BOOLEAN, StartImport(p, f, dry) PROVE Lockless(p)
    BY <2>1 DEF StartImport, Idle, Lockless, libVars
  <2>2. ASSUME NEW i \in Made, CreateChallenge(p, i) PROVE Lockless(p)
    BY <2>2 DEF CreateChallenge, Idle, Lockless, libVars
  <2>3. ASSUME AddFlag(p) \/ AddFlagFails(p) PROVE Lockless(p)
    BY <2>3 DEF AddFlag, AddFlagFails, Lockless, libVars
  <2>4. ASSUME NEW s \in Slugs, NEW n \in Revs, StartRead(p, s, n, "embed") PROVE Lockless(p)
    BY <2>4 DEF StartRead, Idle, Lockless, libVars
  <2>5. ASSUME InsertEmbedded(p) PROVE Lockless(p)
    BY <2>5 DEF InsertEmbedded, Lockless, libVars
  <2>6. ASSUME NEW e \in Ids, DeleteChallenge(p, e) PROVE Lockless(p)
    BY <2>6 DEF DeleteChallenge, Idle, Lockless, libVars
  <2>. QED  BY <1>1, <1>3, <2>1, <2>2, <2>3, <2>4, <2>5, <2>6, LocklessKeeps
<1>4. CASE ContentNext
  BY <1>1, <1>3, <1>4, ImportsLockless, LocklessKeeps DEF ContentNext
<1>. QED  BY <1>1, <1>2, <1>4, LibraryLocks DEF Next

------------------------------------------------------------------------------
\* The inductive invariant: what each handler knows of the tables is true of them,
\* whatever the others do meanwhile.
THEOREM ContentInvariance == Spec => [](CInv /\ LocksHeld)
<1>1. Init => LocksHeld
  BY DEF Init, LibraryInit, LocksHeld
<1>. QED  BY <1>1, InitCInv, NextCInv, NextLocks, PTL DEF Spec

\* Rows keep their types, flags and files belong to challenges that stand, and who holds
\* a row is in the middle of the transaction that took it.
THEOREM ContentTypeCorrect == Spec => []TypeOK
<1>1. CInv /\ LocksHeld => TypeOK
  <2>. SUFFICES ASSUME CInv, LocksHeld PROVE TypeOK
    OBVIOUS
  <2>1. current_rev \in [Slugs -> Nat]
    BY DEF CInv, LInv, RowsTyped
  <2>2. \A r \in revisions : r.slug \in Slugs /\ r.rev \in Nat /\ r.body \in Bodies
    BY DEF CInv, LInv, RowsTyped
  <2>3. \A x \in parts : x.row \in Live /\ x.kind \in Kinds
    BY DEF CInv, PartOK, TablesTyped, PartRecord
  <2>4. ASSUME NEW p \in Calls, Importing(p)
        PROVE  /\ call[p].n \in DOMAIN call[p].file
               /\ call[p].pc \in {"update", "swap", "delete", "put"} => call[p].row \in Ids
               /\ call[p].held # {} => call[p].pc = "put" /\ call[p].held \subseteq parts
    BY <2>4, ImportBegins DEF EntryOK, WorkingOK, SwapOK, Swapping
  <2>. QED  BY <2>1, <2>2, <2>3, <2>4 DEF TypeOK, LocksHeld
<1>. QED  BY <1>1, ContentInvariance, PTL

\* handleImport adds a second challenge of a title only if the first one came after its
\* FindECByTitle had looked.
THEOREM Idempotent == Spec => []DuplicateOnlyByRace
<1>1. CInv => DuplicateOnlyByRace
  BY DEF CInv
<1>. QED  BY <1>1, ContentInvariance, PTL

\* Flags (files) of two writes are on a challenge together only if neither ReplaceFlags
\* (ReplaceChallengeFiles) saw the other's rows.
THEOREM SwapsReplace == Spec => []SwapsMixOnlyByRace
<1>1. CInv => SwapsMixOnlyByRace
  BY DEF CInv
<1>. QED  BY <1>1, ContentInvariance, PTL

------------------------------------------------------------------------------
\* Of the entries that an import has read and does not list under errors, every file
\* could be converted.
Intact(c, n) == Readable(c.file[n].files) = c.file[n].files

FilesRead(c) ==
  /\ \A n \in DOMAIN c.file \ c.problems :
       n < c.n \/ (n = c.n /\ c.pc # "find") => Intact(c, n)
  /\ c.pc = "answer" => c.n = Len(c.file)

FilesReported == \A p \in Calls : Importing(p) => FilesRead(call[p])

\* Past its lookup an import keeps what it knows.
LEMMA ReadGoesOn ==
  ASSUME NEW c \in ImportCall, c.n \in DOMAIN c.file, NEW d,
         \A n \in DOMAIN c.file \ c.problems : n <= c.n => Intact(c, n),
         d \in {NextOf(c), FilesOf(c), FlagsOf(c)}
  PROVE  FilesRead(d)
<1>1. /\ c.n \in 1 .. Len(c.file) /\ DOMAIN c.file = 1 .. Len(c.file) /\ Len(c.file) \in Nat
      /\ c.n \in Nat
  BY FileShape
<1>2. d.file = c.file /\ d.problems = c.problems /\ d \in ImportCall
  BY NextShape
<1>3. \/ d.pc = "answer" /\ d.n = c.n /\ c.n = Len(c.file)
      \/ d.pc = "find" /\ d.n = c.n + 1
      \/ d.pc = "swap" /\ d.n = c.n
  BY DEF NextOf, FilesOf, FlagsOf, ImportCall
<1>. QED  BY <1>1, <1>2, <1>3 DEF FilesRead, Intact

LEMMA ImportReads ==
  ASSUME CInv, NEW p \in Calls, Importing(p), FilesRead(call[p]), ImportStep(p)
  PROVE  call'[p] = Done \/ FilesRead(call'[p])
<1>1. PICK c : c = call[p]
  OBVIOUS
<1>2. c \in ImportCall /\ c.n \in DOMAIN c.file /\ FilesRead(c)
  BY <1>1, ImportBegins
<1>3. c.n \in Nat /\ DOMAIN c.file \subseteq Nat
  BY <1>2, FileShape
<1>4. \A d : Goto(p, d) => call'[p] = d
  BY DEF Goto, CInv, LInv, RowsTyped
<1>5. ASSUME NEW b \in ImportCall, b.file = c.file, b.n = c.n, c.problems \subseteq b.problems,
             c.pc # "find" \/ b.n \in b.problems \/ Intact(c, c.n),
             NextItem(p, b) \/ ThenFiles(p, b) \/ ThenFlags(p, b)
      PROVE  FilesRead(call'[p])
  <2>1. \A n \in DOMAIN b.file \ b.problems : n <= b.n => Intact(b, n)
    BY <1>2, <1>3, <1>5 DEF FilesRead, Intact
  <2>2. call'[p] \in {NextOf(b), FilesOf(b), FlagsOf(b)}
    BY <1>4, <1>5, WhereNext
  <2>. QED  BY <1>2, <1>5, <2>1, <2>2, ReadGoesOn
<1>6. ASSUME NEW d \in ImportCall, Goto(p, d), d.file = c.file, d.n = c.n,
             c.problems \subseteq d.problems, d.pc # "answer",
             c.pc # "find" \/ d.n \in d.problems \/ Intact(c, c.n)
      PROVE  FilesRead(call'[p])
  <2>1. call'[p] = d
    BY <1>4, <1>6
  <2>. QED  BY <1>2, <1>3, <1>6, <2>1 DEF FilesRead, Intact
<1>7. ASSUME FindTitle(p) PROVE FilesRead(call'[p])
  <2>1. Len(rows) \in Nat
    BY RowsByNumber DEF CInv
  <2>2. PICK a : a = [c EXCEPT !.asof = Len(rows)]
    OBVIOUS
  <2>3. /\ a \in ImportCall /\ a.file = c.file /\ a.n = c.n /\ a.problems = c.problems
    BY <1>2, <2>1, <2>2 DEF ImportCall
  <2>4. PICK b : b = Converted(a)
    OBVIOUS
  <2>5. /\ b \in ImportCall /\ b.file = c.file /\ b.n = c.n /\ c.problems \subseteq b.problems
        /\ b.n \in b.problems \/ Intact(c, c.n)
    <3>1. CASE a.file[a.n].files \cap Unreadable = {}
      BY <2>3, <2>4, <3>1 DEF Converted, Intact, Readable
    <3>2. CASE a.file[a.n].files \cap Unreadable # {}
      BY <2>3, <2>4, <3>2, ProblemShape DEF Converted
    <3>. QED  BY <3>1, <3>2
  <2>6. CASE NextItem(p, b)
    BY <1>5, <2>5, <2>6
  <2>7. CASE NextItem(p, Problem(b))
    BY <1>5, <2>5, <2>7, ProblemShape
  <2>8. ASSUME NEW e \in Titled(c.file[c.n].title), Goto(p, [b EXCEPT !.pc = "update", !.row = e])
        PROVE  FilesRead(call'[p])
    <3>1. e \in Nat
      BY RowsByNumber DEF CInv, Titled, Live
    <3>2. PICK d : d = [b EXCEPT !.pc = "update", !.row = e]
      OBVIOUS
    <3>3. /\ d \in ImportCall /\ d.file = b.file /\ d.n = b.n /\ d.problems = b.problems
          /\ d.pc = "update"
      BY <2>5, <3>1, <3>2 DEF ImportCall
    <3>. QED  BY <1>6, <2>5, <2>8, <3>2, <3>3
  <2>9. CASE Goto(p, [b EXCEPT !.pc = "create"])
    <3>1. PICK d : d = [b EXCEPT !.pc = "create"]
      OBVIOUS
    <3>2. /\ d \in ImportCall /\ d.file = b.file /\ d.n = b.n /\ d.problems = b.problems
          /\ d.pc = "create"
      BY <2>5, <3>1 DEF ImportCall
    <3>. QED  BY <1>6, <2>5, <2>9, <3>1, <3>2
  <2>. QED  BY <1>1, <1>7, <2>2, <2>4, <2>6, <2>7, <2>8, <2>9 DEF FindTitle, Item
<1>8. ASSUME CreateWithFlags(p) PROVE FilesRead(call'[p])
  <2>1. c.pc = "create" /\ \/ ThenFiles(p, [c EXCEPT !.row = Len(rows) + 1])
                           \/ NextItem(p, Problem(c))
    BY <1>1, <1>8 DEF CreateWithFlags
  <2>2. PICK b : b = [c EXCEPT !.row = Len(rows) + 1]
    OBVIOUS
  <2>3. b \in ImportCall /\ b.file = c.file /\ b.n = c.n /\ b.problems = c.problems
    <3>1. PICK e \in Nat : e = Len(rows) + 1
      BY RowsByNumber DEF CInv
    <3>. QED  BY <1>2, <2>2, <3>1 DEF ImportCall
  <2>. QED  BY <1>2, <1>5, <2>1, <2>2, <2>3, ProblemShape
<1>9. ASSUME UpdateContent(p) PROVE FilesRead(call'[p])
  BY <1>1, <1>2, <1>5, <1>9, ProblemShape DEF UpdateContent
<1>10. ASSUME OpenSwap(p) PROVE FilesRead(call'[p])
  <2>1. PICK s : s = Has(c.row, c.kind)
    OBVIOUS
  <2>2. PICK d : d = [c EXCEPT !.pc = "delete", !.snapshot = s]
    OBVIOUS
  <2>3. c.pc = "swap" /\ Goto(p, d)
    BY <1>1, <1>10, <2>1, <2>2 DEF OpenSwap
  <2>4. s \subseteq PartRecord
    BY <2>1 DEF Has, CInv, TablesTyped
  <2>5. /\ d \in ImportCall /\ d.file = c.file /\ d.n = c.n /\ d.problems = c.problems
        /\ d.pc = "delete"
    BY <1>2, <2>2, <2>4 DEF ImportCall
  <2>. QED  BY <1>6, <2>3, <2>5
<1>11. ASSUME DeleteParts(p) PROVE FilesRead(call'[p])
  <2>1. PICK h, w : h = c.snapshot \cap parts /\ w = {x.write : x \in c.snapshot}
    OBVIOUS
  <2>2. PICK d : d = [c EXCEPT !.pc = "put", !.snapshot = {}, !.held = h, !.saw = w]
    OBVIOUS
  <2>3. c.pc = "delete" /\ Goto(p, d)
    BY <1>1, <1>11, <2>1, <2>2 DEF DeleteParts
  <2>4. h \subseteq PartRecord /\ w \subseteq Writes
    BY <1>2, <2>1 DEF ImportCall, PartRecord
  <2>5. /\ d \in ImportCall /\ d.file = c.file /\ d.n = c.n /\ d.problems = c.problems
        /\ d.pc = "put"
    BY <1>2, <2>2, <2>4 DEF ImportCall
  <2>. QED  BY <1>6, <2>3, <2>5
<1>12. PICK r : r = Released(c)
  OBVIOUS
<1>13. /\ r \in ImportCall /\ r.file = c.file /\ r.n = c.n /\ r.problems = c.problems
  BY <1>2, <1>12, ReleasedShape
<1>14. ASSUME CommitSwap(p) PROVE FilesRead(call'[p])
  <2>1. c.pc = "put" /\ (ThenFiles(p, r) \/ NextItem(p, r))
    BY <1>1, <1>12, <1>14 DEF CommitSwap, AfterSwap
  <2>. QED  BY <1>5, <1>13, <2>1
<1>15. ASSUME FailSwap(p) PROVE FilesRead(call'[p])
  <2>1. PICK b : b = [r EXCEPT !.silent = r.silent \cup {r.n}]
    OBVIOUS
  <2>2. b \in ImportCall /\ b.file = c.file /\ b.n = c.n /\ b.problems = c.problems
    <3>1. r.silent \cup {r.n} \in SUBSET Nat
      BY <1>13 DEF ImportCall
    <3>. QED  BY <1>13, <2>1, <3>1 DEF ImportCall
  <2>3. /\ c.pc \in {"swap", "delete", "put"}
        /\ ThenFiles(p, b) \/ NextItem(p, Problem(r))
    BY <1>1, <1>12, <1>15, <2>1 DEF FailSwap
  <2>. QED  BY <1>5, <1>13, <2>2, <2>3, ProblemShape
<1>16. ASSUME AnswerImport(p) PROVE call'[p] = Done
  BY <1>4, <1>16 DEF AnswerImport
<1>. QED  BY <1>7, <1>8, <1>9, <1>10, <1>11, <1>14, <1>15, <1>16 DEF ImportStep

\* A step that leaves handler p with another request than an import.
Elsewhere(p) ==
  \E d : Goto(p, d)
         /\ d.pc \notin {"find", "create", "update", "swap", "delete", "put", "answer"}

LEMMA OthersElsewhere ==
  ASSUME CInv, NEW p \in Calls,
         \/ \E i \in Made : CreateChallenge(p, i)
         \/ AddFlag(p) \/ AddFlagFails(p)
         \/ \E s \in Slugs, n \in Revs : StartRead(p, s, n, "embed")
         \/ InsertEmbedded(p)
         \/ \E e \in Ids : DeleteChallenge(p, e)
         \/ \E s \in Slugs, b \in Bodies : NewChallenge(p, s, b) \/ StartRevision(p, s, b)
         \/ BumpRev(p) \/ AppendRevision(p)
         \/ \E s \in Slugs : StartRead(p, s, 0, "clone")
         \/ ReadRow(p) \/ ReadRevision(p) \/ InsertClone(p)
  PROVE  Elsewhere(p)
<1>1. Done.pc = "done"
  BY DEF Done
<1>2. CASE \E i \in Made : CreateChallenge(p, i)
  BY <1>1, <1>2 DEF CreateChallenge, Elsewhere
<1>3. CASE AddFlag(p)
  <2>1. PICK f \in call[p].left :
          Goto(p, IF call[p].left = {f} THEN Done ELSE [call[p] EXCEPT !.left = @ \ {f}])
    BY <1>3 DEF AddFlag
  <2>2. call[p].pc = "flag" /\ call[p] \in FlagCall
    BY <1>3, CallShape DEF AddFlag, CInv, LInv, RowsTyped
  <2>3. [call[p] EXCEPT !.left = @ \ {f}].pc = "flag"
    BY <2>2 DEF FlagCall
  <2>. QED  BY <1>1, <2>1, <2>3 DEF Elsewhere
<1>4. CASE AddFlagFails(p) \/ InsertEmbedded(p) \/ \E e \in Ids : DeleteChallenge(p, e)
  BY <1>1, <1>4 DEF AddFlagFails, InsertEmbedded, DeleteChallenge, Elsewhere
<1>5. CASE \/ \E s \in Slugs, n \in Revs : StartRead(p, s, n, "embed")
           \/ \E s \in Slugs : StartRead(p, s, 0, "clone")
  <2>1. PICK s, n, t : StartRead(p, s, n, t)
    BY <1>5
  <2>2. PICK d : d = [pc |-> "row", slug |-> s, rev |-> n, then |-> t]
    OBVIOUS
  <2>3. d.pc = "row"
    BY <2>2
  <2>4. Goto(p, d)
    BY <2>1, <2>2 DEF StartRead
  <2>. QED  BY <2>3, <2>4 DEF Elsewhere
<1>6. CASE \E s \in Slugs, b \in Bodies : NewChallenge(p, s, b) \/ StartRevision(p, s, b)
  BY <1>1, <1>6 DEF NewChallenge, CreateLibraryChallenge, StartRevision, Elsewhere
<1>7. CASE BumpRev(p) \/ AppendRevision(p)
  BY <1>1, <1>7 DEF BumpRev, AppendRevision, Elsewhere
<1>8. CASE ReadRow(p) \/ InsertClone(p)
  BY <1>1, <1>8 DEF ReadRow, InsertClone, CreateLibraryChallenge, Elsewhere
<1>9. CASE ReadRevision(p)
  <2>1. call[p].then \in {"clone", "embed"}
    BY <1>9, CallShape DEF ReadRevision, CInv, LInv, RowsTyped, ReadCall
  <2>2. CASE Goto(p, Done)
    BY <1>1, <2>2 DEF Elsewhere
  <2>3. CASE ~Goto(p, Done)
    <3>1. PICK r \in revisions :
            Goto(p, [pc |-> call[p].then, slug |-> call[p].slug, rev |-> call[p].rev,
                     body |-> r.body])
      BY <1>9, <2>3 DEF ReadRevision
    <3>2. PICK d : d = [pc |-> call[p].then, slug |-> call[p].slug, rev |-> call[p].rev,
                        body |-> r.body]
      OBVIOUS
    <3>3. d.pc = call[p].then
      BY <3>2
    <3>. QED  BY <2>1, <3>1, <3>2, <3>3 DEF Elsewhere
  <2>. QED  BY <2>2, <2>3
<1>. QED  BY <1>2, <1>3, <1>4, <1>5, <1>6, <1>7, <1>8, <1>9

LEMMA NextFiles == CInv /\ FilesReported /\ [Next]_vars => FilesReported'
<1>. SUFFICES ASSUME CInv, FilesReported, [Next]_vars, NEW p \in Calls, Importing(p)'
              PROVE  FilesRead(call'[p])
  BY DEF FilesReported, FilesRead, Intact
<1>1. call'[p] # Done
        /\ call'[p].pc \in {"find", "create", "update", "swap", "delete", "put", "answer"}
  <2>1. CInv'
    BY NextCInv
  <2>2. (CInv => (Importing(p) <=> call[p] \in ImportCall))'
    <3>1. CInv => (Importing(p) <=> call[p] \in ImportCall)
      BY ImportingCall
    <3>. QED  BY <2>1, ImportingCall, PTL
  <2>. QED  BY <2>1, <2>2 DEF ImportCall, Done
<1>2. CASE call'[p] = call[p]
  BY <1>2 DEF FilesReported, Importing
<1>3. ASSUME NEW q \in Calls, NEW d, Goto(q, d), q # p PROVE FilesRead(call'[p])
  <2>1. call'[p] = call[p]
    BY <1>3 DEF Goto, CInv, LInv, RowsTyped
  <2>. QED  BY <1>2, <2>1
<1>4. ASSUME NEW q \in Calls, Elsewhere(q) PROVE FilesRead(call'[p])
  <2>1. PICK d : Goto(q, d)
          /\ d.pc \notin {"find", "create", "update", "swap", "delete", "put", "answer"}
    BY <1>4 DEF Elsewhere
  <2>2. q # p
    BY <1>1, <2>1 DEF Goto, CInv, LInv, RowsTyped
  <2>. QED  BY <1>3, <2>1, <2>2
<1>5. ASSUME NEW q \in Calls, NEW f \in Files, NEW dry \in BOOLEAN, StartImport(q, f, dry)
      PROVE  FilesRead(call'[p])
  <2>1. PICK d : /\ Goto(q, d) /\ d.file = f /\ d.n = 1 /\ d.pc = "find"
    BY <1>5 DEF StartImport
  <2>2. CASE q # p
    BY <1>3, <2>1, <2>2
  <2>3. CASE q = p
    <3>1. call'[p] = d
      BY <2>1, <2>3 DEF Goto, CInv, LInv, RowsTyped
    <3>2. f \in Seq(Items)
      BY ItemsAssumption
    <3>3. \A n \in DOMAIN f : ~(n < 1)
      BY <3>2, LenProperties
    <3>. QED  BY <2>1, <3>1, <3>3 DEF FilesRead
  <2>. QED  BY <2>2, <2>3
<1>6. ASSUME NEW q \in Calls, ImportStep(q) PROVE FilesRead(call'[p])
  <2>1. CASE q = p
    <3>1. Importing(p)
      BY <1>6, <2>1 DEF ImportStep, FindTitle, CreateWithFlags, UpdateContent, OpenSwap, DeleteParts,
         CommitSwap, FailSwap, AnswerImport
    <3>. QED  BY <1>1, <1>6, <2>1, <3>1, ImportReads DEF FilesReported
  <2>2. CASE q # p
    <3>1. \E d : Goto(q, d)
      BY <1>6, ImportsLockless DEF Lockless
    <3>. QED  BY <1>3, <2>2, <3>1
  <2>. QED  BY <2>1, <2>2
<1>7. CASE UNCHANGED vars
  BY <1>2, <1>7 DEF vars
<1>8. CASE ContentNext
  <2>1. PICK q \in Calls :
          \/ \E f \in Files, dry \in BOOLEAN : StartImport(q, f, dry)
          \/ ImportStep(q)
          \/ \E i \in Made : CreateChallenge(q, i)
          \/ AddFlag(q) \/ AddFlagFails(q)
          \/ \E s \in Slugs, n \in Revs : StartRead(q, s, n, "embed") /\ UNCHANGED contentVars
          \/ InsertEmbedded(q)
          \/ \E e \in Ids : DeleteChallenge(q, e)
    BY <1>8 DEF ContentNext
  <2>2. CASE \E f \in Files, dry \in BOOLEAN : StartImport(q, f, dry)
    BY <1>5, <2>2
  <2>3. CASE ImportStep(q)
    BY <1>6, <2>3
  <2>4. CASE ~ImportStep(q) /\ ~\E f \in Files, dry \in BOOLEAN : StartImport(q, f, dry)
    <3>1. Elsewhere(q)
      BY <2>1, <2>4, OthersElsewhere
    <3>. QED  BY <1>4, <3>1
  <2>. QED  BY <2>2, <2>3, <2>4
<1>9. CASE LibraryNext
  <2>1. PICK q \in Calls : Elsewhere(q)
    BY <1>9, OthersElsewhere DEF LibraryNext
  <2>. QED  BY <1>4, <2>1
<1>. QED  BY <1>7, <1>8, <1>9 DEF Next

LEMMA FilesInvariance == Spec => []FilesReported
<1>1. Init => FilesReported
  BY DEF Init, LibraryInit, Idle, Importing, FilesReported
<1>. QED  BY <1>1, NextFiles, ContentInvariance, PTL DEF Spec

\* Of an import with nothing else at work, what its answer does not list under errors
\* is in place: its content, all its files, and those of its flags that can be read,
\* if there are any, unless their replacement failed (handleImport, toStoreFlag).
THEOREM ImportsAsReported == Spec => []ImportedAsReported
<1>1. CInv /\ FilesReported => ImportedAsReported
  <2>. SUFFICES ASSUME CInv, FilesReported, NEW p \in Calls, Importing(p), call[p].pc = "answer", ~call[p].dry, Alone(p),
                       NEW n \in DOMAIN call[p].file \ call[p].problems,
                       \A m \in n + 1 .. Len(call[p].file) : call[p].file[m].title # call[p].file[n].title
                PROVE  /\ Intact(call[p], n)
                       /\ InPlace(call[p].file[n], n \in call[p].silent)
    BY DEF ImportedAsReported, Intact
  <2>1. PlacedOK(call[p]) /\ call[p] \in ImportCall /\ call[p].n \in DOMAIN call[p].file
    BY ImportBegins DEF InOrder
  <2>2. call[p].n = Len(call[p].file) /\ (n < call[p].n \/ n = call[p].n)
    <3>1. DOMAIN call[p].file = 1 .. Len(call[p].file) /\ Len(call[p].file) \in Nat
      BY <2>1, FileShape
    <3>. QED  BY <3>1 DEF FilesReported, FilesRead
  <2>3. Intact(call[p], n)
    BY <2>2 DEF FilesReported, FilesRead
  <2>. QED  BY <2>1, <2>3 DEF PlacedOK, Placed, LastOfTitle
<1>. QED  BY <1>1, ContentInvariance, FilesInvariance, PTL

\* Revisions are numbered without gaps whatever imports and embeddings run beside.
THEOREM RevisionsNumberedHere == Spec => []RevisionsAreNumbered
<1>1. CInv => RevisionsAreNumbered
  BY DEF CInv, LInv, Numbered, Of, RevisionsAreNumbered
<1>. QED  BY <1>1, ContentInvariance, PTL

------------------------------------------------------------------------------
\* The steps that write challenges, flags or files.
LEMMA ContentWrites ==
  ASSUME [Next]_vars
  PROVE  \/ UNCHANGED contentVars
         \/ \E p \in Calls :
              \/ CreateWithFlags(p) \/ UpdateContent(p) \/ CommitSwap(p)
              \/ \E i \in Made : CreateChallenge(p, i)
              \/ AddFlag(p) \/ InsertEmbedded(p)
              \/ \E e \in Ids : DeleteChallenge(p, e)
<1>1. CASE UNCHANGED vars
  BY <1>1 DEF vars
<1>2. CASE LibraryNext /\ UNCHANGED contentVars
  BY <1>2
<1>3. CASE ContentNext
  <2>1. ASSUME NEW p \in Calls, ImportStep(p)
        PROVE  UNCHANGED contentVars \/ CreateWithFlags(p) \/ UpdateContent(p) \/ CommitSwap(p)
    BY <2>1 DEF ImportStep, FindTitle, OpenSwap, DeleteParts, FailSwap, AnswerImport
  <2>2. ASSUME NEW p \in Calls, NEW f \in Files, NEW dry \in BOOLEAN, StartImport(p, f, dry)
        PROVE  UNCHANGED contentVars
    BY <2>2 DEF StartImport
  <2>3. ASSUME NEW p \in Calls, AddFlagFails(p) PROVE UNCHANGED contentVars
    BY <2>3 DEF AddFlagFails
  <2>. QED  BY <1>3, <2>1, <2>2, <2>3 DEF ContentNext
<1>. QED  BY <1>1, <1>2, <1>3 DEF Next

\* What handleEmbed adds is the revision it is pinned to.
THEOREM EmbedsPinned == Spec => EmbeddedAsPinned
<1>1. ASSUME CInv, [Next]_vars PROVE EmbedsItsPin
  <2>1. CASE rows' = rows
    BY <2>1 DEF EmbedsItsPin, Ids
  <2>2. ASSUME NEW p \in Calls, UpdateContent(p) PROVE DOMAIN rows' = Ids
    BY <2>2 DEF UpdateContent, Ids
  <2>3. ASSUME NEW p \in Calls, NEW e \in Ids, DeleteChallenge(p, e) PROVE DOMAIN rows' = Ids
    BY <2>3 DEF DeleteChallenge, Ids
  <2>4. CASE DOMAIN rows' = Ids
    BY <2>4 DEF EmbedsItsPin
  <2>5. ASSUME NEW r, rows' = Append(rows, r), NEW e \in DOMAIN rows' \ Ids
        PROVE  e = Len(rows) + 1 /\ rows'[e] = r
    <3>1. rows \in Seq(ChallengeRow \cup {Gone}) /\ Ids = 1 .. Len(rows) /\ Len(rows) \in Nat
      BY <1>1, RowsByNumber DEF CInv, TablesTyped
    <3>2. rows \in Seq(ChallengeRow \cup {Gone, r})
      <4>1. \A i \in 1 .. Len(rows) : rows[i] \in ChallengeRow \cup {Gone, r}
        BY <3>1, ElementOfSeq
      <4>. QED  BY <3>1, <4>1, SeqDef, LenProperties
    <3>3. r \in ChallengeRow \cup {Gone, r}
      OBVIOUS
    <3>4. Len(rows') = Len(rows) + 1 /\ rows'[Len(rows) + 1] = r /\ rows' \in Seq(ChallengeRow \cup {Gone, r})
      BY <2>5, <3>2, <3>3, AppendProperties
    <3>5. DOMAIN rows' = 1 .. Len(rows) + 1
      BY <3>4, LenProperties
    <3>6. e = Len(rows) + 1
      BY <3>1, <3>5
    <3>. QED  BY <3>4, <3>6
  <2>6. ASSUME NEW p \in Calls, CreateWithFlags(p), NEW e \in DOMAIN rows' \ Ids
        PROVE  rows'[e].by = "import"
    <3>1. ~(UNCHANGED contentVars)
      BY <2>6 DEF contentVars, Ids
    <3>2. PICK r : rows' = Append(rows, r) /\ r.by = "import"
      BY <2>6, <3>1 DEF CreateWithFlags, Row
    <3>. QED  BY <2>5, <3>2
  <2>7. ASSUME NEW p \in Calls, NEW i \in Made, CreateChallenge(p, i), NEW e \in DOMAIN rows' \ Ids
        PROVE  rows'[e].by = "create"
    <3>1. PICK r : rows' = Append(rows, r) /\ r.by = "create"
      BY <2>7 DEF CreateChallenge, Row
    <3>. QED  BY <2>5, <3>1
  <2>8. ASSUME NEW p \in Calls, InsertEmbedded(p), NEW e \in DOMAIN rows' \ Ids
        PROVE  \E r \in revisions :
                 /\ [slug |-> r.slug, rev |-> r.rev] = rows'[e].pin
                 /\ rows'[e].text = r.body.text
                 /\ Vals(e, "flags")' = r.body.flags
    <3>1. PICK c : c = call[p]
      OBVIOUS
    <3>2. ~(UNCHANGED contentVars)
      BY <2>8 DEF contentVars, Ids
    <3>3. /\ c.pc = "embed"
          /\ rows' = Append(rows, Row(c.slug, c.body.text, [slug |-> c.slug, rev |-> c.rev], "embed", 0))
          /\ parts' = parts \cup Parts(Len(rows) + 1, "flags", c.body.flags, <<p, 1>>, {})
      BY <2>8, <3>1, <3>2 DEF InsertEmbedded
    <3>4. PICK r : r = Revision(c.slug, c.rev, c.body)
      OBVIOUS
    <3>5. r \in revisions
      BY <1>1, <3>1, <3>3, <3>4 DEF CInv, CallOK
    <3>6. /\ e = Len(rows) + 1 /\ rows'[e].pin = [slug |-> c.slug, rev |-> c.rev]
          /\ rows'[e].text = c.body.text
      BY <2>5, <2>8, <3>3 DEF Row
    <3>7. PICK new : new = Parts(e, "flags", c.body.flags, <<p, 1>>, {})
      OBVIOUS
    <3>8. Has(e, "flags")' = new
      <4>1. \A x \in parts : x.row # e
        BY <1>1, <2>8 DEF CInv, PartOK, Live
      <4>2. \A x \in new : x.row = e /\ x.kind = "flags"
        BY <3>7, PartsShape
      <4>3. parts' = parts \cup new
        BY <3>3, <3>6, <3>7
      <4>. QED  BY <4>1, <4>2, <4>3 DEF Has
    <3>9. Vals(e, "flags")' = c.body.flags
      <4>1. {x.val : x \in new} = c.body.flags
        BY <3>7, PartsShape
      <4>. QED  BY <3>8, <4>1 DEF Vals
    <3>. QED  BY <3>4, <3>5, <3>6, <3>9 DEF Revision
  <2>9. ASSUME NEW p \in Calls, CommitSwap(p) \/ AddFlag(p) PROVE rows' = rows
    BY <2>9 DEF CommitSwap, AddFlag
  <2>10. UNCHANGED contentVars => rows' = rows
    BY DEF contentVars
  <2>11. (\E p \in Calls : CreateWithFlags(p) \/ \E i \in Made : CreateChallenge(p, i)) => EmbedsItsPin
    BY <2>6, <2>7 DEF EmbedsItsPin
  <2>12. (\E p \in Calls : InsertEmbedded(p)) => EmbedsItsPin
    BY <2>8 DEF EmbedsItsPin
  <2>. QED  BY <1>1, <2>1, <2>2, <2>3, <2>4, <2>9, <2>10, <2>11, <2>12, ContentWrites
<1>2. CInv /\ [Next]_vars => [EmbedsItsPin]_vars
  BY <1>1
<1>. QED  BY <1>2, ContentInvariance, PTL DEF Spec, EmbeddedAsPinned

\* No import takes the last flag from a challenge.
THEOREM FlagsStay == Spec => NeverLeftFlagless
<1>1. ASSUME CInv, [Next]_vars PROVE KeepsAFlag
  <2>1. CASE parts \subseteq parts'
    BY <2>1 DEF KeepsAFlag, Has
  <2>2. ASSUME NEW p \in Calls, CreateWithFlags(p) \/ AddFlag(p) \/ InsertEmbedded(p) \/ UpdateContent(p)
                                \/ \E i \in Made : CreateChallenge(p, i)
        PROVE  parts \subseteq parts'
    BY <2>2 DEF CreateWithFlags, AddFlag, InsertEmbedded, UpdateContent, CreateChallenge, contentVars
  <2>3. ASSUME NEW p \in Calls, CommitSwap(p) PROVE KeepsAFlag
    <3>1. PICK c : c = call[p]
      OBVIOUS
    <3>2. PICK vals : vals = Readable(IF c.kind = "flags" THEN c.file[c.n].flags ELSE c.file[c.n].files)
      OBVIOUS
    <3>3. PICK new : new = Parts(c.row, c.kind, vals, <<p, c.n>>, c.saw)
      OBVIOUS
    <3>4. Importing(p) /\ c.pc = "put" /\ parts' = (parts \ c.held) \cup new
      BY <2>3, <3>1, <3>2, <3>3 DEF CommitSwap, ItemParts, Item, Write
    <3>5. WorkingOK(c) /\ SwapOK(c)
      BY <1>1, <3>1, <3>4, ImportBegins
    <3>6. \A x \in c.held : x.row = c.row /\ x.kind = c.kind
      BY <3>4, <3>5 DEF SwapOK, Beside
    <3>7. c.kind = "flags" => \E x \in new : x.row = c.row /\ x.kind = "flags"
      <4>1. c.kind = "flags" => vals # {}
        BY <3>2, <3>4, <3>5 DEF WorkingOK, Swapping
      <4>2. {x.val : x \in new} = vals /\ \A x \in new : x.row = c.row /\ x.kind = c.kind
        BY <3>3, PartsShape
      <4>3. vals # {} => new # {}
        BY <4>2
      <4>. QED  BY <4>1, <4>2, <4>3
    <3>8. ASSUME NEW e \in Live, Has(e, "flags") # {} PROVE Has(e, "flags")' # {}
      <4>1. PICK x \in parts : x.row = e /\ x.kind = "flags"
        BY <3>8 DEF Has
      <4>2. CASE x \in c.held
        <5>1. c.kind = "flags" /\ e = c.row
          BY <3>6, <4>1, <4>2
        <5>. QED  BY <3>4, <3>7, <5>1 DEF Has
      <4>3. CASE x \notin c.held
        BY <3>4, <4>1, <4>3 DEF Has
      <4>. QED  BY <4>2, <4>3
    <3>. QED  BY <3>8 DEF KeepsAFlag
  <2>4. ASSUME NEW p \in Calls, NEW f \in Ids, DeleteChallenge(p, f) PROVE KeepsAFlag
    <3>1. rows' = [rows EXCEPT ![f] = Gone] /\ parts' = {x \in parts : x.row # f}
      BY <2>4 DEF DeleteChallenge
    <3>2. rows'[f] = Gone
      BY <3>1 DEF Ids
    <3>3. \A e \in Live \ {f} : Has(e, "flags")' = Has(e, "flags")
      BY <3>1 DEF Has
    <3>. QED  BY <3>2, <3>3 DEF KeepsAFlag
  <2>5. UNCHANGED contentVars => parts' = parts
    BY DEF contentVars
  <2>. QED  BY <1>1, <2>1, <2>2, <2>3, <2>4, <2>5, ContentWrites
<1>2. CInv /\ [Next]_vars => [KeepsAFlag]_vars
  BY <1>1
<1>. QED  BY <1>2, ContentInvariance, PTL DEF Spec, NeverLeftFlagless

=============================================================================

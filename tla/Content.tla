------------------------------- MODULE Content -------------------------------
(***************************************************************************)
(* The challenges of one event and the handlers that fill them: import,    *)
(* manual creation, embedding of a library revision, deletion.  One action *)
(* per transaction, and two for a DELETE, which removes the rows its       *)
(* snapshot shows once nobody else holds them.  A text is a challenge's    *)
(* category, description, scoring, state and tags.                         *)
(***************************************************************************)
EXTENDS Library, Sequences

CONSTANTS
  Items,         \* entries of import files: [title, text, flags, files]
  Files,         \* import files, sequences of entries
  Made,          \* entries created by hand
  FirstItems,    \* the event's first challenges, a sequence of entries
  Unreadable,    \* flags and files that cannot be converted: blank, not hex or base64
  Importers,     \* bound: the handlers that may serve an import
  Gone,          \* a deleted row
  NoPin,         \* of a challenge that is not embedded
  Revs           \* the revisions an embedding may ask for, 0 for the current one

ASSUME ItemsAssumption ==
  /\ Files \subseteq Seq(Items) \ {<<>>} /\ Made \subseteq Items /\ FirstItems \in Seq(Items)
  /\ \A i \in 1 .. Len(FirstItems) : FirstItems[i].files = {}
  /\ \A i \in Made : IsFiniteSet(i.flags) /\ i.flags # {}

\* A row of event_challenges.  `by' and `asof' are history: which handler made it, and
\* how many rows there had been when it looked for the title.
ChallengeRow ==
  [title : {i.title : i \in Items} \cup Slugs,
   text  : {x.text : x \in Items \cup Bodies},
   pin   : [slug : Slugs, rev : Nat] \cup {NoPin},
   by    : {"create", "import", "embed"},
   asof  : Nat]

ASSUME GoneAssumption == Gone \notin ChallengeRow

VARIABLES
  rows,    \* event_challenges in order of insertion: ChallengeRow or Gone
  parts    \* rows of flags and event_challenge_files: [row, kind, val, write, saw]

contentVars == <<rows, parts>>
vars == <<libVars, call, contentVars>>

Kinds == {"flags", "files"}

\* What the handlers make of the flags or files in a request (toStoreFlag,
\* toStoreFile, parseCTFd): the others are dropped.
Readable(vals) == vals \ Unreadable

Row(title, text, pin, by, asof) ==
  [title |-> title, text |-> text, pin |-> pin, by |-> by, asof |-> asof]

\* The rows that one write inserts.  History: which write, and the writes whose rows
\* its DELETE saw, if it had one.
Parts(e, kind, vals, write, saw) ==
  {[row |-> e, kind |-> kind, val |-> v, write |-> write, saw |-> saw] : v \in vals}

Has(e, kind) == {x \in parts : x.row = e /\ x.kind = kind}
Vals(e, kind) == {x.val : x \in Has(e, kind)}

Ids == DOMAIN rows
Live == {e \in Ids : rows[e] # Gone}
Titled(title) == {e \in Live : rows[e].title = title}

Init ==
  /\ LibraryInit
  /\ rows = [i \in DOMAIN FirstItems |->
               Row(FirstItems[i].title, FirstItems[i].text, NoPin, "create", 0)]
  /\ parts = UNION {Parts(i, "flags", Readable(FirstItems[i].flags), <<NoCall, i>>, {}) :
                     i \in DOMAIN FirstItems}

------------------------------------------------------------------------------
(* handleImport.  A call holds its place in the file, the row it works on, what it *)
(* will report, and as history the calls that were over when it began (`after')   *)
(* and the entries whose failing ReplaceFlags it kept to itself (`silent').       *)

StartImport(p, file, dry) ==
  /\ p \in Importers
  /\ call[p] = Idle
  /\ Goto(p, [pc |-> "find", file |-> file, dry |-> dry, n |-> 1, row |-> 0,
              asof |-> 0, kind |-> "flags", snapshot |-> {}, held |-> {}, saw |-> {},
              problems |-> {}, silent |-> {}, after |-> {q \in Calls : call[q] = Done}])
  /\ UNCHANGED <<libVars, contentVars>>

Importing(p) == "file" \in DOMAIN call[p]

Item(p) == call[p].file[call[p].n]

Write(p) == <<p, call[p].n>>

\* The next entry, or the answer.
NextItem(p, c) ==
  Goto(p, IF c.n = Len(c.file) THEN [c EXCEPT !.pc = "answer"]
          ELSE [c EXCEPT !.pc = "find", !.n = @ + 1])

Problem(c) == [c EXCEPT !.problems = @ \cup {c.n}]

\* The entry's flags and files are converted.  A file that is dropped is reported, a
\* flag is not.
Converted(c) ==
  IF c.file[c.n].files \cap Unreadable = {} THEN c ELSE Problem(c)

\* After the entry's flags: its files, if there are any.
ThenFiles(p, c) ==
  IF Readable(c.file[c.n].files) = {} THEN NextItem(p, c)
  ELSE Goto(p, [c EXCEPT !.pc = "swap", !.kind = "files"])

\* After its content: its flags, if there are any.
ThenFlags(p, c) ==
  IF Readable(c.file[c.n].flags) = {} THEN ThenFiles(p, c)
  ELSE Goto(p, [c EXCEPT !.pc = "swap", !.kind = "flags"])

\* Mutant: a failing lookup is taken for no such row.
FindTitle_ErrorIsNone(p) ==
  /\ Importing(p) /\ call[p].pc = "find"
  /\ LET c == Converted([call[p] EXCEPT !.asof = Len(rows)]) IN
       \/ c.dry /\ NextItem(p, c)
       \/ /\ ~c.dry
          /\ \E e \in Titled(Item(p).title) : Goto(p, [c EXCEPT !.pc = "update", !.row = e])
       \/ ~c.dry /\ Goto(p, [c EXCEPT !.pc = "create"])
       \/ NextItem(p, Problem(c))
  /\ UNCHANGED <<libVars, contentVars>>

\* FindECByTitle: some row of that title (LIMIT 1), none, or a failing lookup.
FindTitle(p) ==
  /\ Importing(p) /\ call[p].pc = "find"
  /\ LET c == Converted([call[p] EXCEPT !.asof = Len(rows)]) IN
       \/ c.dry /\ NextItem(p, c)
       \/ /\ ~c.dry
          /\ \E e \in Titled(Item(p).title) : Goto(p, [c EXCEPT !.pc = "update", !.row = e])
       \/ ~c.dry /\ Titled(Item(p).title) = {} /\ Goto(p, [c EXCEPT !.pc = "create"])
       \/ NextItem(p, Problem(c))
  /\ UNCHANGED <<libVars, contentVars>>

\* CreateChallengeWithFlags: row and flags in one transaction.
CreateWithFlags(p) ==
  /\ Importing(p) /\ call[p].pc = "create"
  /\ LET c == call[p]  i == Item(p)  e == Len(rows) + 1 IN
       \/ /\ rows' = Append(rows, Row(i.title, i.text, NoPin, "import", c.asof))
          /\ parts' = parts \cup Parts(e, "flags", Readable(i.flags), Write(p), {})
          /\ ThenFiles(p, [c EXCEPT !.row = e])
       \/ NextItem(p, Problem(c)) /\ UNCHANGED contentVars
  /\ UNCHANGED libVars

\* UpdateChallengeContent: an error is reported, and the import goes on.
UpdateContent(p) ==
  /\ Importing(p) /\ call[p].pc = "update"
  /\ LET c == call[p] IN
       \/ /\ rows[c.row] # Gone
          /\ rows' = [rows EXCEPT ![c.row].text = Item(p).text]
          /\ ThenFlags(p, c)
       \/ ThenFlags(p, Problem(c)) /\ UNCHANGED rows
  /\ UNCHANGED <<libVars, parts>>

------------------------------------------------------------------------------
(* ReplaceFlags and ReplaceChallengeFiles: DELETE, INSERT ..., COMMIT.            *)

\* The DELETE sees the rows that are committed when it begins.
OpenSwap(p) ==
  /\ Importing(p) /\ call[p].pc = "swap"
  /\ Goto(p, [call[p] EXCEPT !.pc = "delete", !.snapshot = Has(call[p].row, call[p].kind)])
  /\ UNCHANGED <<libVars, contentVars>>

Holds(q, x) == Importing(q) /\ x \in call[q].held

\* Mutant: the deletion is committed on its own.
DeleteParts_Autocommit(p) ==
  /\ Importing(p) /\ call[p].pc = "delete"
  /\ \A q \in Calls, x \in call[p].snapshot : ~Holds(q, x)
  /\ parts' = parts \ call[p].snapshot
  /\ Goto(p, [call[p] EXCEPT !.pc = "put", !.snapshot = {}])
  /\ UNCHANGED <<libVars, rows>>

\* It waits for whoever holds one of them, and then holds those that still stand.
DeleteParts(p) ==
  /\ Importing(p) /\ call[p].pc = "delete"
  /\ \A q \in Calls, x \in call[p].snapshot : ~Holds(q, x)
  /\ Goto(p, [call[p] EXCEPT !.pc = "put", !.snapshot = {}, !.held = call[p].snapshot \cap parts,
                          !.saw = {x.write : x \in call[p].snapshot}])
  /\ UNCHANGED <<libVars, contentVars>>

ItemParts(p) == Readable(IF call[p].kind = "flags" THEN Item(p).flags ELSE Item(p).files)

Released(c) == [c EXCEPT !.snapshot = {}, !.held = {}, !.saw = {}]

AfterSwap(p, c) == IF c.kind = "flags" THEN ThenFiles(p, c) ELSE NextItem(p, c)

\* Mutant: the challenge may be gone.
CommitSwap_NoRow(p) ==
  /\ Importing(p) /\ call[p].pc = "put"
  /\ LET c == call[p] IN
       /\ parts' = (parts \ c.held) \cup Parts(c.row, c.kind, ItemParts(p), Write(p), c.saw)
       /\ AfterSwap(p, Released(c))
  /\ UNCHANGED <<libVars, rows>>

\* Mutant: the DELETE is missing.
CommitSwap_NoDelete(p) ==
  /\ Importing(p) /\ call[p].pc = "put"
  /\ LET c == call[p] IN
       /\ rows[c.row] # Gone
       /\ parts' = parts \cup Parts(c.row, c.kind, ItemParts(p), Write(p), c.saw)
       /\ AfterSwap(p, Released(c))
  /\ UNCHANGED <<libVars, rows>>

\* What is held goes and what is inserted is seen at once; the insert needs the row.
CommitSwap(p) ==
  /\ Importing(p) /\ call[p].pc = "put"
  /\ LET c == call[p] IN
       /\ rows[c.row] # Gone
       /\ parts' = (parts \ c.held) \cup Parts(c.row, c.kind, ItemParts(p), Write(p), c.saw)
       /\ AfterSwap(p, Released(c))
  /\ UNCHANGED <<libVars, rows>>

\* Mutant: a failing swap of files is not reported either.
FailSwap_Silent(p) ==
  /\ Importing(p) /\ call[p].pc \in {"swap", "delete", "put"}
  /\ LET c == Released(call[p]) IN
       IF c.kind = "flags" THEN ThenFiles(p, [c EXCEPT !.silent = @ \cup {c.n}])
       ELSE NextItem(p, c)
  /\ UNCHANGED <<libVars, contentVars>>

\* A swap that fails changes nothing.  Of flags the error is dropped, of files it is
\* reported.
FailSwap(p) ==
  /\ Importing(p) /\ call[p].pc \in {"swap", "delete", "put"}
  /\ LET c == Released(call[p]) IN
       IF c.kind = "flags" THEN ThenFiles(p, [c EXCEPT !.silent = @ \cup {c.n}])
       ELSE NextItem(p, Problem(c))
  /\ UNCHANGED <<libVars, contentVars>>

AnswerImport(p) ==
  /\ Importing(p) /\ call[p].pc = "answer"
  /\ Goto(p, Done)
  /\ UNCHANGED <<libVars, contentVars>>

------------------------------------------------------------------------------
(* handleCreateChallenge: the row, and then its flags one statement each, but for   *)
(* blank ones, which may be all of them.                                          *)

CreateChallenge(p, i) ==
  /\ call[p] = Idle
  /\ rows' = Append(rows, Row(i.title, i.text, NoPin, "create", 0))
  /\ Goto(p, IF Readable(i.flags) = {} THEN Done
             ELSE [pc |-> "flag", row |-> Len(rows) + 1, left |-> Readable(i.flags)])
  /\ UNCHANGED <<libVars, parts>>

AddFlag(p) ==
  /\ call[p].pc = "flag"
  /\ LET c == call[p] IN
       \E f \in c.left :
         /\ rows[c.row] # Gone
         /\ parts' = parts \cup Parts(c.row, "flags", {f}, <<p, Cardinality(c.left)>>, {})
         /\ Goto(p, IF c.left = {f} THEN Done ELSE [c EXCEPT !.left = @ \ {f}])
  /\ UNCHANGED <<libVars, rows>>

\* Some AddFlag fails, and the handler answers 500 and leaves the rest.
AddFlagFails(p) ==
  /\ call[p].pc = "flag"
  /\ Goto(p, Done)
  /\ UNCHANGED <<libVars, contentVars>>

(* EmbedFromLibrary, after ReadRow and ReadRevision: challenge and flags at once. *)
InsertEmbedded(p) ==
  /\ call[p].pc = "embed"
  /\ LET c == call[p] IN
       \/ /\ rows' = Append(rows, Row(c.slug, c.body.text, [slug |-> c.slug, rev |-> c.rev], "embed", 0))
          /\ parts' = parts \cup Parts(Len(rows) + 1, "flags", c.body.flags, <<p, 1>>, {})
       \/ UNCHANGED contentVars
  /\ Goto(p, Done)
  /\ UNCHANGED libVars

\* A bulk delete of one challenge: the cascade waits for the parts others hold.
DeleteChallenge(p, e) ==
  /\ call[p] = Idle
  /\ rows[e] # Gone
  /\ \A q \in Calls, x \in parts : x.row = e => ~Holds(q, x)
  /\ rows' = [rows EXCEPT ![e] = Gone]
  /\ parts' = {x \in parts : x.row # e}
  /\ Goto(p, Done)
  /\ UNCHANGED libVars

------------------------------------------------------------------------------
ImportStep(p) ==
  \/ FindTitle(p) \/ CreateWithFlags(p) \/ UpdateContent(p)
  \/ OpenSwap(p) \/ DeleteParts(p) \/ CommitSwap(p) \/ FailSwap(p) \/ AnswerImport(p)

ContentNext ==
  \E p \in Calls :
    \/ \E f \in Files, dry \in BOOLEAN : StartImport(p, f, dry)
    \/ ImportStep(p)
    \/ \E i \in Made : CreateChallenge(p, i)
    \/ AddFlag(p) \/ AddFlagFails(p)
    \/ \E s \in Slugs, n \in Revs : StartRead(p, s, n, "embed") /\ UNCHANGED contentVars
    \/ InsertEmbedded(p)
    \/ \E e \in Ids : DeleteChallenge(p, e)

Next == ContentNext \/ (LibraryNext /\ UNCHANGED contentVars)

Spec == Init /\ [][Next]_vars

------------------------------------------------------------------------------
TypeOK ==
  /\ current_rev \in [Slugs -> Nat]
  /\ \A r \in revisions : r.slug \in Slugs /\ r.rev \in Nat /\ r.body \in Bodies
  /\ \A s \in Slugs : lock[s] # NoCall => call[lock[s]].pc = "append" /\ call[lock[s]].slug = s
  /\ \A x \in parts : x.row \in Live /\ x.kind \in Kinds
  /\ \A p \in Calls : Importing(p) =>
       /\ call[p].n \in DOMAIN call[p].file
       /\ call[p].pc \in {"update", "swap", "delete", "put"} => call[p].row \in Ids
       /\ call[p].held # {} => call[p].pc = "put" /\ call[p].held \subseteq parts

\* A challenge that handleEmbed adds stands from the first with the text and all the
\* flags of the revision it is pinned to, whatever revisions were made meanwhile.
EmbedsItsPin ==
  \A e \in DOMAIN rows' \ Ids :
    rows'[e].by = "embed" =>
      \E r \in revisions :
        /\ [slug |-> r.slug, rev |-> r.rev] = rows'[e].pin
        /\ rows'[e].text = r.body.text
        /\ Vals(e, "flags")' = r.body.flags

EmbeddedAsPinned == [][EmbedsItsPin]_vars

\* No import, however it fails and whatever runs beside it, takes the last flag from a
\* challenge that had one: ReplaceFlags deletes and inserts in one transaction, and is
\* not called for an entry without flags.
KeepsAFlag ==
  \A e \in Live :
    Has(e, "flags") # {} /\ rows'[e] # Gone => Has(e, "flags")' # {}

NeverLeftFlagless == [][KeepsAFlag]_vars

\* "idempotent by title": handleImport adds a second challenge with a title only if the
\* first one was inserted after FindECByTitle had looked for it.
DuplicateOnlyByRace ==
  \A d, e \in Live :
    d < e /\ rows[d].title = rows[e].title /\ rows[e].by = "import" => d > rows[e].asof

Alone(p) == \A q \in Calls \ {p} : call[q] = Idle \/ q \in call[p].after

InPlace(i, silent) ==
  \E e \in Titled(i.title) :
    /\ rows[e].text = i.text
    /\ Readable(i.flags) # {} /\ ~silent => Vals(e, "flags") = Readable(i.flags)
    /\ Readable(i.files) # {} => Vals(e, "files") = Readable(i.files)

\* Of an import with nothing else at work, every entry that its answer does not list
\* under errors is in place, the last one of each title: its content, all its files,
\* and those of its flags that can be read, if there are any.  What the answer keeps to
\* itself are the other flags (toStoreFlag, parseCTFd) and a failing ReplaceFlags.
ImportedAsReported ==
  \A p \in Calls :
    Importing(p) /\ call[p].pc = "answer" /\ ~call[p].dry /\ Alone(p) =>
      LET c == call[p] IN
        \A n \in DOMAIN c.file \ c.problems :
          (\A m \in n + 1 .. Len(c.file) : c.file[m].title # c.file[n].title)
            => /\ Readable(c.file[n].files) = c.file[n].files
               /\ InPlace(c.file[n], n \in c.silent)

\* ReplaceFlags and ReplaceChallengeFiles leave nothing of what stood when they began:
\* the flags (files) of two writes are on a challenge together only if neither DELETE
\* saw the other's rows, which is so when the two transactions overlap.
SwapsMixOnlyByRace ==
  \A x, y \in parts :
    x.row = y.row /\ x.kind = y.kind /\ x.write # y.write => y.write \notin x.saw

=============================================================================

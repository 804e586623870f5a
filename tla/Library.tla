------------------------------- MODULE Library -------------------------------
(***************************************************************************)
(* The challenge library: challenges (a row with current_rev) and their    *)
(* challenge_revisions.  One action per transaction or statement of the    *)
(* handlers.  A slug is the identity of a challenge, (org_id, slug) being  *)
(* unique; a body is a revision's text, scoring and flags.                 *)
(***************************************************************************)
EXTENDS Integers, FiniteSets

CONSTANTS
  Calls,         \* running handlers; each serves one request
  Slugs,
  Bodies,        \* [text, flags]
  FirstBodies,   \* [Slugs -> SUBSET Bodies]: of the challenges there are, revision 1
  NoCall

ASSUME NoCallAssumption == NoCall \notin Calls
ASSUME FirstBodiesAssumption ==
  FirstBodies \in [Slugs -> SUBSET Bodies]
  /\ \A s \in Slugs : \A b, c \in FirstBodies[s] : b = c

VARIABLES
  current_rev,   \* challenges: [Slugs -> Nat], 0 where there is no row
  revisions,     \* challenge_revisions: rows [slug, rev, body]
  lock,          \* who holds the challenge's row
  call           \* what each handler is doing

libVars == <<current_rev, revisions, lock>>

Idle == [pc |-> "idle"]
Done == [pc |-> "done"]

Goto(p, c) == call' = [call EXCEPT ![p] = c]

Revision(s, n, b) == [slug |-> s, rev |-> n, body |-> b]

LibraryInit ==
  /\ current_rev = [s \in Slugs |-> Cardinality(FirstBodies[s])]
  /\ revisions = UNION {{Revision(s, 1, b) : b \in FirstBodies[s]} : s \in Slugs}
  /\ lock = [s \in Slugs |-> NoCall]
  /\ call = [p \in Calls |-> Idle]

------------------------------------------------------------------------------
\* CreateLibraryChallenge: one transaction inserts the row and its revision 1,
\* or meets a challenge with that slug (ErrConflict).
CreateLibraryChallenge(p, s, b) ==
  /\ IF current_rev[s] = 0
       THEN /\ current_rev' = [current_rev EXCEPT ![s] = 1]
            /\ revisions' = revisions \cup {Revision(s, 1, b)}
       ELSE UNCHANGED <<current_rev, revisions>>
  /\ Goto(p, Done)
  /\ UNCHANGED lock

NewChallenge(p, s, b) ==
  /\ call[p] = Idle
  /\ CreateLibraryChallenge(p, s, b)

StartRevision(p, s, b) ==
  /\ call[p] = Idle
  /\ Goto(p, [pc |-> "bump", slug |-> s, body |-> b])
  /\ UNCHANGED libVars

\* Mutant: the number is read, and the row is not locked.
BumpRev_Unlocked(p) ==
  /\ call[p].pc = "bump"
  /\ LET c == call[p] IN
       Goto(p, IF current_rev[c.slug] = 0
                 THEN Done
                 ELSE [pc |-> "append", slug |-> c.slug, body |-> c.body,
                       rev |-> current_rev[c.slug] + 1])
  /\ UNCHANGED libVars

\* NewRevision: UPDATE ... current_rev + 1 RETURNING waits for the row and holds it.
BumpRev(p) ==
  /\ call[p].pc = "bump"
  /\ LET c == call[p] IN
       /\ lock[c.slug] = NoCall
       /\ \/ /\ current_rev[c.slug] = 0
             /\ Goto(p, Done)
             /\ UNCHANGED lock
          \/ /\ current_rev[c.slug] > 0
             /\ lock' = [lock EXCEPT ![c.slug] = p]
             /\ Goto(p, [pc |-> "append", slug |-> c.slug, body |-> c.body,
                         rev |-> current_rev[c.slug] + 1])
  /\ UNCHANGED <<current_rev, revisions>>

Unlocked(s, p) == [lock EXCEPT ![s] = IF @ = p THEN NoCall ELSE @]

\* The revision is inserted and the transaction commits, or it rolls back.
AppendRevision(p) ==
  /\ call[p].pc = "append"
  /\ LET c == call[p] IN
       /\ lock' = Unlocked(c.slug, p)
       /\ \/ /\ current_rev' = [current_rev EXCEPT ![c.slug] = c.rev]
             /\ revisions' = revisions \cup {Revision(c.slug, c.rev, c.body)}
          \/ UNCHANGED <<current_rev, revisions>>
  /\ Goto(p, Done)

------------------------------------------------------------------------------
\* CloneChallenge and EmbedFromLibrary read the row and then a revision of it.
\* n = 0 asks for the current one; `then' says what is done with it.
StartRead(p, s, n, then) ==
  /\ call[p] = Idle
  /\ Goto(p, [pc |-> "row", slug |-> s, rev |-> n, then |-> then])
  /\ UNCHANGED libVars

ReadRow(p) ==
  /\ call[p].pc = "row"
  /\ LET c == call[p] IN
       Goto(p, IF current_rev[c.slug] = 0
                 THEN Done
                 ELSE [pc |-> "revision", slug |-> c.slug, then |-> c.then,
                       rev |-> IF c.rev = 0 THEN current_rev[c.slug] ELSE c.rev])
  /\ UNCHANGED libVars

\* Mutant: the newest revision is read, whichever was asked for.
ReadRevision_Newest(p) ==
  /\ call[p].pc = "revision"
  /\ LET c == call[p] IN
       \E r \in revisions :
         /\ r.slug = c.slug /\ r.rev = current_rev[c.slug]
         /\ Goto(p, [pc |-> c.then, slug |-> c.slug, rev |-> c.rev, body |-> r.body])
  /\ UNCHANGED libVars

ReadRevision(p) ==
  /\ call[p].pc = "revision"
  /\ LET c == call[p] IN
       \/ \E r \in revisions :
            /\ r.slug = c.slug /\ r.rev = c.rev
            /\ Goto(p, [pc |-> c.then, slug |-> c.slug, rev |-> c.rev, body |-> r.body])
       \/ /\ \A r \in revisions : r.slug # c.slug \/ r.rev # c.rev
          /\ Goto(p, Done)
  /\ UNCHANGED libVars

\* CloneChallenge creates a challenge with the body it read, under some slug.
InsertClone(p) ==
  /\ call[p].pc = "clone"
  /\ \E s \in Slugs : CreateLibraryChallenge(p, s, call[p].body)

LibraryNext ==
  \E p \in Calls :
    \/ \E s \in Slugs, b \in Bodies : NewChallenge(p, s, b) \/ StartRevision(p, s, b)
    \/ BumpRev(p) \/ AppendRevision(p)
    \/ \E s \in Slugs : StartRead(p, s, 0, "clone")
    \/ ReadRow(p) \/ ReadRevision(p) \/ InsertClone(p)

LibrarySpec == LibraryInit /\ [][LibraryNext]_<<libVars, call>>

------------------------------------------------------------------------------
\* The revisions of a challenge are numbered 1, 2, ... up to its current_rev, each
\* number once, however many NewRevision overlap or roll back: an event's pin
\* (challenge_id, rev) names one body, and "current" names one too.
RevisionsAreNumbered ==
  \A s \in Slugs :
    LET of == {r \in revisions : r.slug = s} IN
      /\ {r.rev : r \in of} = 1 .. current_rev[s]
      /\ Cardinality(of) = current_rev[s]

=============================================================================

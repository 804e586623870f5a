# Reduta in TLA+

Reduta is a capture-the-flag platform: a Go server (`internal/`), PostgreSQL and
Redis behind it, a React page (`web/src`) in front of it, and plugins that talk to
it over HTTP. Players form teams, teams submit flags during an event, the
scoreboard moves and every open page follows. This directory models the parts of
it where steps of several actors meet, checks them with TLC and proves the most
important results with TLAPS.

Modules named `X` describe a component, `MCX` a small instance of it for TLC with
its configurations `MCX_<run>.cfg`, `X_proofs` the theorems about it.
`PROJECT.json` maps every definition to the lines it models.

## 1. The system

| component | state | operations | hard part | what makes it correct |
|---|---|---|---|---|
| Scoring store (`store/store.go`, `httpserver/submit.go`) | `submissions`, `score_events`, `scoreboard_entries` | `RecordSolve`, `RecordWrong`, delete by cascade | READ COMMITTED transactions of several members; retries; first blood is decided by a count | nothing is counted twice or by half; the standing is the sum of the stream; first blood goes to the first solver |
| Plugin awards (`store/plugins.go`, `httpserver/plugins.go`) | the same tables, plugin rows | `PluginAward`, `DeletePluginAward` | a retried award against its revocation | idempotent by reference; core rows untouchable |
| Instances (`httpserver/instances.go`, `store/instances.go`) | `instances`, `event_teams`, `instance_spec` | create, get, extend, destroy | lookup, count and insert are separate statements | one running instance per team and challenge; extensions and the cap bounded |
| Scoreboard and realtime (`httpserver/scoreboard.go`, `server.go`, `ws/hub.go`, `web/src/ws.ts`) | Redis key, channel buffers, pages | cached GET, `scoreChanged`, `Broadcast`, reconnect, refetch | cache-aside races, dropped and lost messages, server death | a stale board has a known cause and ends; a page gets the final board, or there is a reason it does not |
| Bulk administration (`store/library.go`, `httpserver/library.go`) | `event_challenges`, `bulk_jobs` | `BulkApply`, `BulkUndo`, single edits | overlapping multi-row updates, snapshot before the locks | each action is atomic; undo gives back what it changed |
| Rate limiter (`ratelimit/ratelimit.go`) | a bucket per event and team, per server | `Allow` | window boundary, several servers | bounded admissions; refusals do not prolong the window |
| Submission gates (`httpserver/submit.go`, `store/gating.go`, `core/unlock`, `core/schedule`) | challenge and block rows, the clock | `handleSubmit`, `TeamGateState`, `Eval`, `OpenAt` | rules evaluated on three separate reads, and used later | who is admitted has fulfilled the rules; who is refused had not |
| Teams (`store/teams_global.go`, `httpserver/teams.go`) | `teams`, `team_members`, `event_teams` | create, join, assign | team and captain are two statements; create and join at once | one team per player; every populated team has its creator as captain |
| Challenge library (`store/library.go`, `httpserver/library.go`) | `challenges`, `challenge_revisions` | create, new revision, clone, embed | revision numbering; pinning | revisions contiguous; an event's copy never moves |
| Import/export, files (`*/importexport.go`, `*/files.go`) | challenge rows, flags, files | export, dry run, import, CTFd import | lookup and create apart; errors dropped | re-import is idempotent; what it does not report is in place |
| Accounts and sessions (`auth/`, `httpserver/auth.go`, `middleware.go`, `cmd/reduta-server`) | `users`, `sessions` | register, login, logout, expiry, guard, bootstrap of the owner | logout against requests under way; servers that start together | no request after logout is served; an account is never changed |
| Webhooks, tick loop, KotH (`httpserver/plugins.go`, `cmd/koth-plugin`) | a ticker per server, the plugin's keys and memory of deliveries | tick, deliver, register, hook, award | lost and repeated deliveries, restarts, new keys, several servers | at most one award per tick of a server; no tick lost without a failure |
| List of challenges (`httpserver/challenges.go`) | what a page shows | `handleListChallenges` | judges the gates with code and reads of its own | what it shows as open is refused only after an edit, a loss or a failed read |
| Series (`store/series.go`) | none | running sums of the stream | - | not modelled |
| Notifications, audit, statistics, views, events CRUD, configuration, start-up, page | rows | single statements, I/O | - | not modelled |

How they interact: `handleSubmit` reads the event, the team, the limiter and the
gates, calls `RecordSolve`, then `scoreChanged` (drops the Redis key and
publishes); a subscriber on every server hands the message to its hub, the hub to
its clients, and a page that receives one refetches through the cached GET.
Awards end in the same `scoreChanged`. Deleting a challenge (a bulk action)
cascades to its submissions and instances, not to its score events. Assigning
teams to events gates both submissions and instances. Every handler runs on behalf of
whom the session middleware found when the request came in. Servers share the
database and Redis; limiter buckets and tickers they have each for itself.

## 2. The modules

### ScoreLedger, Scoring, MCScoring, Scoring_proofs

`ScoreLedger` is what scoring promises: submissions, the score stream and the
standings change together, in one step per solve, award or revocation, and a
repeated call changes nothing. `Scoring` has the statements of `RecordSolve`,
`PluginAward` and `DeletePluginAward`, one action each. A transaction is a
handler's `pc` with its uncommitted rows (`ins`, `del`, `upd`) and the unique
keys and row locks it holds (`held`); a statement that needs a held key waits
(its action is disabled); `Commit` makes the rows visible; `Fail` is any error,
including a deadlock that PostgreSQL breaks, and rolls back. `firstSolver` is a
history variable: the team whose first-committed solve a challenge has.

* `scoring_safe`: three handlers, two teams, two challenges, one award
  reference, no bonus, challenges deleted at any moment. Solves, submissions and
  standings agree with the stream, and the transactions implement the ledger
  (`LedgerSpec`, a refinement whose mapping is the committed tables). Three
  handlers are the least that let a solve, an award and its revocation overlap.
* `scoring_blood`: a bonus of 5 and one challenge that two teams race for.
  The bonus row belongs to the first solver, core rows are for ever, every call
  ends. Fairness: strong on a handler's statements, because PostgreSQL wakes the
  waiters of a key when its holder ends and they compete for it; none on `Fail`.
  No symmetry is used, as the run has a liveness property.
* `scoring_bonus` (violated): with a bonus, `BoardMatchesLedger` fails. Two
  first solvers that count before either commits both add the bonus to their
  standing, and `ON CONFLICT DO NOTHING` keeps one of the rows.

### Instances, MCInstances, Instances_proofs

One action per database call of the create, extend and destroy handlers. Only
running rows are kept (a destroyed row is never read again); expiry is left out,
since nothing in the source acts on it: an expired row keeps its place under the
cap. `uncounted` is history: a count has failed and was taken for zero.

* `instances_rows`: two handlers, two teams, two challenges, a cap of one and
  failing reads. Three row names allow the overshoot of one that is possible and
  the second one that is not.

### LiveBoard, MCLiveBoard, LiveBoard_proofs

A board is the number of changes in it (`version`). Writers commit a change,
delete the key and publish, and may die in between; GET handlers look in the
cache, read the board and store it, in three steps; `bus`, `inbox`, `connected`,
`subscribed` and `gap` are the way of a message to a page; pages refetch on a message.
Redis pub/sub delivers at most once: a message that is published while a server's
subscription is down (`server.go:186-192`; the client library reconnects without a word)
never reaches that server's pages, whose sockets stay open meanwhile. `raced` marks an
entry whose reader began before an invalidation that it overtook, and `misled` a page
whose last request failed or was answered from such an entry.

* `liveboard_faults`: two changes, two writers, two handlers, one page and a
  buffer of one, so that one message fills it; writers die, sockets close,
  subscriptions drop, messages are lost while either is down, calls of Redis and reads
  of the board fail. `StaleOnlyByRace`: an entry that lacks a change whose `Del`
  succeeded was stored by a GET that the `Del` overtook; of a change whose `Del` failed,
  or whose writer died before it, the property says nothing, and `CacheGoesFresh` says
  that such an entry ends too. `SignalPending`: a full buffer never costs a page
  its last message, as long as socket and subscription have been up since it asked.
  `BehindForAReason`: a page that nobody reloads ends up with the final board, or it
  asks again and again, or it is behind for one of the reasons of `Excused`.
* `liveboard_auto` (violated): without any fault `BoardsCatchUp` fails. The entry stored
  late is what the page's refetch is answered with, and no further message comes.

Fairness: weak on the steps of handlers, writers and hub, on reconnects, which all run on
their own, and on the expiry of the key, which is Redis's; strong on `Receive`, because a
page's request waits for one of a bounded number of handlers, which other requests take in
between (the real server has no such bound). None on faults, and none on `Reload`: nothing
makes a person reload a page. Writers and handlers are numbered and the lowest free one
starts, which stands for symmetry, unsound for liveness. Bounds of the instance with faults:
a page's socket and its server's subscription are not down at the same time, and a page is
reloaded only while it shows an old board (a GET that is under way as a change comes is then
the refetch after the change before).

### BulkBoard, Bulk, MCBulk, Bulk_proofs

`BulkBoard`: an action or an undo is one step on the challenges and the job log.
`Bulk`: snapshot, updates that take rows one by one and wait for rows that others
have changed, the job's insert and the commit; an undo reads its job outside its
transaction and restores row by row. `before`, `touched` and `dirty` are history
variables for `UndoRestores`. The challenges there are at first, the actions and what a
request may select are parameters; the assumptions say that actions are those `BulkApply`
knows and that ids are ids of challenges.

* `bulk_admin`: two admins and two jobs, in one of two situations. Either two
  challenges and set, add, remove and delete actions on what a filter finds or on ids
  with exclusions (two rows in either order, so that deadlocks occur, and rows that
  have left the filter when they are reached), or one challenge, the reversible
  actions and single edits. `BoardSpec` states the refinement of steps: whatever rows an
  action reached, it changed and reported them together. It lets an undo be repeated, as the
  code does, and `UndoRestores` excuses rows that anybody has touched since, so
  a second undo may overwrite what came after the first. Deadlock is
  not checked: with `MaxJobs` jobs made and undone, nothing is left to do.

### Installation, RateLimit, Hill, MCServers, Servers_proofs

`Installation` is the server processes; `RateLimit` and `Hill` are what each of
them does on its own. `RateLimit` is `Allow` for one team on several servers, each
with a limiter of its own; time is ticks, and `recent` is history: the hits admitted
within the window, each with its server, its age and its turn among those of the same tick.
`TwoBucketsAMinute` is about each server, so the servers together admit as many times more.

`Hill` is King of the Hill from end to end: a server's ticker (`timer`, `due`, whose
channel holds one tick and drops the next), `tickLoop` (`loop`), `deliverWebhook`
with its fresh id and the time of sending, the plugin with its keys (`conf`, a
generation of keys of which the `plugins` row has the newest) and its memory of
deliveries (`seen`), and the award it asks for (`calls`). The network may lose a
delivery or hand it over again, servers and the plugin stop and start, a second
registration replaces the keys. `missed` is history: the timestamps some failure has hit.
The award's own transaction is `Scoring`'s; here it is one step.

* `servers_ticks`: two servers. The limiter has a limit of two and a window of three
  ticks; `Largest` is the larger of the limit and one, since a bucket opens with one hit
  whatever the limit. The bound of two buckets does not tell apart whether the request at
  exactly the window's length falls into the old bucket or opens the next. The hill has
  minutes of two steps, on one server for two and a half minutes or on both for one and a
  half, two generations of keys and two starts of the plugin. The two modules share
  nothing but the servers, so a behaviour is one of either (`part`). `AwardsWithinTicks`
  is what "a retried tick never double counts" comes to, `TicksAreSettled` its converse.
  Fairness, for `RefusedIsAdmitted`: time passes and the team goes on submitting.
* `servers_payments` (violated): two servers pay the holder twice a minute, since
  each ticks by itself and the award's reference is the second it sends in.

### Unlock, Schedule, Submit, Gallery, MCSubmit, Gates_proofs

`Unlock` is `unlock.Eval` over rule trees, recursive as in the code: a recursive
function over `Rules`, the rules there may be. Its assumption is what being a finite set
of JSON documents means: a rule's parts are rules too, and no rule is part of itself, so that
every set of rules has one with no part in it. `Schedule` is
`schedule.OpenAt` over windows, durations that may be no duration, and the times that a
recurrence rule gives. `Submit` is
`handleSubmit` for the members of one team, check by check, with the three
statements of `TeamGateState` apart, and organizers, awards and the clock between
them. The limiter, wrong flags and errors are `GiveUp`: they leave nothing the
module has. The team may also lose what it had: an award is revoked (`Revoke`), a challenge
is deleted and the team's solve with it (`DeleteChallenge`). `lost` is history: that has
happened since the request came. `Gallery` adds `handleListChallenges`: its reads (`view`), the
page it answers with (`page`, the challenges shown as open with the rules they were
judged by), and as history the page a submission began with (`promise`).

* `submit_gate`: a challenge whose rule nests `any`, `all`, points, a solve and a time, in
  a block with a rule of its own, beside a free one. A behaviour is of one of four kinds
  (`mode`): two submissions at once (`two`), while a challenge is hidden; or
  one submission at a time, whose reads do not fail, beside a member who looks at the list,
  whose reads may: amid edits of rules, states and the block's schedule (`list`), while the
  free challenge is moved into the block or the team unassigned (`move`), or while the
  award is revoked and challenges are deleted (`loss`).
  The clock runs in the first two; an award and solves come in all.
  `AdmittedIsUnlocked` and `LockedWasLocked` speak of lasting rules, with no `not` and no
  `block_completed`, and of a team that loses nothing while its request is under way:
  solves, points and time can then only fulfil them. With a loss, an admission rests on
  what was true when it was read, and the code does not claim otherwise. `OpenIsAccepted`
  says that page and submission agree although each judges the gates itself: a challenge
  that the page has as open is answered "challenge is locked" for one of four reasons
  only. The page was made without blocks, because `ListBlocks` failed
  (`challenges.go:121`: the handler drops the error and with it the blocks' rules); the
  challenge was edited or moved; one of its rules is not lasting; or the team has lost
  points or a solve. Every other failing read of the list fails closed (the team counts as
  empty); the submission fails open.

### Library, Content, MCContent, Content_proofs

`Library` has the library's handlers: a revision is numbered by the `UPDATE` that
increments `current_rev`, whose row lock is `lock`, and appears with the commit; clones
and embeddings read the challenge's row and then the revision, outside any transaction.
`Content` extends it with one event's challenges, flags and files and everything that
fills them: `handleImport` entry by entry, `handleCreateChallenge` with its flags in
separate statements, `EmbedFromLibrary`, bulk deletion. A text stands for category,
description, scoring, state and tags. `Unreadable` are the flags and files that cannot be
converted: blank, not hexadecimal, not base64, or a regex flag of a CTFd file. `Readable`
is the conversion, `Converted` what it reports: a dropped file is listed under the errors,
a dropped flag is not. `ReplaceFlags` and `ReplaceChallengeFiles` take three steps: the
`DELETE`'s snapshot (`OpenSwap`), the rows it then holds (`DeleteParts`, which waits for
other holders), the inserts with the commit. Every statement can fail. History: a row's
`asof` (how many rows there were when its import looked for the title), a part's `write`
and `saw`, an import's `after` and `silent`.

* `content_import`: three handlers of one request each, two of which may serve
  an import, over an event with one challenge and a library with one. The import
  files have an entry with flags and files, one with files only and one with
  nothing that can be read, for two titles, of which one is also a library challenge's.
  `RevisionsAreNumbered`, `EmbeddedAsPinned` and `NeverLeftFlagless` hold without
  reservation. `DuplicateOnlyByRace`, `SwapsMixOnlyByRace` and
  `ImportedAsReported` say exactly how far an import can be trusted: it is
  idempotent by title, replaces what it finds and reports what fails, unless
  it overlaps another writer. What it keeps to itself in any case are a failing replacement of
  flags, whose error is dropped, and flags that cannot be read: one entry has a readable
  and an unreadable flag, another only an unreadable one.
  Deadlock is not checked: when every handler has served its request, nothing is
  left to do. Titles' emptiness and the plan's two numbers are left
  out: such an entry is skipped or counted, and nothing else depends on it.

### Teams, Accounts, MCAccounts, Accounts_proofs

`Teams`: creation in its two statements, joining, codes that are given away, and
handlers that fail in between. `out` holds the teams whose invite code somebody
outside the server has seen.

`Accounts` puts people and sessions in front of it: registration, login and logout
statement by statement, expiry, the middleware that looks a session up once per
request, and `bootstrapAdmin`, which every server runs at its start. `step` is where a
handler is before or beside its work for a team; a team handler runs only on behalf of the
user its request was identified as. History: `late` (the request came after its
token's logout was answered), `loggedOut`, `undeleted` (deletions that failed).

* `accounts_teams`: three people, one of them with the administrator's email, two
  session tokens, two team names, two handlers, failing statements. No fairness is
  needed: all properties are of safety.

## 3. Bounds

| bound | where | why it is enough |
|---|---|---|
| two or three handlers | all | the races are between two statements of different handlers; the third one retries or waits behind both |
| `MaxVersion` = 2, `BufferMax` = 1, one of socket and subscription down, reloads of old boards | LiveBoard | a change during the handling of another; a full buffer and a dropped message |
| `MaxJobs` = 2 | Bulk | an undo of a job that another job has overwritten |
| `InstanceIds` | Instances | one more than can run under the cap with two handlers |
| `Window` = 3, `Limit` = 2 | RateLimit | hits at the start, middle and end of a window; three windows overlap a minute only if a bound is broken |
| `Minute` = 2, `MaxTime` = 5, `TimeOfTwo` = 3 | Hill | a second tick while a call of the first is on its way; two servers whose tickers fire a step apart |
| `MaxKeys` = 2, `MaxBoots` = 2 | Hill | a registration while deliveries are signed with the old secret; a plugin that has forgotten |
| `Tokens` = 2 | Accounts | a session that is logged out beside one that is not; tokens are never drawn again |
| `Day` = 1 | Schedule | a day as long as a step of the clock, so that a recurring window closes within the event |
| `Importers`, `Revs`, `Files` | Content | two imports that overlap and a third handler that deletes, embeds or creates meanwhile; a file of two entries for what follows a failure |
| `AllRules`, `AllSchedules` | Submit | the rules and schedules of the first rows and of the edits, with their parts; the kinds of rules nest three deep |
| `MaxTime` = 1, one award (`OneAward`), `mode` | Submit | one change of each quantity the rules compare; moves and losses each beside one submission and one page |

Configurations name them all. Symmetry is used only in runs without liveness
properties, over sets whose members no property tells apart.

## 4. What is proved

For every value of the constants that the modules' assumptions allow:

* `Scoring_proofs`: `TypeCorrect`, `SolvesCorrect`, `SubmissionsCorrect`,
  `FirstBloodCorrect`, `CoreRowsKept`, `ImplementsLedger`, `PointsInvariance`,
  `BoardCorrect`. None of them is inductive alone: the invariant `IInv` says what a
  transaction at each `pc` holds (the keys of what it inserts, so that two never
  insert the same row), what its buffers contain, and that a locked row has not
  changed since it was locked. Locks are exclusive, so a step of one handler leaves the
  knowledge of the others standing (`StableTx`, `LocalStep`); each statement has a lemma;
  the commit uses everything its transaction knows. `SolvesCorrect` counts rows, with
  the library's facts about finite cardinalities. `BoardCorrect` sums them: a sum over a
  set is a recursion over its subsets in the order of `CHOOSE`; it has a solution, which
  does not depend on the order, since a smallest set without one, or of which two orders
  differ, could lose a row (`TablesExist`, `AnyOrder`), and a commit adds its row's points
  to both sides (`CommitAdds`). `ImplementsLedger` and `BoardCorrect` assume
  `FirstBloodBonus = 0`, and the run `scoring_bonus` shows why; with any bonus a standing
  is still never below the sum (`PointsInvariance`).
* `Instances_proofs`: `TypeCorrect`, `OneRunning`, `ExtensionsCorrect`,
  `OvershootCorrect`. The cap needs a strengthening: the running instances and
  the handlers between count and insert together never exceed the cap by the
  number of handlers.
* `LiveBoard_proofs`: `TypeCorrect`, `StaleOnlyByRaceCorrect`,
  `SignalPendingCorrect`. The invariant relates what a handler has read to the
  invalidations since then, and what a page has asked for to the messages that its server has had.
* `Bulk_proofs`: `BulkTypeCorrect`, `UndoRestoresRows`, `BulkImplementsBoard`. `BInv` says
  that rows a transaction has changed are changed by no other (`Locked`), what its
  snapshot and `dirty` say of the rows it has still to reach, and of each job
  which rows it changed and how they had been (`JobOK`). The commit maps to the board's
  step on exactly the rows it reached, every other step stutters.
* `Servers_proofs`, the hill: `HillTypeCorrect`, `TicksSettled`, `AwardsBounded`. The
  bound needs two parts that the property does not show: every tick a server has sent or
  is about to send has taken a whole minute of its clock (`Paced`), and awards have
  timestamps of deliveries that differ in their ids (`PostsOK`, `AwardsOK`). The awards
  then inject into the pairs of a server and a tick, and the library's facts about
  cardinalities count them. The limiter: `TwoBucketsCorrect`, for any limit and window.
  The invariant (`Bucketed`) splits a minute's hits into those of the open bucket, which
  its count bounds, and those admitted before it opened, all of them within the bucket
  before, since buckets open a whole window apart. `ServersTypeCorrect` is about both.
* `Gates_proofs`: `RecurringIsOpen` (the span in which `OpenAt` looks for occurrences
  misses none) and `UnparsedStaysOpen`, about the operators of `Schedule`;
  `SubmitTypeCorrect`, `AdmittedCorrect`, `RefusedCorrect` for any number of submissions
  and any rules, and `GalleryCorrect` with the list beside them. `Eval` and
  `Lasting` have a value for every rule (`FromTheLeaves`: of a least set of rules left
  over one has no part in it, and can be given its value), which makes `EvalOf` and
  `LastingOf`, one node at a time. With them `LastingHolds`: a lasting rule that holds of a
  team holds of it with more solves, more points and later. The invariant `SInv` then
  only has to say that what a submission has read lies between the team it began with
  and the team as it is, unless the team has lost something since; the three statements need be
  no snapshot. `GInv` says the same of the page.
* `Content_proofs`: `RevisionsNumbered` for the library on its own (`LibrarySpec`), and for
  the whole of `Content` `ContentTypeCorrect`, `RevisionsNumberedHere`, `Idempotent`,
  `SwapsReplace`, `ImportsAsReported`, `EmbedsPinned`, `FlagsStay`. `LInv` says that a save
  with a number holds the challenge's row and that the number is the next one. `CInv` adds
  what a handler knows at each `pc` (`CallOK`): of an import, what its entries so far have
  left or reported (`EntryOK`, `WorkingOK`), and of a swap under way which rows its
  snapshot has and its `DELETE` holds (`SwapOK`); every flag or file has its writer and
  what that one saw (`PartOK`). Rows that two deletions hold are disjoint (`HeldApart`).
* `Accounts_proofs`, teams: `OneTeam`, `Led`. A code is only out when the
  captain's row is in, and a creator's handler has the only reference to its team
  until then. Accounts: `AccountsTypeCorrect`, `LoggedOut`, `AccountsKept`, and
  `ServesTeams`: the composition implements `Teams`, every step of it being one of
  `Teams` or leaving its variables alone, so that `PlayersTeams` follows from the
  theorems about teams. The invariant says what a handler knows at each `step`;
  what makes it inductive is that a token is never drawn twice, so that a session
  that is over stays over (`RowsGrow`).

With these, every safety property that a run checks is a theorem. The assumptions are
those of the modules, which TLC evaluates on the instances: finite sets of challenges,
handlers and rules where something is counted or recursive, types of the initial rows and
of what is asked for, and that the null values (`None`, `Gone`, ...) are none of the data.

Model-checked only: liveness (`EveryCallEnds`, `CacheGoesFresh`, `BehindForAReason`,
`RefusedIsAdmitted`), which needs fairness and ENABLED.

## 5. Where the code and its documents part

Shown by a run: the bonus that is credited twice (`scoring_bonus`), the page
that keeps an old board (`liveboard_auto`) and the hill that pays twice a minute with
two servers (`servers_payments`). Read in the code while modelling it, and part of the
models, without a run of their own:

* The "global cap" on instances (ADR-0009) can be passed: the count and the
  insert are two statements (`instances.go:110`). `CapOvershootBounded` says by
  how much, and that a failed count lifts it.
* A logout whose `DeleteSession` fails is answered as done, and the session lives on
  until it expires (`auth.go:95`). `LoggedOutIsOut` makes the exception explicit.
* A duration that is not of days, hours, minutes and seconds (weeks, fractions, which
  ISO 8601 has) is taken for none: a one-off window is then open for ever, a recurring one for
  a day (`schedule.go:85-92`).
* When the list cannot read the blocks it shows the challenges without their blocks'
  schedules and rules (`challenges.go:121`).
* A change of a block's schedule, and a bulk undo, are not published: pages keep the
  old list until something else is (`gating_handlers.go:51`, `httpserver/library.go:285`).
* Undoing a bulk `set_schedule` succeeds and leaves the schedule: the snapshot
  does not have it (`library.go:465`).
* "Flag submissions per team per minute" is a fixed window per server:
  `TwoBucketsAMinute` is what holds.
* When a statement of `TeamGateState`, or the block's lookup, fails, the unlock
  rules are not evaluated and the submission goes on (`submit.go:84, 95`).
* A schedule cleared with JSON `null` is stored as JSON null, which is not "no
  schedule": the block's is not inherited (`submit.go:85`).
* "A whole block completed": a block's total counts published challenges, its
  solved number counts challenges in any state (`gating.go:71, 101`), so that a block
  with a solved and hidden challenge can count as completed with another one unsolved.
* `ReplaceFlags` "atomically swaps a challenge's flag set": when two overlap, each
  `DELETE` sees only what was committed when it began, and both sets stay
  (`store/importexport.go:53`; the same for files). `SwapsMixOnlyByRace` says that it
  takes such an overlap.
* "regex flags are skipped with a note" (`httpserver/importexport.go:256`): `parseCTFd` skips them
  and makes no note (line 294), and `handleImport` drops a flag that `toStoreFlag` cannot read
  as silently (line 199). `ImportedAsReported` speaks of the readable flags only.
* Import is "idempotent by title", which no unique key backs: two at once can both
  create a challenge. `DuplicateOnlyByRace` says that it takes such an overlap.
* "An event round-trips as JSON, including blocks": an import ignores the blocks
  (`httpserver/importexport.go:168`).
* "at least one flag is required" counts blank flags, which are then skipped: a
  challenge can be created, and published, with none (`challenges.go:69, 96`).
* The plan of a dry run counts a title that the file has twice as two creations;
  the import creates one and updates it (`httpserver/importexport.go:212`).
* A creation that fails between its two inserts leaves a team with no captain,
  and its name taken (`teams.go:37-49`). `LedByCreator` says that nobody is in it.

## 6. Plan

Done: the core, where most writers meet (Scoring), then the components that share
its triggers or tables, in the order of section 2.

Since then: accounts and sessions in front of the teams, King of the Hill with the
tick loops, schedules over windows, the list of challenges beside submissions, the selector of
bulk actions; then the proofs about every component's safety properties.

Next, in this order:

1. Export beside imports: what it reads while flags are replaced, and the round trip of a
   challenge.
2. `solve.created` deliveries, which share `deliverWebhook` with the ticks, over
   `Scoring`'s commits.

Not planned: password hashing, flag hashing and comparison, configuration,
migrations, logging and start-up (libraries and I/O); notifications, audit log,
statistics and saved views (single-statement rows with no invariant across
them); the score series (it reads and sums); the creation of events and blocks
(one row each); the page's presentation.

## 7. Running

    tlc -workers 2 -config MCScoring_safe.cfg MCScoring.tla
    tlapm Scoring_proofs.tla

------------------------------ MODULE LiveBoard ------------------------------
(***************************************************************************)
(* How a change of one event's standing reaches the browsers that show it: *)
(* scoreChanged (drop the cached board, publish), the Redis pub/sub bridge *)
(* and the WebSocket hub, the browser's refetch, and handleScoreboard,     *)
(* which answers from a cache with a time to live.                         *)
(*                                                                         *)
(* The board is abstracted to the number of changes made to it.  All       *)
(* messages are "scoreboard", so queues of them are counts.  The handlers  *)
(* of a GET run on when the browser no longer waits for their answer.      *)
(*                                                                         *)
(* Redis delivers at most once: what it publishes while the subscription   *)
(* of a server is down is lost, and the pages of that server stay          *)
(* connected and hear nothing of it.                                       *)
(***************************************************************************)
EXTENDS Integers

CONSTANTS
  Browsers,      \* scoreboard pages that have loaded once
  Writers,       \* handlers that change the standing and call scoreChanged
  Handlers,      \* GET handlers; bounds how many requests are under way
  MaxVersion,    \* bound on the number of changes
  BufferMax,     \* capacity of ws.Client.send
  Faults,        \* may Redis, the database or a connection fail, or a server die?
  None

ASSUME BoundsAssumption == MaxVersion \in Nat /\ BufferMax \in Nat \ {0}
ASSUME FaultsAssumption == Faults \in BOOLEAN
ASSUME NoneAssumption == None \notin Handlers

VARIABLES
  version,     \* changes committed to the board
  cache,       \* value of sb:<event>, or None
  wpc,         \* next statement of each writer
  wver,        \* the change the writer has committed and not announced
  hpc,         \* next statement of each GET handler
  got,         \* the board the handler has read
  bus,         \* messages published, not yet taken by the browser's server
  inbox,       \* messages in the browser's ws.Client.send
  connected,   \* the browser's WebSocket is open
  subscribed,  \* its server's subscription to Redis is up
  waiting,     \* the request whose answer the browser will show
  shown,       \* the board it shows
  invalidated, \* history: latest change whose writer has dropped the cache
  published,   \* history: latest change whose writer has published it
  raced,       \* history: the cache was dropped since the handler's read
  gap,         \* history: the browser or its server was cut off since its last request
  asked,       \* history: the board when the browser sent that request, or 0 after a gap
  misled       \* history: that request failed, or was answered from a raced entry

writers  == <<wpc, wver>>
readers  == <<hpc, got, raced>>
realtime == <<bus, inbox, connected, subscribed, gap>>
browsers == <<waiting, shown, asked, misled>>
vars == <<version, cache, writers, readers, realtime, browsers, invalidated, published>>

Entry == [v : 0..MaxVersion, ttl : BOOLEAN, raced : BOOLEAN]

Larger(m, n) == IF m > n THEN m ELSE n

------------------------------------------------------------------------------
Init ==
  /\ version = 0
  /\ cache = None
  /\ wpc = [w \in Writers |-> "idle"]
  /\ wver = [w \in Writers |-> 0]
  /\ hpc = [h \in Handlers |-> "idle"]
  /\ got = [h \in Handlers |-> 0]
  /\ bus = [b \in Browsers |-> 0]
  /\ inbox = [b \in Browsers |-> 0]
  /\ connected = [b \in Browsers |-> TRUE]
  /\ subscribed = [b \in Browsers |-> TRUE]
  /\ waiting = [b \in Browsers |-> None]
  /\ shown = [b \in Browsers |-> 0]
  /\ invalidated = 0
  /\ published = 0
  /\ raced = [h \in Handlers |-> FALSE]
  /\ asked = [b \in Browsers |-> 0]
  /\ gap = [b \in Browsers |-> FALSE]
  /\ misled = [b \in Browsers |-> FALSE]

------------------------------------------------------------------------------
\* A solve, award, revocation or team assignment commits.
CommitChange(w) ==
  /\ wpc[w] = "idle"
  /\ version < MaxVersion
  /\ version' = version + 1
  /\ wpc' = [wpc EXCEPT ![w] = "invalidate"]
  /\ wver' = [wver EXCEPT ![w] = version + 1]
  /\ UNCHANGED <<cache, readers, realtime, browsers, invalidated, published>>

\* Mutant: another key is deleted.
InvalidateCache_WrongKey(w) ==
  /\ wpc[w] = "invalidate"
  /\ wpc' = [wpc EXCEPT ![w] = "publish"]
  /\ invalidated' = Larger(invalidated, wver[w])
  /\ UNCHANGED <<version, cache, wver, readers, realtime, browsers, published>>

\* scoreChanged's Del.  Its error is ignored.
InvalidateCache(w) ==
  /\ wpc[w] = "invalidate"
  /\ wpc' = [wpc EXCEPT ![w] = "publish"]
  /\ \/ /\ cache' = None
        /\ invalidated' = Larger(invalidated, wver[w])
        /\ raced' = [h \in Handlers |-> raced[h] \/ hpc[h] = "set"]
     \/ /\ Faults
        /\ UNCHANGED <<cache, invalidated, raced>>
  /\ UNCHANGED <<version, wver, hpc, got, realtime, browsers, published>>

\* scoreChanged's Publish, to the servers that are subscribed.
PublishChange(w) ==
  /\ wpc[w] = "publish"
  /\ wpc' = [wpc EXCEPT ![w] = "idle"]
  /\ \/ /\ bus' = [b \in Browsers |-> IF subscribed[b] THEN bus[b] + 1 ELSE bus[b]]
        /\ published' = Larger(published, wver[w])
     \/ /\ Faults
        /\ UNCHANGED <<bus, published>>
  /\ wver' = [wver EXCEPT ![w] = 0]
  /\ UNCHANGED <<version, cache, readers, inbox, connected, subscribed, gap, browsers, invalidated>>

\* The server dies with the change committed: nobody hears of it.
WriterDies(w) ==
  /\ Faults
  /\ wpc[w] # "idle"
  /\ wpc' = [wpc EXCEPT ![w] = "idle"]
  /\ wver' = [wver EXCEPT ![w] = 0]
  /\ UNCHANGED <<version, cache, readers, realtime, browsers, invalidated, published>>

------------------------------------------------------------------------------
\* Mutant: the channel has no buffer, and the client's pump is seldom ready.
Broadcast_Unbuffered(b) ==
  /\ bus[b] > 0
  /\ bus' = [bus EXCEPT ![b] = @ - 1]
  /\ UNCHANGED <<version, cache, writers, readers, inbox, connected, subscribed, gap,
                 browsers, invalidated, published>>

\* Mutant: an unbounded queue for each client.
Broadcast_Unbounded(b) ==
  /\ bus[b] > 0
  /\ bus' = [bus EXCEPT ![b] = @ - 1]
  /\ inbox' = [inbox EXCEPT ![b] = IF connected[b] THEN @ + 1 ELSE @]
  /\ UNCHANGED <<version, cache, writers, readers, connected, subscribed, gap,
                 browsers, invalidated, published>>

\* subscribe takes a message from Redis; Hub.Broadcast hands it to a client, or
\* drops it if the client's buffer is full or the client is gone.
Broadcast(b) ==
  /\ bus[b] > 0
  /\ bus' = [bus EXCEPT ![b] = @ - 1]
  /\ inbox' = [inbox EXCEPT ![b] =
                 IF connected[b] /\ @ < BufferMax THEN @ + 1 ELSE @]
  /\ UNCHANGED <<version, cache, writers, readers, connected, subscribed, gap,
                 browsers, invalidated, published>>

CutOff(b) ==
  /\ gap' = [gap EXCEPT ![b] = TRUE]
  /\ asked' = [asked EXCEPT ![b] = 0]

\* The WebSocket closes, and what was buffered for it goes.  The page connects
\* again (useEventWS); it does not refetch because of that.
Disconnect(b) ==
  /\ Faults
  /\ connected[b]
  /\ connected' = [connected EXCEPT ![b] = FALSE]
  /\ inbox' = [inbox EXCEPT ![b] = 0]
  /\ CutOff(b)
  /\ UNCHANGED <<version, cache, writers, readers, bus, subscribed, waiting, shown, misled,
                 invalidated, published>>

Reconnect(b) ==
  /\ ~connected[b]
  /\ connected' = [connected EXCEPT ![b] = TRUE]
  /\ UNCHANGED <<version, cache, writers, readers, bus, inbox, subscribed, gap, browsers,
                 invalidated, published>>

\* The server's subscription drops, and some of what was under way to it with it.
\* Redis keeps nothing for it, and nobody tells the page.
DropSubscription(b) ==
  /\ Faults
  /\ subscribed[b]
  /\ subscribed' = [subscribed EXCEPT ![b] = FALSE]
  /\ \E n \in 0..bus[b] : bus' = [bus EXCEPT ![b] = n]
  /\ CutOff(b)
  /\ UNCHANGED <<version, cache, writers, readers, inbox, connected, waiting, shown, misled,
                 invalidated, published>>

\* The Redis client subscribes again by itself.
Resubscribe(b) ==
  /\ ~subscribed[b]
  /\ subscribed' = [subscribed EXCEPT ![b] = TRUE]
  /\ UNCHANGED <<version, cache, writers, readers, bus, inbox, connected, gap, browsers,
                 invalidated, published>>

------------------------------------------------------------------------------
\* The page asks for the board and forgets a request it was waiting for.
Fetch(b, h) ==
  /\ hpc[h] = "idle"
  /\ hpc' = [hpc EXCEPT ![h] = "get"]
  /\ waiting' = [waiting EXCEPT ![b] = h]
  /\ IF connected[b] /\ subscribed[b]
       THEN /\ gap' = [gap EXCEPT ![b] = FALSE]
            /\ asked' = [asked EXCEPT ![b] = version]
       ELSE CutOff(b)
  /\ misled' = [misled EXCEPT ![b] = FALSE]
  /\ UNCHANGED <<version, cache, writers, got, raced, bus, connected, subscribed, shown,
                 invalidated, published>>

\* Mutant: no second refetch while one is under way.
Receive_Deduplicated(b) ==
  /\ inbox[b] > 0
  /\ inbox' = [inbox EXCEPT ![b] = @ - 1]
  /\ \/ waiting[b] = None /\ \E h \in Handlers : Fetch(b, h)
     \/ /\ waiting[b] # None
        /\ UNCHANGED <<version, cache, writers, readers, bus, connected, subscribed, gap,
                       browsers, invalidated, published>>

\* invalidateQueries on a "scoreboard" message.
Receive(b) ==
  /\ inbox[b] > 0
  /\ inbox' = [inbox EXCEPT ![b] = @ - 1]
  /\ \E h \in Handlers : Fetch(b, h)

\* Somebody reloads the page.
Reload(b) ==
  /\ waiting[b] = None
  /\ UNCHANGED inbox
  /\ \E h \in Handlers : Fetch(b, h)

\* The request fails on its way, or its answer does; the handler runs on.
RequestFails(b) ==
  /\ Faults
  /\ waiting[b] # None
  /\ waiting' = [waiting EXCEPT ![b] = None]
  /\ misled' = [misled EXCEPT ![b] = TRUE]
  /\ UNCHANGED <<version, cache, writers, readers, realtime, shown, asked,
                 invalidated, published>>

\* The handler h is done, and pages wait for it no longer.
Finish(h) ==
  /\ hpc' = [hpc EXCEPT ![h] = "idle"]
  /\ got' = [got EXCEPT ![h] = 0]
  /\ raced' = [raced EXCEPT ![h] = FALSE]
  /\ waiting' = [b \in Browsers |-> IF waiting[b] = h THEN None ELSE waiting[b]]

\* It answers with the board v, which may be from an entry that a race had left.
Answer(h, v, old) ==
  /\ Finish(h)
  /\ shown' = [b \in Browsers |-> IF waiting[b] = h THEN v ELSE shown[b]]
  /\ misled' = [b \in Browsers |-> IF waiting[b] = h THEN old ELSE misled[b]]

\* It answers 500, and a page keeps what it has.
AnswerError(h) ==
  /\ Finish(h)
  /\ misled' = [b \in Browsers |-> IF waiting[b] = h THEN TRUE ELSE misled[b]]
  /\ UNCHANGED shown

\* handleScoreboard looks for a cached body; an error is a miss.
GetCached(h) ==
  /\ hpc[h] = "get"
  /\ \/ /\ cache # None
        /\ Answer(h, cache.v, cache.raced)
     \/ /\ cache = None \/ Faults
        /\ hpc' = [hpc EXCEPT ![h] = "read"]
        /\ UNCHANGED <<got, raced, waiting, shown, misled>>
  /\ UNCHANGED <<version, cache, writers, realtime, asked, invalidated, published>>

\* store.Scoreboard.  If it fails, nothing is stored.
ReadBoard(h) ==
  /\ hpc[h] = "read"
  /\ \/ /\ hpc' = [hpc EXCEPT ![h] = "set"]
        /\ got' = [got EXCEPT ![h] = version]
        /\ UNCHANGED <<raced, waiting, shown, misled>>
     \/ Faults /\ AnswerError(h)
  /\ UNCHANGED <<version, cache, writers, realtime, asked, invalidated, published>>

\* Mutant: the entry is stored with no expiry.
SetCached_NoTTL(h) ==
  /\ hpc[h] = "set"
  /\ cache' = [v |-> got[h], ttl |-> FALSE, raced |-> raced[h]]
  /\ Answer(h, got[h], FALSE)
  /\ UNCHANGED <<version, writers, realtime, asked, invalidated, published>>

\* Set with a time to live, whatever has happened since the read; its error is
\* ignored.
SetCached(h) ==
  /\ hpc[h] = "set"
  /\ \/ cache' = [v |-> got[h], ttl |-> TRUE, raced |-> raced[h]]
     \/ Faults /\ UNCHANGED cache
  /\ Answer(h, got[h], FALSE)
  /\ UNCHANGED <<version, writers, realtime, asked, invalidated, published>>

\* Redis drops the entry at the end of its time to live.
ExpireCached ==
  /\ cache # None
  /\ cache.ttl
  /\ cache' = None
  /\ UNCHANGED <<version, writers, readers, realtime, browsers, invalidated, published>>

------------------------------------------------------------------------------
WriterStep(w) == InvalidateCache(w) \/ PublishChange(w)
HandlerStep(h) == GetCached(h) \/ ReadBoard(h) \/ SetCached(h)

Next ==
  \/ \E w \in Writers : CommitChange(w) \/ WriterStep(w) \/ WriterDies(w)
  \/ \E b \in Browsers :
       \/ Broadcast(b) \/ Disconnect(b) \/ Reconnect(b)
       \/ DropSubscription(b) \/ Resubscribe(b)
       \/ Receive(b) \/ Reload(b) \/ RequestFails(b)
  \/ \E h \in Handlers : HandlerStep(h)
  \/ ExpireCached

Spec == Init /\ [][Next]_vars

\* Handlers run on, messages are pumped, pages and servers connect again, entries
\* expire.  Receive waits for a handler of the bounded pool, which others may take.
\* Nobody has to reload a page.
Fairness ==
  /\ \A w \in Writers : WF_vars(WriterStep(w))
  /\ \A h \in Handlers : WF_vars(HandlerStep(h))
  /\ \A b \in Browsers : /\ WF_vars(Broadcast(b))
                         /\ WF_vars(Reconnect(b))
                         /\ WF_vars(Resubscribe(b))
                         /\ SF_vars(Receive(b))
  /\ WF_vars(ExpireCached)

FairSpec == Spec /\ Fairness

------------------------------------------------------------------------------
\* Versions are of changes made; no buffer holds more than its capacity.
TypeOK ==
  /\ version \in 0..MaxVersion
  /\ cache \in Entry \cup {None}
  /\ wpc \in [Writers -> {"idle", "invalidate", "publish"}]
  /\ wver \in [Writers -> 0..MaxVersion]
  /\ hpc \in [Handlers -> {"idle", "get", "read", "set"}]
  /\ got \in [Handlers -> 0..MaxVersion]
  /\ bus \in [Browsers -> Nat]
  /\ inbox \in [Browsers -> 0..BufferMax]
  /\ connected \in [Browsers -> BOOLEAN]
  /\ subscribed \in [Browsers -> BOOLEAN]
  /\ waiting \in [Browsers -> Handlers \cup {None}]
  /\ shown \in [Browsers -> 0..MaxVersion]
  /\ invalidated \in 0..MaxVersion
  /\ published \in 0..MaxVersion
  /\ raced \in [Handlers -> BOOLEAN]
  /\ asked \in [Browsers -> 0..MaxVersion]
  /\ gap \in [Browsers -> BOOLEAN]
  /\ misled \in [Browsers -> BOOLEAN]

\* "invalidated on writes" (handleScoreboard): a cached board lacks a change
\* whose scoreChanged has dropped the cache only if the handler that stored it
\* had read the board before that, and stored it after.
StaleOnlyByRace ==
  cache # None /\ cache.v < invalidated => cache.raced

\* Dropping a message because the client's buffer is full loses nothing: a page
\* that has not asked for the board since a change was published still has a
\* message under way, if its socket and its server's subscription have been up
\* since it asked (Hub.Broadcast, ws.Client.send, subscribe).
SignalPending ==
  \A b \in Browsers :
    ~gap[b] /\ asked[b] < published => bus[b] > 0 \/ inbox[b] > 0

\* Whatever raced, failed or died, the cache ends up with the final board or
\* with none (the time to live of handleScoreboard's Set).
CacheGoesFresh == <>[](cache = None \/ cache.v = version)

\* All that can leave a page behind: it or its server was cut off since it last
\* asked, that request failed or was answered from a raced entry, or the last
\* change was not made known (scoreChanged: Del or Publish failed, or the server
\* died).
Excused(b) == gap[b] \/ misled[b] \/ invalidated < version \/ published < version

\* When changes cease, and though nobody reloads it, a page ends up showing the
\* final board, unless it asks again and again or stays behind for one of these
\* reasons (handleScoreboard, scoreChanged, Hub.Broadcast, useEventWS).
BehindForAReason ==
  \A b \in Browsers : <>[](shown[b] = version \/ waiting[b] # None \/ Excused(b))

\* "the board and scoreboard update themselves without a manual refresh"
\* (docs/index.html): when changes cease, every page ends up showing the final
\* board.
BoardsCatchUp == \A b \in Browsers : <>[](shown[b] = version)

=============================================================================

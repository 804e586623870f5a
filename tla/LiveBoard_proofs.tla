--------------------------- MODULE LiveBoard_proofs ---------------------------
(***************************************************************************)
(* The cache and the realtime path for any number of pages, handlers,      *)
(* writers and changes, and any buffer.                                    *)
(***************************************************************************)
EXTENDS LiveBoard, TLAPS

\* Nothing is announced before it is committed.
AnnouncedExist ==
  /\ invalidated <= version
  /\ published <= version
  /\ \A w \in Writers : wver[w] <= version

\* A handler about to fill the cache with a board from before an invalidation
\* has had that invalidation pass it.
FillsAreMarked ==
  \A h \in Handlers : hpc[h] = "set" /\ got[h] < invalidated => raced[h]

\* A page that cannot be reached is known to have been cut off.
GapsAreMarked == \A b \in Browsers : ~connected[b] \/ ~subscribed[b] => gap[b]

IInv ==
  /\ TypeOK
  /\ AnnouncedExist
  /\ FillsAreMarked
  /\ GapsAreMarked
  /\ StaleOnlyByRace
  /\ SignalPending

USE BoundsAssumption, FaultsAssumption, NoneAssumption

------------------------------------------------------------------------------
\* The type of every variable is kept, action by action.
LEMMA WriterTypes ==
  ASSUME TypeOK, NEW w \in Writers,
         CommitChange(w) \/ InvalidateCache(w) \/ PublishChange(w) \/ WriterDies(w)
  PROVE  TypeOK'
<1>1. CASE CommitChange(w)
  BY <1>1 DEF TypeOK, CommitChange, readers, realtime, browsers
<1>2. CASE InvalidateCache(w)
  <2>1. Larger(invalidated, wver[w]) \in 0..MaxVersion
    BY DEF TypeOK, Larger
  <2> QED
    BY <1>2, <2>1 DEF TypeOK, InvalidateCache, realtime, browsers
<1>3. CASE PublishChange(w)
  <2>1. Larger(published, wver[w]) \in 0..MaxVersion
    BY DEF TypeOK, Larger
  <2> QED
    BY <1>3, <2>1 DEF TypeOK, PublishChange, readers, browsers
<1>4. CASE WriterDies(w)
  BY <1>4 DEF TypeOK, WriterDies, readers, realtime, browsers
<1> QED
  BY <1>1, <1>2, <1>3, <1>4

\* The browser's half of the type invariant.
LEMMA BrowserTypes ==
  ASSUME TypeOK, NEW b \in Browsers,
         \/ Broadcast(b) \/ Disconnect(b) \/ Reconnect(b) \/ DropSubscription(b)
         \/ Resubscribe(b) \/ Receive(b) \/ Reload(b) \/ RequestFails(b)
  PROVE  TypeOK'
<1>1. CASE Broadcast(b)
  <2>1. /\ bus[b] - 1 \in Nat
        /\ inbox[b] < BufferMax => inbox[b] + 1 \in 0..BufferMax
    BY <1>1 DEF TypeOK, Broadcast
  <2> QED
    BY <1>1, <2>1 DEF TypeOK, Broadcast, writers, readers, browsers
<1>2. CASE Disconnect(b)
  BY <1>2 DEF TypeOK, Disconnect, CutOff, writers, readers
<1>3. CASE Reconnect(b) \/ Resubscribe(b)
  BY <1>3 DEF TypeOK, Reconnect, Resubscribe, writers, readers, browsers
<1>4. CASE Receive(b) \/ Reload(b)
  <2>1. PICK h \in Handlers : Fetch(b, h)
    BY <1>4 DEF Receive, Reload
  <2>2. inbox' \in [Browsers -> 0..BufferMax]
    <3>1. CASE inbox' = inbox
      BY <3>1 DEF TypeOK
    <3>2. CASE inbox[b] > 0 /\ inbox' = [inbox EXCEPT ![b] = @ - 1]
      <4>1. inbox[b] - 1 \in 0..BufferMax
        BY <3>2 DEF TypeOK
      <4> QED
        BY <3>2, <4>1 DEF TypeOK
    <3> QED
      BY <1>4, <3>1, <3>2 DEF Receive, Reload
  <2>3. gap' \in [Browsers -> BOOLEAN] /\ asked' \in [Browsers -> 0..MaxVersion]
    <3>1. CASE connected[b] /\ subscribed[b]
      <4>1. /\ gap' = [gap EXCEPT ![b] = FALSE]
            /\ asked' = [asked EXCEPT ![b] = version]
        BY <2>1, <3>1, Zenon DEF Fetch
      <4> QED
        BY <4>1 DEF TypeOK
    <3>2. CASE ~(connected[b] /\ subscribed[b])
      <4>1. CutOff(b)
        BY <2>1, <3>2, Zenon DEF Fetch
      <4> QED
        BY <4>1 DEF TypeOK, CutOff
    <3> QED
      BY <3>1, <3>2
  <2> QED
    BY <2>1, <2>2, <2>3 DEF TypeOK, Fetch, writers
<1>5. CASE DropSubscription(b)
  <2>1. PICK n \in 0..bus[b] : bus' = [bus EXCEPT ![b] = n]
    BY <1>5 DEF DropSubscription
  <2>2. n \in Nat
    BY DEF TypeOK
  <2> QED
    BY <1>5, <2>1, <2>2 DEF TypeOK, DropSubscription, CutOff, writers, readers
<1>6. CASE RequestFails(b)
  BY <1>6 DEF TypeOK, RequestFails, writers, readers, realtime
<1> QED
  BY <1>1, <1>2, <1>3, <1>4, <1>5, <1>6

\* A handler that is done leaves its request, and an answer is a board there was.
LEMMA AnswerTypes ==
  ASSUME TypeOK, NEW h \in Handlers, NEW v \in 0..MaxVersion, NEW old \in BOOLEAN,
         Answer(h, v, old) \/ AnswerError(h)
  PROVE  /\ hpc' \in [Handlers -> {"idle", "get", "read", "set"}]
         /\ got' \in [Handlers -> 0..MaxVersion]
         /\ raced' \in [Handlers -> BOOLEAN]
         /\ shown' \in [Browsers -> 0..MaxVersion]
         /\ waiting' \in [Browsers -> Handlers \cup {None}]
         /\ misled' \in [Browsers -> BOOLEAN]
<1>1. Finish(h)
  BY DEF Answer, AnswerError
<1>2. /\ hpc' \in [Handlers -> {"idle", "get", "read", "set"}]
      /\ got' \in [Handlers -> 0..MaxVersion]
      /\ raced' \in [Handlers -> BOOLEAN]
      /\ waiting' \in [Browsers -> Handlers \cup {None}]
  BY <1>1 DEF TypeOK, Finish
<1>3. shown' \in [Browsers -> 0..MaxVersion]
  BY DEF TypeOK, Answer, AnswerError
<1>4. misled' \in [Browsers -> BOOLEAN]
  <2>1. CASE Answer(h, v, old)
    <3>1. misled' = [b \in Browsers |-> IF waiting[b] = h THEN old ELSE misled[b]]
      BY <2>1, Zenon DEF Answer
    <3>2. \A b \in Browsers : misled[b] \in BOOLEAN
      BY Zenon DEF TypeOK
    <3> QED
      BY <3>1, <3>2, Zenon
  <2>2. CASE AnswerError(h)
    <3>1. misled' = [b \in Browsers |-> IF waiting[b] = h THEN TRUE ELSE misled[b]]
      BY <2>2, Zenon DEF AnswerError
    <3>2. \A b \in Browsers : misled[b] \in BOOLEAN
      BY Zenon DEF TypeOK
    <3> QED
      BY <3>1, <3>2, Zenon
  <2> QED
    BY <2>1, <2>2
<1> QED
  BY <1>2, <1>3, <1>4

\* The scoreboard handler's half of the type invariant.
LEMMA HandlerTypes ==
  ASSUME TypeOK, NEW h \in Handlers, HandlerStep(h)
  PROVE  TypeOK'
<1>1. CASE GetCached(h)
  <2>1. CASE cache # None /\ Answer(h, cache.v, cache.raced)
    <3>1. cache.v \in 0..MaxVersion /\ cache.raced \in BOOLEAN
      BY <2>1 DEF TypeOK, Entry
    <3> QED
      BY <1>1, <2>1, <3>1, AnswerTypes DEF TypeOK, GetCached, writers, realtime
  <2>2. CASE /\ hpc' = [hpc EXCEPT ![h] = "read"]
             /\ UNCHANGED <<got, raced, waiting, shown, misled>>
    BY <1>1, <2>2 DEF TypeOK, GetCached, writers, realtime
  <2> QED
    BY <1>1, <2>1, <2>2 DEF GetCached
<1>2. CASE ReadBoard(h)
  <2>1. CASE /\ hpc' = [hpc EXCEPT ![h] = "set"]
             /\ got' = [got EXCEPT ![h] = version]
             /\ UNCHANGED <<raced, waiting, shown, misled>>
    BY <1>2, <2>1 DEF TypeOK, ReadBoard, writers, realtime
  <2>2. CASE AnswerError(h)
    <3>1. 0 \in 0..MaxVersion
      OBVIOUS
    <3> QED
      BY <1>2, <2>2, <3>1, AnswerTypes DEF TypeOK, ReadBoard, writers, realtime
  <2> QED
    BY <1>2, <2>1, <2>2 DEF ReadBoard
<1>3. CASE SetCached(h)
  <2>1. got[h] \in 0..MaxVersion /\ raced[h] \in BOOLEAN
    BY DEF TypeOK
  <2>2. cache' \in Entry \cup {None}
    <3>1. [v |-> got[h], ttl |-> TRUE, raced |-> raced[h]] \in Entry
      BY <2>1, Zenon DEF Entry
    <3> QED
      BY <1>3, <3>1, Zenon DEF TypeOK, SetCached
  <2> QED
    BY <1>3, <2>1, <2>2, AnswerTypes DEF TypeOK, SetCached, writers, realtime
<1> QED
  BY <1>1, <1>2, <1>3 DEF HandlerStep

\* Every step keeps every type.
LEMMA NextTypes ==
  ASSUME TypeOK, Next
  PROVE  TypeOK'
<1>1. ASSUME ExpireCached PROVE TypeOK'
  BY <1>1 DEF TypeOK, ExpireCached, writers, readers, realtime, browsers
<1> QED
  BY <1>1, WriterTypes, BrowserTypes, HandlerTypes DEF Next, WriterStep

------------------------------------------------------------------------------
\* What each action does to the rest of the invariant.
LEMMA WriterKeeps ==
  ASSUME IInv, NEW w \in Writers,
         CommitChange(w) \/ InvalidateCache(w) \/ PublishChange(w) \/ WriterDies(w)
  PROVE  /\ AnnouncedExist' /\ FillsAreMarked' /\ GapsAreMarked'
         /\ StaleOnlyByRace' /\ SignalPending'
<1> USE DEF IInv
<1>1. CASE CommitChange(w)
  <2>1. AnnouncedExist'
    BY <1>1 DEF TypeOK, AnnouncedExist, CommitChange
  <2> QED
    BY <1>1, <2>1 DEF CommitChange, readers, realtime, browsers, FillsAreMarked,
                      GapsAreMarked, StaleOnlyByRace, SignalPending
<1>2. CASE InvalidateCache(w)
  <2>1. AnnouncedExist'
    BY <1>2 DEF TypeOK, AnnouncedExist, InvalidateCache, Larger
  <2>2. GapsAreMarked' /\ SignalPending'
    BY <1>2 DEF InvalidateCache, realtime, browsers, GapsAreMarked, SignalPending
  <2>3. FillsAreMarked' /\ StaleOnlyByRace'
    <3>1. CASE UNCHANGED <<cache, invalidated, raced>>
      BY <1>2, <3>1 DEF InvalidateCache, FillsAreMarked, StaleOnlyByRace
    <3>2. CASE cache' = None /\ raced' = [h \in Handlers |-> raced[h] \/ hpc[h] = "set"]
      <4>1. StaleOnlyByRace'
        BY <3>2, Zenon DEF StaleOnlyByRace
      <4>2. \A h \in Handlers : hpc'[h] = "set" => raced'[h]
        BY <1>2, <3>2, Zenon DEF InvalidateCache
      <4>3. FillsAreMarked'
        BY <4>2, Zenon DEF FillsAreMarked
      <4> QED
        BY <4>1, <4>3
    <3> QED
      BY <1>2, <3>1, <3>2 DEF InvalidateCache
  <2> QED
    BY <2>1, <2>2, <2>3
<1>3. CASE PublishChange(w)
  <2>1. AnnouncedExist'
    BY <1>3 DEF TypeOK, AnnouncedExist, PublishChange, Larger
  <2>2. SignalPending'
    <3>1. CASE UNCHANGED <<bus, published>>
      BY <1>3, <3>1 DEF PublishChange, browsers, SignalPending
    <3>2. CASE bus' = [b \in Browsers |-> IF subscribed[b] THEN bus[b] + 1 ELSE bus[b]]
      <4> SUFFICES ASSUME NEW c \in Browsers, ~gap'[c]
                   PROVE  bus'[c] > 0
        BY DEF SignalPending
      <4>1. subscribed[c]
        BY <1>3 DEF PublishChange, GapsAreMarked
      <4> QED
        BY <3>2, <4>1 DEF TypeOK
    <3> QED
      BY <1>3, <3>1, <3>2 DEF PublishChange
  <2> QED
    BY <1>3, <2>1, <2>2 DEF PublishChange, readers, FillsAreMarked, GapsAreMarked,
                            StaleOnlyByRace
<1>4. CASE WriterDies(w)
  <2>1. AnnouncedExist'
    BY <1>4 DEF TypeOK, AnnouncedExist, WriterDies
  <2> QED
    BY <1>4, <2>1 DEF WriterDies, readers, realtime, browsers, FillsAreMarked,
                      GapsAreMarked, StaleOnlyByRace, SignalPending
<1> QED
  BY <1>1, <1>2, <1>3, <1>4

\* A request is sent: it asks for every change there is.
LEMMA FetchKeeps ==
  ASSUME IInv, NEW b \in Browsers, NEW h \in Handlers, Fetch(b, h),
         \A c \in Browsers \ {b} : inbox'[c] = inbox[c]
  PROVE  /\ AnnouncedExist' /\ FillsAreMarked' /\ GapsAreMarked'
         /\ StaleOnlyByRace' /\ SignalPending'
<1> USE DEF IInv
<1>1. AnnouncedExist' /\ StaleOnlyByRace'
  BY DEF AnnouncedExist, StaleOnlyByRace, Fetch, writers
<1>2. FillsAreMarked'
  BY DEF TypeOK, FillsAreMarked, Fetch
<1>3. GapsAreMarked'
  <2> SUFFICES ASSUME NEW c \in Browsers, ~connected'[c] \/ ~subscribed'[c]
               PROVE  gap'[c]
    BY DEF GapsAreMarked
  <2>1. ~connected[c] \/ ~subscribed[c]
    BY DEF Fetch
  <2>2. CASE c = b
    BY <2>1, <2>2, Zenon DEF TypeOK, Fetch, CutOff
  <2>3. CASE c # b
    <3>1. gap[c]
      BY <2>1 DEF GapsAreMarked
    <3> QED
      BY <2>3, <3>1, Zenon DEF TypeOK, Fetch, CutOff
  <2> QED
    BY <2>2, <2>3
<1>4. SignalPending'
  <2> SUFFICES ASSUME NEW c \in Browsers, ~gap'[c], asked'[c] < published'
               PROVE  bus'[c] > 0 \/ inbox'[c] > 0
    BY DEF SignalPending
  <2>1. c # b
    <3>1. CASE connected[b] /\ subscribed[b]
      <4>1. asked'[b] = version
        BY <3>1 DEF TypeOK, Fetch
      <4> QED
        BY <4>1 DEF TypeOK, AnnouncedExist, Fetch
    <3>2. CASE ~(connected[b] /\ subscribed[b])
      BY <3>2, Zenon DEF TypeOK, Fetch, CutOff
    <3> QED
      BY <3>1, <3>2
  <2>2. asked'[c] = asked[c] /\ bus'[c] = bus[c] /\ inbox'[c] = inbox[c]
        /\ published' = published
    BY <2>1 DEF TypeOK, Fetch, CutOff
  <2>3. ~gap[c]
    BY <2>1, Zenon DEF TypeOK, Fetch, CutOff
  <2> QED
    BY <2>2, <2>3 DEF SignalPending
<1> QED
  BY <1>1, <1>2, <1>3, <1>4

\* What a page and its socket do leaves cache and handlers explained.
LEMMA BrowserKeeps ==
  ASSUME IInv, NEW b \in Browsers,
         \/ Broadcast(b) \/ Disconnect(b) \/ Reconnect(b) \/ DropSubscription(b)
         \/ Resubscribe(b) \/ Receive(b) \/ Reload(b) \/ RequestFails(b)
  PROVE  /\ AnnouncedExist' /\ FillsAreMarked' /\ GapsAreMarked'
         /\ StaleOnlyByRace' /\ SignalPending'
<1> USE DEF IInv
<1>1. CASE Broadcast(b)
  <2>1. SignalPending'
    <3> SUFFICES ASSUME NEW c \in Browsers, ~gap'[c], asked'[c] < published'
                 PROVE  bus'[c] > 0 \/ inbox'[c] > 0
      BY DEF SignalPending
    <3>1. ~gap[c] /\ asked[c] < published
      BY <1>1 DEF Broadcast, browsers
    <3>2. CASE c # b
      BY <1>1, <3>1, <3>2 DEF TypeOK, Broadcast, SignalPending
    <3>3. CASE c = b
      <4>1. connected[b]
        BY <3>1, <3>3 DEF GapsAreMarked
      <4>2. inbox'[b] > 0
        BY <1>1, <4>1 DEF TypeOK, Broadcast
      <4> QED
        BY <3>3, <4>2
    <3> QED
      BY <3>2, <3>3
  <2> QED
    BY <1>1, <2>1 DEF Broadcast, writers, readers, AnnouncedExist, FillsAreMarked,
                      GapsAreMarked, StaleOnlyByRace
<1>2. CASE Disconnect(b) \/ DropSubscription(b)
  <2>1. /\ gap' = [gap EXCEPT ![b] = TRUE]
        /\ \A c \in Browsers \ {b} : /\ connected'[c] = connected[c]
                                     /\ subscribed'[c] = subscribed[c]
                                     /\ bus'[c] = bus[c] /\ inbox'[c] = inbox[c]
                                     /\ asked'[c] = asked[c]
    BY <1>2, Zenon DEF TypeOK, Disconnect, DropSubscription, CutOff
  <2>2. gap'[b] /\ \A c \in Browsers \ {b} : gap'[c] = gap[c]
    BY <2>1, Zenon DEF TypeOK
  <2>3. GapsAreMarked'
    BY <2>1, <2>2 DEF GapsAreMarked
  <2>4. SignalPending'
    <3>1. published' = published
      BY <1>2 DEF Disconnect, DropSubscription
    <3> QED
      BY <2>1, <2>2, <3>1 DEF SignalPending
  <2> QED
    BY <1>2, <2>3, <2>4 DEF Disconnect, DropSubscription, writers, readers, AnnouncedExist,
                            FillsAreMarked, StaleOnlyByRace
<1>3. CASE Reconnect(b) \/ Resubscribe(b)
  <2>1. GapsAreMarked'
    <3>1. \A c \in Browsers : /\ connected[c] => connected'[c]
                              /\ subscribed[c] => subscribed'[c]
      BY <1>3, Zenon DEF TypeOK, Reconnect, Resubscribe
    <3> QED
      BY <1>3, <3>1 DEF Reconnect, Resubscribe, GapsAreMarked
  <2> QED
    BY <1>3, <2>1 DEF Reconnect, Resubscribe, writers, readers, browsers, AnnouncedExist,
                      FillsAreMarked, StaleOnlyByRace, SignalPending
<1>4. CASE Receive(b) \/ Reload(b)
  <2>1. PICK h \in Handlers : Fetch(b, h)
    BY <1>4 DEF Receive, Reload
  <2>2. \A c \in Browsers \ {b} : inbox'[c] = inbox[c]
    BY <1>4 DEF TypeOK, Receive, Reload
  <2> QED
    BY <2>1, <2>2, FetchKeeps
<1>5. CASE RequestFails(b)
  BY <1>5 DEF RequestFails, writers, readers, realtime, AnnouncedExist, FillsAreMarked,
              GapsAreMarked, StaleOnlyByRace, SignalPending
<1> QED
  BY <1>1, <1>2, <1>3, <1>4, <1>5

\* A GET's read and store leave a stale entry explained.
LEMMA HandlerKeeps ==
  ASSUME IInv, NEW h \in Handlers, HandlerStep(h)
  PROVE  /\ AnnouncedExist' /\ FillsAreMarked' /\ GapsAreMarked'
         /\ StaleOnlyByRace' /\ SignalPending'
<1> USE DEF IInv
<1>1. /\ UNCHANGED <<version, writers, realtime, asked, invalidated, published>>
  BY DEF HandlerStep, GetCached, ReadBoard, SetCached, browsers
<1>2. AnnouncedExist' /\ GapsAreMarked' /\ SignalPending'
  BY <1>1 DEF writers, realtime, AnnouncedExist, GapsAreMarked, SignalPending
<1>3. ASSUME Finish(h)
      PROVE  FillsAreMarked'
  <2> SUFFICES ASSUME NEW g \in Handlers, hpc'[g] = "set", got'[g] < invalidated'
               PROVE  raced'[g]
    BY DEF FillsAreMarked
  <2>1. g # h
    BY <1>3 DEF TypeOK, Finish
  <2>2. hpc[g] = "set" /\ got'[g] = got[g] /\ raced'[g] = raced[g]
    BY <1>3, <2>1, Zenon DEF TypeOK, Finish
  <2> QED
    BY <1>1, <2>2 DEF FillsAreMarked
<1>4. CASE GetCached(h)
  <2>1. StaleOnlyByRace'
    BY <1>4 DEF GetCached, StaleOnlyByRace
  <2>2. CASE /\ hpc' = [hpc EXCEPT ![h] = "read"]
             /\ UNCHANGED <<got, raced, waiting, shown, misled>>
    BY <1>1, <1>2, <2>1, <2>2 DEF TypeOK, FillsAreMarked
  <2> QED
    BY <1>2, <1>3, <1>4, <2>1, <2>2 DEF GetCached, Answer
<1>5. CASE ReadBoard(h)
  <2>1. StaleOnlyByRace'
    BY <1>5 DEF ReadBoard, StaleOnlyByRace
  <2>2. FillsAreMarked'
    <3>1. CASE /\ hpc' = [hpc EXCEPT ![h] = "set"]
               /\ got' = [got EXCEPT ![h] = version]
               /\ UNCHANGED <<raced, waiting, shown, misled>>
      BY <1>1, <3>1 DEF TypeOK, AnnouncedExist, FillsAreMarked
    <3> QED
      BY <1>3, <1>5, <3>1 DEF ReadBoard, AnswerError
  <2> QED
    BY <1>2, <2>1, <2>2
<1>6. CASE SetCached(h)
  <2>1. StaleOnlyByRace'
    <3>1. CASE UNCHANGED cache
      BY <1>1, <3>1 DEF StaleOnlyByRace
    <3>2. CASE cache' = [v |-> got[h], ttl |-> TRUE, raced |-> raced[h]]
      <4>1. cache'.v = got[h] /\ cache'.raced = raced[h] /\ hpc[h] = "set"
        BY <1>6, <3>2, Zenon DEF SetCached
      <4>2. got[h] < invalidated => raced[h]
        BY <4>1 DEF FillsAreMarked
      <4> QED
        BY <1>1, <4>1, <4>2 DEF StaleOnlyByRace
    <3> QED
      BY <1>6, <3>1, <3>2 DEF SetCached
  <2> QED
    BY <1>2, <1>3, <1>6, <2>1 DEF SetCached, Answer
<1> QED
  BY <1>4, <1>5, <1>6 DEF HandlerStep

------------------------------------------------------------------------------
\* IInv is inductive.
THEOREM Invariance == Spec => []IInv
<1>1. Init => IInv
  BY DEF Init, IInv, TypeOK, AnnouncedExist, FillsAreMarked, GapsAreMarked,
         StaleOnlyByRace, SignalPending
<1>2. IInv /\ [Next]_vars => IInv'
  <2> SUFFICES ASSUME IInv, [Next]_vars PROVE IInv'
    OBVIOUS
  <2>1. CASE UNCHANGED vars
    BY <2>1 DEF vars, writers, readers, realtime, browsers, IInv, TypeOK, AnnouncedExist,
                FillsAreMarked, GapsAreMarked, StaleOnlyByRace, SignalPending
  <2>2. CASE Next
    <3>1. TypeOK'
      BY <2>2, NextTypes DEF IInv
    <3>2. ASSUME ExpireCached
          PROVE  /\ AnnouncedExist' /\ FillsAreMarked' /\ GapsAreMarked'
                 /\ StaleOnlyByRace' /\ SignalPending'
      BY <3>2 DEF ExpireCached, writers, readers, realtime, browsers, IInv, AnnouncedExist,
                  FillsAreMarked, GapsAreMarked, StaleOnlyByRace, SignalPending
    <3> QED
      BY <2>2, <3>1, <3>2, WriterKeeps, BrowserKeeps, HandlerKeeps DEF Next, WriterStep, IInv
  <2> QED
    BY <2>1, <2>2
<1> QED
  BY <1>1, <1>2, PTL DEF Spec

\* Buffers, boards and handlers keep their types, for any buffer and any number
\* of pages.
THEOREM TypeCorrect == Spec => []TypeOK
BY Invariance, PTL DEF IInv

\* A cached board lacks a change whose scoreChanged has dropped the cache only
\* because its fill overlapped that drop (handleScoreboard).  Of a change whose
\* Del failed, or whose server died, it says nothing.
THEOREM StaleOnlyByRaceCorrect == Spec => []StaleOnlyByRace
BY Invariance, PTL DEF IInv

\* A full client buffer never costs a page its last refetch, while its socket and
\* its server's subscription to Redis stay up (Hub.Broadcast, subscribe).
THEOREM SignalPendingCorrect == Spec => []SignalPending
BY Invariance, PTL DEF IInv

=============================================================================

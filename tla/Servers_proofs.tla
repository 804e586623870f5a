---------------------------- MODULE Servers_proofs ---------------------------
(***************************************************************************)
(* Proofs about RateLimit and Hill for any number of servers.  The         *)
(* limiter: any limit and window.  The hill: any number of registrations   *)
(* and starts of the plugin, and any length of a minute; deliveries are    *)
(* settled and payments counted by the ticks they come from.               *)
(***************************************************************************)
EXTENDS MCServers, FiniteSetTheorems, TLAPS

\* Ticks of a server that have fired and are not delivered yet.
Pending(s) == (IF due[s] THEN 1 ELSE 0) + (IF loop[s] = "listing" THEN 1 ELSE 0)

\* Each delivery of a server took a minute of its clock.
Paced(s) == (sent[s] + Pending(s)) * Minute + (Minute - timer[s]) <= clock

Post == [id : Servers \X Nat, ts : Nat, key : Nat, new : BOOLEAN]

Call == [id : Servers \X Nat, boot : Nat, ts : Nat, key : Nat, known : BOOLEAN]

\* A delivery is known by its id, and the plugin remembers none that is new.
PostsOK ==
  /\ sent \in [Servers -> Nat]
  /\ posts \subseteq Post
  /\ \A p, q \in posts : p.id = q.id => p = q
  /\ \A p \in posts : p.id \in seen => ~p.new

\* Calls and awards are for the timestamps of deliveries, and an award is credited
\* once.
AwardsOK ==
  /\ registered \in Nat
  /\ boots \in Nat
  /\ calls \subseteq Call
  /\ \A c \in calls : \E p \in posts : p.id = c.id /\ p.ts = c.ts
  /\ \A a \in awards : \E p \in posts : p.ts = a
  /\ IsFiniteSet(awards)
  /\ credited = Cardinality(awards)

HInv ==
  /\ HillTypeOK
  /\ TicksAreSettled
  /\ PostsOK
  /\ AwardsOK
  /\ \A s \in Servers : Paced(s)

------------------------------------------------------------------------------
\* The installation before its first server starts satisfies the invariant.
LEMMA InitHInv == HillInit => HInv
<1>. SUFFICES ASSUME HillInit PROVE HInv
  OBVIOUS
<1>1. HillTypeOK /\ TicksAreSettled /\ PostsOK
  BY MinuteAssumption, MaxTimeAssumption DEF HillInit, HillTypeOK, TicksAreSettled, PostsOK
<1>2. AwardsOK
  BY FS_EmptySet DEF HillInit, AwardsOK
<1>3. ASSUME NEW s \in Servers
      PROVE  Paced(s)
  <2>1. sent[s] = 0 /\ Pending(s) = 0 /\ timer[s] = Minute /\ clock = 0
    BY DEF HillInit, Pending
  <2>. QED  BY <2>1, MinuteAssumption DEF Paced
<1>. QED  BY <1>1, <1>2, <1>3 DEF HInv

\* A minute more is a product more.
LEMMA MinuteMore ==
  ASSUME NEW n \in Nat
  PROVE  /\ (n + 1) * Minute = n * Minute + Minute
         /\ n * Minute \in Nat
BY MinuteAssumption

\* Time passes: what fires took its minute.
LEMMA AdvanceStep ==
  ASSUME HInv, Advance
  PROVE  HInv'
<1>1. /\ clock \in Nat /\ clock' = clock + 1 /\ clock' \in 0..MaxTime
      /\ timer \in [Servers -> 1..Minute] /\ due \in [Servers -> BOOLEAN]
  BY MaxTimeAssumption DEF HInv, HillTypeOK, Advance
<1>2. HillTypeOK'
  <2>1. timer' \in [Servers -> 1..Minute] /\ due' \in [Servers -> BOOLEAN]
    BY <1>1, MinuteAssumption DEF Advance
  <2>. QED  BY <1>1, <2>1 DEF HInv, HillTypeOK, Advance, plugin
<1>3. TicksAreSettled' /\ PostsOK' /\ AwardsOK'
  BY DEF HInv, TicksAreSettled, PostsOK, AwardsOK, Advance, plugin, ledger
<1>4. ASSUME NEW s \in Servers
      PROVE  Paced(s)'
  <2>. DEFINE n == sent[s] + Pending(s)
              m == sent'[s] + Pending(s)'
  <2>1. sent[s] \in Nat /\ sent'[s] = sent[s] /\ loop'[s] = loop[s]
    BY DEF HInv, PostsOK, Advance
  <2>2. n \in Nat /\ n * Minute + (Minute - timer[s]) <= clock
    BY <2>1 DEF HInv, Paced, Pending
  <2>3. timer[s] \in 1..Minute /\ due[s] \in BOOLEAN
    BY <1>1
  <2>4. CASE loop[s] # "down" /\ timer[s] = 1
    <3>1. timer'[s] = Minute /\ due'[s] /\ (m = n \/ m = n + 1)
      <4>1. timer'[s] = Minute
        BY <2>4 DEF Advance
      <4>2. due'[s]
        BY <2>4, Zenon DEF Advance
      <4>3. Pending(s) \in 0..2 /\ (Pending(s)' = Pending(s) \/ Pending(s)' = Pending(s) + 1)
        BY <2>1, <2>4, <4>2 DEF Pending
      <4>. QED  BY <2>1, <4>1, <4>2, <4>3
    <3>. HIDE DEF n, m
    <3>2. m * Minute <= n * Minute + Minute
      <4>1. /\ (n + 1) * Minute = n * Minute + Minute
            /\ n * Minute \in Nat
        BY <2>2, MinuteMore
      <4>2. m * Minute = n * Minute \/ m * Minute = (n + 1) * Minute
        BY <3>1, Zenon
      <4>. HIDE <3>1
      <4>. DEFINE x == n * Minute  y == m * Minute  z == (n + 1) * Minute
      <4>3. x \in Nat /\ z = x + Minute /\ (y = x \/ y = z)
        BY <4>1, <4>2
      <4>. HIDE DEF x, y, z
      <4>4. y <= x + Minute
        BY <4>3, MinuteAssumption
      <4>. QED  BY <4>4 DEF x, y
    <3>3. m \in Nat /\ m * Minute \in Nat /\ n * Minute \in Nat
      BY <2>2, <3>1, MinuteMore
    <3>4. m * Minute + (Minute - timer'[s]) <= clock'
      BY <1>1, <2>2, <2>4, <3>1, <3>2, <3>3, MinuteAssumption
    <3>. QED  BY <3>4 DEF Paced, m
  <2>5. CASE ~(loop[s] # "down" /\ timer[s] = 1)
    <3>1. /\ m = n
          /\ timer'[s] = timer[s] - 1 \/ timer'[s] = Minute
      BY <2>1, <2>3, <2>5, <1>1 DEF Advance, Pending
    <3>. HIDE DEF n, m
    <3>2. m \in Nat /\ m * Minute \in Nat /\ n * Minute \in Nat /\ m * Minute = n * Minute
      BY <2>2, <3>1, MinuteMore
    <3>3. m * Minute + (Minute - timer'[s]) <= clock'
      BY <1>1, <2>2, <2>3, <3>1, <3>2, MinuteAssumption
    <3>. QED  BY <3>3 DEF Paced, m
  <2>. QED  BY <2>4, <2>5
<1>. QED  BY <1>2, <1>3, <1>4 DEF HInv

\* A step that leaves the servers alone leaves their pace alone.
LEMMA PacedKept ==
  ASSUME HInv, UNCHANGED <<clock, core>>
  PROVE  \A s \in Servers : Paced(s)'
BY DEF HInv, Paced, Pending, core

\* A server starts, stops, takes a tick or drops one: no delivery is touched.
LEMMA ServerStep ==
  ASSUME HInv, NEW s \in Servers,
         StartServer(s) \/ StopServer(s) \/ TakeTick(s) \/ ListPluginsFails(s)
  PROVE  HInv'
<1>1. UNCHANGED <<clock, sent, registered, plugin, posts, calls, ledger, missed>>
  BY DEF StartServer, StopServer, TakeTick, ListPluginsFails
<1>2. /\ timer' \in [Servers -> 1..Minute]
      /\ due' \in [Servers -> BOOLEAN]
      /\ loop' \in [Servers -> {"down", "waiting", "listing"}]
  <2>1. /\ timer \in [Servers -> 1..Minute] /\ due \in [Servers -> BOOLEAN]
        /\ loop \in [Servers -> {"down", "waiting", "listing"}] /\ Minute \in 1..Minute
    BY MinuteAssumption DEF HInv, HillTypeOK
  <2>2. CASE StartServer(s)
    BY <2>1, <2>2 DEF StartServer
  <2>3. CASE StopServer(s)
    BY <2>1, <2>3 DEF StopServer
  <2>4. CASE TakeTick(s)
    BY <2>1, <2>4 DEF TakeTick
  <2>5. CASE ListPluginsFails(s)
    BY <2>1, <2>5 DEF ListPluginsFails
  <2>. QED  BY <2>2, <2>3, <2>4, <2>5
<1>3. HillTypeOK' /\ TicksAreSettled' /\ PostsOK' /\ AwardsOK'
  <2>1. HillTypeOK'
    BY <1>1, <1>2 DEF HInv, HillTypeOK, plugin
  <2>2. TicksAreSettled' /\ AwardsOK'
    BY <1>1 DEF HInv, TicksAreSettled, AwardsOK, plugin, ledger
  <2>3. PostsOK'
    BY <1>1 DEF HInv, PostsOK, plugin
  <2>. QED  BY <2>1, <2>2, <2>3
<1>4. ASSUME NEW q \in Servers
      PROVE  Paced(q)'
  <2>. DEFINE n == sent[q] + Pending(q)
              m == sent'[q] + Pending(q)'
  <2>1. /\ sent[q] \in Nat /\ sent'[q] = sent[q]
        /\ due[q] \in BOOLEAN /\ timer[q] \in 1..Minute /\ clock \in Nat
    BY <1>1, MaxTimeAssumption DEF HInv, PostsOK, HillTypeOK
  <2>2. n \in Nat /\ n * Minute + (Minute - timer[q]) <= clock
    BY <2>1 DEF HInv, Paced, Pending
  <2>3. /\ m \in Nat
        /\ m = n \/ m + 1 = n \/ m + 2 = n
        /\ timer'[q] = timer[q] \/ timer'[q] = Minute
    <3>1. /\ Pending(q) \in 0..2 /\ timer \in [Servers -> 1..Minute]
          /\ due \in [Servers -> BOOLEAN] /\ loop \in [Servers -> {"down", "waiting", "listing"}]
      BY <2>1 DEF Pending, HInv, HillTypeOK
    <3>2. CASE StartServer(s)
      BY <2>1, <3>1, <3>2 DEF StartServer, Pending
    <3>3. CASE StopServer(s)
      BY <2>1, <3>1, <3>3 DEF StopServer, Pending
    <3>4. CASE TakeTick(s)
      BY <2>1, <3>1, <3>4 DEF TakeTick, Pending
    <3>5. CASE ListPluginsFails(s)
      BY <2>1, <3>1, <3>5 DEF ListPluginsFails, Pending
    <3>. QED  BY <3>2, <3>3, <3>4, <3>5
  <2>. HIDE DEF n, m
  <2>4. m * Minute \in Nat /\ n * Minute \in Nat /\ m * Minute <= n * Minute
    <3>1. m * Minute \in Nat /\ n * Minute \in Nat
      BY <2>2, <2>3, MinuteMore
    <3>2. /\ (m + 1) * Minute = m * Minute + Minute
          /\ ((m + 1) + 1) * Minute = (m + 1) * Minute + Minute
      BY <2>3, MinuteMore
    <3>3. n = m \/ n = m + 1 \/ n = (m + 1) + 1
      BY <2>2, <2>3
    <3>. QED  BY <3>1, <3>2, <3>3, MinuteAssumption
  <2>5. m * Minute + (Minute - timer'[q]) <= clock'
    BY <1>1, <2>1, <2>2, <2>3, <2>4, MinuteAssumption
  <2>. QED  BY <2>5 DEF Paced, m
<1>. QED  BY <1>3, <1>4 DEF HInv

\* A tick is delivered, once, under an id that is new.
LEMMA DeliverWebhookStep ==
  ASSUME HInv, NEW s \in Servers, DeliverWebhook(s)
  PROVE  HInv'
<1>1. /\ loop[s] = "listing" /\ loop' = [loop EXCEPT ![s] = "waiting"]
      /\ UNCHANGED <<clock, timer, due, registered, plugin, calls, ledger, missed>>
  BY DEF DeliverWebhook
<1>2. CASE registered = 0
  <2>1. ListPluginsFails(s)
    BY <1>1, <1>2 DEF DeliverWebhook, ListPluginsFails
  <2>. QED  BY <2>1, ServerStep
<1>3. CASE registered # 0
  <2>. DEFINE new == [id |-> <<s, sent[s]>>, ts |-> clock, key |-> registered, new |-> TRUE]
  <2>1. /\ sent' = [sent EXCEPT ![s] = @ + 1]
        /\ posts' = posts \cup {new}
    BY <1>3 DEF DeliverWebhook
  <2>2. sent \in [Servers -> Nat] /\ registered \in Nat
    BY DEF HInv, PostsOK, AwardsOK
  <2>3. /\ new.id = <<s, sent[s]>> /\ new.id[1] = s /\ new.id[2] = sent[s]
        /\ new.ts = clock /\ new.key = registered /\ new.new
        /\ new \in Post
    BY <2>2, MaxTimeAssumption DEF Post, HInv, HillTypeOK
  <2>. HIDE DEF new
  <2>4. \A p \in posts : p.id \in Servers \X Nat /\ p.id[2] < sent[p.id[1]] /\ p.id # new.id
    BY <2>2, <2>3 DEF HInv, HillTypeOK, PostsOK, Post
  <2>5. new.id \notin seen
    BY <2>4 DEF HInv, HillTypeOK
  <2>6. HillTypeOK'
    <3>1. \A p \in posts' : p.key \in 1..registered' /\ p.id[2] < sent'[p.id[1]]
      BY <1>1, <1>3, <2>1, <2>2, <2>3, <2>4 DEF HInv, HillTypeOK
    <3>2. loop' \in [Servers -> {"down", "waiting", "listing"}]
      BY <1>1 DEF HInv, HillTypeOK
    <3>3. {p.id : p \in posts} \subseteq {p.id : p \in posts'}
      BY <2>1
    <3>4. /\ clock' \in 0..MaxTime /\ timer' \in [Servers -> 1..Minute]
          /\ due' \in [Servers -> BOOLEAN] /\ conf' \in 0..registered'
          /\ \A c \in calls' : c.key \in 1..registered' /\ c.boot <= boots'
          /\ seen' \cup {c.id : c \in calls'} \subseteq {p.id : p \in posts}
      BY <1>1 DEF HInv, HillTypeOK, plugin
    <3>. QED  BY <3>1, <3>2, <3>3, <3>4 DEF HillTypeOK
  <2>7. TicksAreSettled'
    BY <1>1, <2>1, <2>3 DEF HInv, TicksAreSettled, ledger
  <2>8. PostsOK'
    <3>1. sent' \in [Servers -> Nat]
      BY <2>1, <2>2
    <3>2. posts' \subseteq Post
      BY <2>1, <2>3 DEF HInv, PostsOK
    <3>3. \A p, q \in posts' : p.id = q.id => p = q
      BY <2>1, <2>4 DEF HInv, PostsOK
    <3>4. \A p \in posts' : p.id \in seen' => ~p.new
      BY <1>1, <2>1, <2>5 DEF HInv, PostsOK, plugin
    <3>. QED  BY <3>1, <3>2, <3>3, <3>4 DEF PostsOK
  <2>9. AwardsOK'
    BY <1>1, <2>1 DEF HInv, AwardsOK, plugin, ledger
  <2>10. ASSUME NEW q \in Servers
         PROVE  Paced(q)'
    <3>1. due[q] \in BOOLEAN /\ loop \in [Servers -> {"down", "waiting", "listing"}]
      BY DEF HInv, HillTypeOK
    <3>2. sent'[q] + Pending(q)' = sent[q] + Pending(q)
      BY <1>1, <2>1, <2>2, <3>1 DEF Pending
    <3>. QED  BY <1>1, <3>2 DEF HInv, Paced
  <2>. QED  BY <2>6, <2>7, <2>8, <2>9, <2>10 DEF HInv
<1>. QED  BY <1>2, <1>3

\* The plugin's registration, start and stop touch no delivery; a plugin that
\* stops forgets.
LEMMA PluginStep ==
  ASSUME HInv,
         \/ RegisterPlugin
         \/ \E k \in 1..registered : StartPlugin(k)
         \/ StopPlugin
  PROVE  HInv'
<1>1. /\ UNCHANGED <<clock, core, posts, calls, ledger, missed>>
      /\ seen' \subseteq seen
      /\ registered \in Nat /\ registered' \in Nat /\ registered <= registered'
      /\ boots \in Nat /\ boots' \in Nat /\ boots <= boots'
      /\ conf' \in 0..registered'
  BY DEF HInv, HillTypeOK, AwardsOK, RegisterPlugin, StartPlugin, StopPlugin, plugin
<1>2. \A s \in Servers : Paced(s)'
  BY <1>1, PacedKept
<1>3. HillTypeOK'
  <2>1. \A p \in posts' : p.key \in 1..registered' /\ p.id[2] < sent'[p.id[1]]
    BY <1>1 DEF HInv, HillTypeOK, core
  <2>2. \A c \in calls' : c.key \in 1..registered' /\ c.boot <= boots'
    BY <1>1 DEF HInv, HillTypeOK, AwardsOK, Call
  <2>. QED  BY <1>1, <2>1, <2>2 DEF HInv, HillTypeOK, core
<1>4. TicksAreSettled' /\ PostsOK' /\ AwardsOK'
  BY <1>1 DEF HInv, TicksAreSettled, PostsOK, AwardsOK, core, ledger
<1>. QED  BY <1>2, <1>3, <1>4 DEF HInv

\* A delivery that is handed over stays what it is, and is not new any more.
LEMMA HandedKeeps ==
  ASSUME HInv, NEW p \in posts, Handed(p), seen' = seen \/ seen' = seen \cup {p.id},
         UNCHANGED sent
  PROVE  /\ PostsOK'
         /\ \A q \in posts : \E r \in posts' : r.id = q.id /\ r.ts = q.ts
         /\ \A r \in posts' : /\ \E q \in posts : r.id = q.id /\ r.ts = q.ts /\ r.key = q.key
                              /\ r \in posts \/ (r.ts = p.ts /\ ~r.new)
         /\ {q.id : q \in posts} \subseteq {r.id : r \in posts'}
<1>. DEFINE old == [p EXCEPT !.new = FALSE]
<1>1. posts \subseteq Post /\ p \in Post
  BY DEF HInv, PostsOK
<1>2. /\ old \in Post
      /\ old.id = p.id /\ old.ts = p.ts /\ old.key = p.key /\ ~old.new
  BY <1>1 DEF Post
<1>3. posts' = (posts \ {p}) \cup {old}
  BY DEF Handed
<1>. HIDE DEF old
<1>4. \A q \in posts : \E r \in posts' : r.id = q.id /\ r.ts = q.ts
  BY <1>2, <1>3
<1>5. \A r \in posts' : /\ \E q \in posts : r.id = q.id /\ r.ts = q.ts /\ r.key = q.key
                        /\ r \in posts \/ (r.ts = p.ts /\ ~r.new)
  BY <1>2, <1>3
<1>6. {q.id : q \in posts} \subseteq {r.id : r \in posts'}
  BY <1>4
<1>7. PostsOK'
  <2>1. \A q, r \in posts' : q.id = r.id => q = r
    BY <1>2, <1>3 DEF HInv, PostsOK
  <2>2. \A q \in posts' : q.id \in seen' => ~q.new
    BY <1>2, <1>3 DEF HInv, PostsOK
  <2>. QED  BY <1>1, <1>2, <1>3, <2>1, <2>2 DEF HInv, PostsOK
<1>. QED  BY <1>4, <1>5, <1>6, <1>7

\* hooks starts one call for a delivery that is new to it.
LEMMA HookStep ==
  ASSUME HInv, NEW p \in posts, Hook(p)
  PROVE  HInv'
<1>. DEFINE new == [id |-> p.id, boot |-> boots, ts |-> p.ts, key |-> conf, known |-> FALSE]
<1>1. /\ Handed(p) /\ conf = p.key
      /\ seen' = seen \cup {p.id} /\ calls' = calls \cup {new}
      /\ UNCHANGED <<clock, core, registered, boots, conf, ledger, missed>>
  BY DEF Hook
<1>2. p \in Post /\ boots \in Nat
  BY DEF HInv, PostsOK, AwardsOK
<1>3. new \in Call /\ new.id = p.id /\ new.ts = p.ts /\ new.key = p.key /\ new.boot = boots
  BY <1>1, <1>2 DEF Post, Call
<1>. HIDE DEF new
<1>4. /\ PostsOK'
      /\ \A q \in posts : \E r \in posts' : r.id = q.id /\ r.ts = q.ts
      /\ \A r \in posts' : /\ \E q \in posts : r.id = q.id /\ r.ts = q.ts /\ r.key = q.key
                           /\ r \in posts \/ (r.ts = p.ts /\ ~r.new)
      /\ {q.id : q \in posts} \subseteq {r.id : r \in posts'}
  BY <1>1, HandedKeeps DEF core
<1>5. HillTypeOK'
  <2>1. \A r \in posts' : r.key \in 1..registered' /\ r.id[2] < sent'[r.id[1]]
    BY <1>1, <1>4 DEF HInv, HillTypeOK, core
  <2>2. \A c \in calls' : c.key \in 1..registered' /\ c.boot <= boots'
    BY <1>1, <1>2, <1>3 DEF HInv, HillTypeOK
  <2>3. seen' \cup {c.id : c \in calls'} \subseteq {q.id : q \in posts}
    BY <1>1, <1>3 DEF HInv, HillTypeOK
  <2>4. /\ clock' \in 0..MaxTime /\ timer' \in [Servers -> 1..Minute]
        /\ due' \in [Servers -> BOOLEAN] /\ conf' \in 0..registered'
        /\ loop' \in [Servers -> {"down", "waiting", "listing"}]
    BY <1>1 DEF HInv, HillTypeOK, core
  <2>. QED  BY <1>4, <2>1, <2>2, <2>3, <2>4 DEF HillTypeOK
<1>6. TicksAreSettled'
  <2>1. \A r \in posts' : r \in posts \/ r.ts = new.ts
    BY <1>3, <1>4
  <2>. QED  BY <1>1, <2>1 DEF HInv, TicksAreSettled, ledger
<1>7. AwardsOK'
  <2>1. \A c \in calls' : \E r \in posts' : r.id = c.id /\ r.ts = c.ts
    BY <1>1, <1>3, <1>4 DEF HInv, AwardsOK
  <2>2. \A a \in awards' : \E r \in posts' : r.ts = a
    BY <1>1, <1>4 DEF HInv, AwardsOK, ledger
  <2>. QED  BY <1>1, <1>3, <2>1, <2>2 DEF HInv, AwardsOK, ledger
<1>8. \A s \in Servers : Paced(s)'
  BY <1>1, PacedKept
<1>. QED  BY <1>4, <1>5, <1>6, <1>7, <1>8 DEF HInv

\* A delivery that is not acted on: a duplicate, which was not new, or a failure,
\* which is put down.
LEMMA HookEndsStep ==
  ASSUME HInv, NEW p \in posts, HookDuplicate(p) \/ HookFails(p)
  PROVE  HInv'
<1>1. /\ Handed(p) /\ (~p.new \/ p.ts \in missed') /\ missed \subseteq missed'
      /\ UNCHANGED <<clock, core, registered, plugin, calls, ledger>>
  BY DEF HookDuplicate, HookFails, HInv, PostsOK
<1>2. /\ PostsOK'
      /\ \A q \in posts : \E r \in posts' : r.id = q.id /\ r.ts = q.ts
      /\ \A r \in posts' : /\ \E q \in posts : r.id = q.id /\ r.ts = q.ts /\ r.key = q.key
                           /\ r \in posts \/ (r.ts = p.ts /\ ~r.new)
      /\ {q.id : q \in posts} \subseteq {r.id : r \in posts'}
  BY <1>1, HandedKeeps DEF core, plugin
<1>3. HillTypeOK'
  <2>1. \A r \in posts' : r.key \in 1..registered' /\ r.id[2] < sent'[r.id[1]]
    BY <1>1, <1>2 DEF HInv, HillTypeOK, core
  <2>2. /\ clock' \in 0..MaxTime /\ timer' \in [Servers -> 1..Minute]
        /\ due' \in [Servers -> BOOLEAN] /\ conf' \in 0..registered'
        /\ loop' \in [Servers -> {"down", "waiting", "listing"}]
        /\ \A c \in calls' : c.key \in 1..registered' /\ c.boot <= boots'
        /\ seen' \cup {c.id : c \in calls'} \subseteq {q.id : q \in posts}
    BY <1>1 DEF HInv, HillTypeOK, core, plugin
  <2>. QED  BY <1>2, <2>1, <2>2 DEF HillTypeOK
<1>4. TicksAreSettled'
  <2>1. ASSUME NEW r \in posts'
        PROVE  \/ r.ts \in awards' \cup missed'
               \/ r.new \/ \E c \in calls' : c.ts = r.ts
    <3>1. CASE r \in posts
      BY <1>1, <3>1 DEF HInv, TicksAreSettled, ledger
    <3>2. CASE r.ts = p.ts
      BY <1>1, <3>2 DEF HInv, TicksAreSettled, ledger
    <3>. QED  BY <1>2, <3>1, <3>2
  <2>. QED  BY <2>1 DEF TicksAreSettled
<1>5. AwardsOK'
  <2>1. \A c \in calls' : \E r \in posts' : r.id = c.id /\ r.ts = c.ts
    BY <1>1, <1>2 DEF HInv, AwardsOK
  <2>2. \A a \in awards' : \E r \in posts' : r.ts = a
    BY <1>1, <1>2 DEF HInv, AwardsOK, ledger
  <2>. QED  BY <1>1, <2>1, <2>2 DEF HInv, AwardsOK, ledger, plugin
<1>6. \A s \in Servers : Paced(s)'
  BY <1>1, PacedKept
<1>. QED  BY <1>2, <1>3, <1>4, <1>5, <1>6 DEF HInv

\* A call is known to be the plugin's, and stays the call it is.
LEMMA AuthenticateStep ==
  ASSUME HInv, NEW c \in calls, Authenticate(c)
  PROVE  HInv'
<1>. DEFINE new == [c EXCEPT !.known = TRUE]
<1>1. /\ calls' = (calls \ {c}) \cup {new}
      /\ UNCHANGED <<clock, core, registered, plugin, posts, ledger, missed>>
  BY DEF Authenticate
<1>2. c \in Call
  BY DEF HInv, AwardsOK
<1>3. /\ new \in Call
      /\ new.id = c.id /\ new.ts = c.ts /\ new.key = c.key /\ new.boot = c.boot
  BY <1>2 DEF Call
<1>. HIDE DEF new
<1>4. {d.id : d \in calls'} \subseteq {d.id : d \in calls}
  BY <1>1, <1>3
<1>5. \A d \in calls' : d.key \in 1..registered' /\ d.boot <= boots'
  BY <1>1, <1>3 DEF HInv, HillTypeOK, plugin
<1>6. HillTypeOK'
  BY <1>1, <1>4, <1>5 DEF HInv, HillTypeOK, core, plugin
<1>7. TicksAreSettled'
  BY <1>1, <1>3 DEF HInv, TicksAreSettled, ledger
<1>8. PostsOK'
  BY <1>1 DEF HInv, PostsOK, core, plugin
<1>9. AwardsOK'
  BY <1>1, <1>3 DEF HInv, AwardsOK, ledger, plugin
<1>10. \A s \in Servers : Paced(s)'
  BY <1>1, PacedKept
<1>. QED  BY <1>6, <1>7, <1>8, <1>9, <1>10 DEF HInv

\* The call ends in an award, new or old, or in a failure that is put down.
LEMMA CallEndsStep ==
  ASSUME HInv, NEW c \in calls, PluginAward(c) \/ CallFails(c)
  PROVE  HInv'
<1>1. /\ calls' = calls \ {c}
      /\ UNCHANGED <<clock, core, registered, plugin, posts>>
      /\ c.ts \in awards' \cup missed'
      /\ awards \subseteq awards' /\ missed \subseteq missed'
      /\ awards' \subseteq awards \cup {c.ts}
  BY DEF PluginAward, CallFails, RefId, ledger
<1>2. HillTypeOK'
  BY <1>1 DEF HInv, HillTypeOK, core, plugin
<1>3. TicksAreSettled'
  BY <1>1 DEF HInv, TicksAreSettled
<1>4. PostsOK'
  BY <1>1 DEF HInv, PostsOK, core, plugin
<1>5. IsFiniteSet(awards') /\ credited' = Cardinality(awards')
  <2>1. IsFiniteSet(awards) /\ credited = Cardinality(awards)
    BY DEF HInv, AwardsOK
  <2>2. CASE PluginAward(c)
    BY <2>1, <2>2, FS_AddElement DEF PluginAward, RefId
  <2>3. CASE CallFails(c)
    BY <2>1, <2>3 DEF CallFails, ledger
  <2>. QED  BY <2>2, <2>3
<1>6. AwardsOK'
  BY <1>1, <1>5 DEF HInv, AwardsOK, plugin
<1>7. \A s \in Servers : Paced(s)'
  BY <1>1, PacedKept
<1>. QED  BY <1>2, <1>3, <1>4, <1>6, <1>7 DEF HInv

\* Every step keeps the invariant.
LEMMA NextHInv == HInv /\ [HillNext]_hillVars => HInv'
<1>. SUFFICES ASSUME HInv, [HillNext]_hillVars PROVE HInv'
  OBVIOUS
<1>1. CASE UNCHANGED hillVars
  <2>1. UNCHANGED <<clock, core, registered, plugin, posts, calls, ledger, missed>>
    BY <1>1 DEF hillVars
  <2>2. HillTypeOK'
    BY <2>1 DEF HInv, HillTypeOK, core, plugin
  <2>3. TicksAreSettled' /\ PostsOK' /\ AwardsOK'
    BY <2>1 DEF HInv, TicksAreSettled, PostsOK, AwardsOK, core, plugin, ledger
  <2>. QED  BY <2>1, <2>2, <2>3, PacedKept DEF HInv
<1>2. CASE Advance
  BY <1>2, AdvanceStep
<1>3. ASSUME NEW s \in Servers,
             StartServer(s) \/ StopServer(s) \/ TakeTick(s) \/ ListPluginsFails(s)
      PROVE  HInv'
  BY <1>3, ServerStep
<1>4. ASSUME NEW s \in Servers, DeliverWebhook(s)
      PROVE  HInv'
  BY <1>4, DeliverWebhookStep
<1>5. CASE RegisterPlugin \/ (\E k \in 1..registered : StartPlugin(k)) \/ StopPlugin
  BY <1>5, PluginStep
<1>6. ASSUME NEW p \in posts, Hook(p) \/ HookDuplicate(p) \/ HookFails(p)
      PROVE  HInv'
  BY <1>6, HookStep, HookEndsStep
<1>7. ASSUME NEW c \in calls, Authenticate(c) \/ PluginAward(c) \/ CallFails(c)
      PROVE  HInv'
  BY <1>7, AuthenticateStep, CallEndsStep
<1>. QED  BY <1>1, <1>2, <1>3, <1>4, <1>5, <1>6, <1>7 DEF HillNext

------------------------------------------------------------------------------
\* A server that needs a minute for each of n ticks has fired no more than the
\* clock has minutes.
LEMMA TicksOfClock ==
  ASSUME NEW n \in Nat, NEW t \in Nat, n * Minute <= t
  PROVE  n <= t \div Minute /\ t \div Minute \in Nat
<1>. DEFINE q == t \div Minute
            rest == t % Minute
<1>1. q \in Nat /\ rest \in 0..(Minute - 1) /\ t = q * Minute + rest
  BY MinuteAssumption
<1>. HIDE DEF q, rest
<1>2. ASSUME n > q
      PROVE  FALSE
  <2>1. (q + 1) * Minute = q * Minute + Minute
    BY <1>1, MinuteMore
  <2>2. (q + 1) * Minute <= n * Minute
    BY <1>1, <1>2, MinuteAssumption
  <2>3. q * Minute \in Nat /\ n * Minute \in Nat /\ (q + 1) * Minute \in Nat
    BY <1>1, MinuteMore
  <2>. QED  BY <1>1, <2>1, <2>2, <2>3, MinuteAssumption
<1>. QED  BY <1>1, <1>2 DEF q

\* Different awards are for deliveries of different ids, and a server has as many
\* ids as its clock has minutes.
LEMMA AwardsCounted == HInv => AwardsWithinTicks
<1>. SUFFICES ASSUME HInv PROVE AwardsWithinTicks
  OBVIOUS
<1>. DEFINE N == clock \div Minute
            Ids == Servers \X (0..(N - 1))
            f == [a \in awards |-> (CHOOSE p \in posts : p.ts = a).id]
<1>1. clock \in Nat
  BY MaxTimeAssumption DEF HInv, HillTypeOK
<1>2. N \in Nat
  <2>1. 0 * Minute <= clock
    BY <1>1, MinuteAssumption
  <2>. QED  BY <1>1, <2>1, TicksOfClock
<1>3. ASSUME NEW s \in Servers
      PROVE  sent[s] \in Nat /\ sent[s] <= N
  <2>. DEFINE n == sent[s] + Pending(s)
  <2>1. /\ sent[s] \in Nat /\ Pending(s) \in Nat
        /\ timer[s] \in 1..Minute
    BY DEF HInv, PostsOK, HillTypeOK, Pending
  <2>2. n * Minute + (Minute - timer[s]) <= clock
    BY DEF HInv, Paced
  <2>3. n \in Nat /\ n * Minute \in Nat
    BY <2>1, MinuteMore
  <2>. HIDE DEF n
  <2>4. n * Minute <= clock
    BY <1>1, <2>1, <2>2, <2>3, MinuteAssumption
  <2>5. n <= N
    BY <1>1, <2>3, <2>4, TicksOfClock
  <2>. QED  BY <1>2, <2>1, <2>3, <2>5 DEF n
<1>. HIDE DEF N
<1>4. \A p \in posts : p.id \in Ids
  <2>1. ASSUME NEW p \in posts
        PROVE  p.id \in Ids
    <3>1. p.id \in Servers \X Nat /\ p.id[2] < sent[p.id[1]]
      BY DEF HInv, PostsOK, HillTypeOK, Post
    <3>. QED  BY <1>2, <1>3, <3>1
  <2>. QED  BY <2>1
<1>5. \A a \in awards : \E p \in posts : p.ts = a /\ f[a] = p.id
  BY DEF HInv, AwardsOK
<1>6. f \in Injection(awards, Ids)
  <2>1. f \in [awards -> Ids]
    BY <1>4, <1>5
  <2>2. \A a, b \in awards : f[a] = f[b] => a = b
    BY <1>5 DEF HInv, PostsOK
  <2>. HIDE DEF f
  <2>. QED  BY <2>1, <2>2 DEF Injection, IsInjective
<1>7. /\ IsFiniteSet(Ids)
      /\ Cardinality(Ids) = Cardinality(Servers) * Cardinality(0..(N - 1))
  <2>1. IsFiniteSet(0..(N - 1))
    BY <1>2, FS_Interval
  <2>. QED  BY <2>1, ServersAssumption, FS_Product
<1>8. Cardinality(0..(N - 1)) = N
  BY <1>2, FS_Interval
<1>9. Cardinality(awards) <= Cardinality(Ids)
  BY <1>6, <1>7, FS_Injection
<1>. QED  BY <1>7, <1>8, <1>9 DEF AwardsWithinTicks, ServerCount, HInv, AwardsOK, N

\* Every behaviour satisfies the inductive invariant.
THEOREM HillInvariance == HillSpec => []HInv
  BY InitHInv, NextHInv, PTL DEF HillSpec

\* Keys, ids, memory and calls agree, for any number of servers (deliverWebhook,
\* hooks).
THEOREM HillTypeCorrect == HillSpec => []HillTypeOK
  BY HillInvariance, PTL DEF HInv

\* A tick that was delivered is awarded, on its way, or hit by a failure (hooks,
\* awardTick).
THEOREM TicksSettled == HillSpec => []TicksAreSettled
  BY HillInvariance, PTL DEF HInv

\* However many servers tick and whatever is handed over again, the holder is paid
\* at most once for each tick (handlePluginAward's reference).
THEOREM AwardsBounded == HillSpec => []AwardsWithinTicks
  BY HillInvariance, AwardsCounted, PTL

------------------------------------------------------------------------------
(***************************************************************************)
(* RateLimit.  A server's hits of the last Window ticks are those of its   *)
(* bucket and those it had admitted before it opened the bucket.           *)
(***************************************************************************)
Hit == [server : Servers, age : 0..Window - 1, turn : Nat \ {0}]

SinceOpen(s)  == {h \in Admitted(s) : h.age <= Window - bucket[s].left}
BeforeOpen(s) == {h \in Admitted(s) : h.age > Window - bucket[s].left}

\* The bucket counts the first, one bucket's worth is left of the others, and once
\* its time is over the last hit of a bucket is no longer of this tick.
Bucketed(s) ==
  /\ bucket[s] = NoBucket => Admitted(s) = {}
  /\ bucket[s] # NoBucket =>
       /\ Cardinality(SinceOpen(s)) <= bucket[s].count
       /\ Cardinality(BeforeOpen(s)) <= Largest
       /\ bucket[s].left < 0 => Now(s) = {}

RInv ==
  /\ TypeOK
  /\ IsFiniteSet(recent)
  /\ \A s \in Servers : Bucketed(s)

\* The bound of a bucket, and what a bucket is.
LEMMA LargestFacts ==
  /\ Largest \in Nat /\ Largest >= 1 /\ Largest >= Limit
  /\ Window \in Nat /\ Window >= 1
BY LimitAssumption DEF Largest

LEMMA BucketFacts ==
  ASSUME TypeOK, NEW s \in Servers
  PROVE  \/ bucket[s] = NoBucket
         \/ /\ bucket[s] # NoBucket
            /\ bucket[s] \in [count : 1..Largest, left : -1..Window]
            /\ bucket[s].count \in 1..Largest
            /\ bucket[s].left \in -1..Window
<1>1. [count : 1..Largest, left : -1..Window] \subseteq [count : Nat, left : Int]
  BY LargestFacts
<1>. QED  BY <1>1, BucketAssumption DEF TypeOK

\* Any part of the hits is finite, and its size a number.
LEMMA PartsFinite ==
  ASSUME IsFiniteSet(recent), NEW S \in SUBSET recent
  PROVE  IsFiniteSet(S) /\ Cardinality(S) \in Nat
BY FS_Subset, FS_CardinalityType

\* No limiter has admitted anything yet.
LEMMA InitRInv == Init => RInv
<1>. SUFFICES ASSUME Init PROVE RInv
  OBVIOUS
<1>1. TypeOK
  BY DEF Init, TypeOK
<1>2. IsFiniteSet(recent)
  BY FS_EmptySet DEF Init
<1>3. \A s \in Servers : Bucketed(s)
  BY DEF Init, Bucketed, Admitted
<1>. QED  BY <1>1, <1>2, <1>3 DEF RInv

\* A server that admits a hit leaves the others' hits alone.
LEMMA AdmitFacts ==
  ASSUME RInv, NEW s \in Servers, Admit(s)
  PROVE  /\ recent' \subseteq Hit
         /\ IsFiniteSet(recent')
         /\ answer' \in [Servers -> BOOLEAN]
         /\ \A q \in Servers \ {s} : Admitted(q)' = Admitted(q)
         /\ \E h \in Hit : h.age = 0 /\ Admitted(s)' = Admitted(s) \cup {h}
<1>. DEFINE h == [server |-> s, age |-> 0, turn |-> Cardinality(Now(s)) + 1]
<1>1. h \in Hit
  <2>1. Now(s) \subseteq recent
    BY DEF Now, Admitted
  <2>2. Cardinality(Now(s)) \in Nat
    BY <2>1, PartsFinite DEF RInv
  <2>. QED  BY <2>2, LargestFacts DEF Hit
<1>2. h.server = s /\ h.age = 0 /\ recent' = recent \cup {h}
  BY DEF Admit
<1>. HIDE DEF h
<1>3. recent' \subseteq Hit /\ answer' \in [Servers -> BOOLEAN]
  BY <1>1, <1>2 DEF RInv, TypeOK, Hit, Admit
<1>4. IsFiniteSet(recent')
  BY <1>2, FS_AddElement DEF RInv
<1>5. \A q \in Servers \ {s} : Admitted(q)' = Admitted(q)
  BY <1>2 DEF Admitted
<1>6. Admitted(s)' = Admitted(s) \cup {h}
  BY <1>2 DEF Admitted
<1>. QED  BY <1>1, <1>2, <1>3, <1>4, <1>5, <1>6

\* What is known of a server that a step does not touch.
LEMMA BucketedKept ==
  ASSUME NEW s \in Servers, Bucketed(s), bucket'[s] = bucket[s], Admitted(s)' = Admitted(s)
  PROVE  Bucketed(s)'
BY DEF Bucketed, SinceOpen, BeforeOpen, Now

\* A new bucket: all that is left is of the old one, and older than this tick.
LEMMA OpenStep ==
  ASSUME RInv, NEW s \in Servers, Open(s)
  PROVE  RInv'
<1>1. Admit(s) /\ Over(s) /\ bucket' = [bucket EXCEPT ![s] = [count |-> 1, left |-> Window]]
  BY DEF Open
<1>2. bucket' \in [Servers -> [count : 1..Largest, left : -1..Window] \cup {NoBucket}]
  BY <1>1, LargestFacts DEF RInv, TypeOK
<1>3. PICK h \in Hit : h.age = 0 /\ Admitted(s)' = Admitted(s) \cup {h}
  BY <1>1, AdmitFacts
<1>4. bucket'[s] = [count |-> 1, left |-> Window] /\ bucket'[s] # NoBucket
  BY <1>1, LargestFacts, BucketAssumption DEF RInv, TypeOK
<1>5. Admitted(s) \subseteq recent /\ Admitted(s) \subseteq Hit
  BY DEF Admitted, RInv, TypeOK, Hit
<1>6. /\ \A g \in Admitted(s) : g.age > 0
      /\ Cardinality(Admitted(s)) \in Nat /\ Cardinality(Admitted(s)) <= Largest
  <2>1. CASE bucket[s] = NoBucket
    <3>1. Admitted(s) = {} /\ Cardinality({}) = 0
      BY <2>1, FS_EmptySet DEF RInv, Bucketed
    <3>. QED  BY <3>1, LargestFacts
  <2>2. CASE bucket[s] # NoBucket
    <3>1. bucket[s].left = -1 /\ bucket[s].count \in 1..Largest
      BY <1>1, <2>2, BucketFacts, LargestFacts DEF RInv, Over
    <3>2. SinceOpen(s) = Admitted(s)
      BY <1>5, <3>1, LargestFacts DEF SinceOpen, Hit
    <3>3. Cardinality(Admitted(s)) \in Nat
      BY <1>5, PartsFinite DEF RInv
    <3>4. Cardinality(Admitted(s)) <= bucket[s].count /\ Now(s) = {}
      BY <2>2, <3>1, <3>2 DEF RInv, Bucketed
    <3>. QED  BY <1>5, <3>1, <3>3, <3>4, LargestFacts DEF Now, Hit
  <2>. QED  BY <2>1, <2>2
<1>7. SinceOpen(s)' = {h} /\ BeforeOpen(s)' = Admitted(s)
  <2>1. Window - bucket'[s].left = 0
    BY <1>4, LargestFacts
  <2>. QED  BY <1>3, <1>5, <1>6, <2>1 DEF SinceOpen, BeforeOpen, Hit
<1>8. Bucketed(s)'
  <2>1. Cardinality({h}) = 1
    BY FS_Singleton
  <2>2. bucket'[s].count = 1 /\ ~(bucket'[s].left < 0)
    BY <1>4, LargestFacts
  <2>. QED  BY <1>4, <1>6, <1>7, <2>1, <2>2 DEF Bucketed, Largest
<1>9. ASSUME NEW q \in Servers \ {s} PROVE Bucketed(q)'
  <2>1. bucket'[q] = bucket[q] /\ Admitted(q)' = Admitted(q)
    BY <1>1, AdmitFacts DEF RInv, TypeOK
  <2>. QED  BY <2>1, BucketedKept DEF RInv
<1>. QED  BY <1>1, <1>2, <1>8, <1>9, AdmitFacts DEF RInv, TypeOK, Hit

\* One hit more, and one more counted.
LEMMA CountStep ==
  ASSUME RInv, NEW s \in Servers, Count(s)
  PROVE  RInv'
<1>1. /\ Admit(s) /\ ~Over(s) /\ bucket[s].count < Limit
      /\ bucket' = [bucket EXCEPT ![s].count = @ + 1]
  BY DEF Count
<1>2. /\ bucket[s] # NoBucket /\ bucket[s].left \in 0..Window
      /\ bucket[s] \in [count : 1..Largest, left : -1..Window]
  BY <1>1, BucketFacts, LargestFacts DEF RInv, Over
<1>3. bucket'[s] = [count |-> bucket[s].count + 1, left |-> bucket[s].left]
  BY <1>1, <1>2 DEF RInv, TypeOK
<1>4. bucket[s].count + 1 \in 1..Largest
  BY <1>1, <1>2, LargestFacts, LimitAssumption
<1>5. /\ bucket' \in [Servers -> [count : 1..Largest, left : -1..Window] \cup {NoBucket}]
      /\ bucket'[s] # NoBucket
  BY <1>1, <1>2, <1>3, <1>4, BucketAssumption, LargestFacts DEF RInv, TypeOK
<1>6. PICK h \in Hit : h.age = 0 /\ Admitted(s)' = Admitted(s) \cup {h}
  BY <1>1, AdmitFacts
<1>7. SinceOpen(s)' = SinceOpen(s) \cup {h} /\ BeforeOpen(s)' = BeforeOpen(s)
  BY <1>2, <1>3, <1>6, LargestFacts DEF SinceOpen, BeforeOpen
<1>8. /\ SinceOpen(s) \subseteq recent
      /\ IsFiniteSet(SinceOpen(s)) /\ Cardinality(SinceOpen(s)) \in Nat
  BY PartsFinite DEF RInv, SinceOpen, Admitted
<1>9. Cardinality(SinceOpen(s)') <= bucket'[s].count
  <2>1. Cardinality(SinceOpen(s)) <= bucket[s].count
    BY <1>2 DEF RInv, Bucketed
  <2>2. Cardinality(SinceOpen(s) \cup {h}) <= Cardinality(SinceOpen(s)) + 1
    BY <1>8, FS_AddElement
  <2>3. Cardinality(SinceOpen(s) \cup {h}) \in Nat
    BY <1>8, FS_AddElement, FS_CardinalityType
  <2>. QED  BY <1>2, <1>3, <1>7, <1>8, <2>1, <2>2, <2>3
<1>10. Bucketed(s)'
  <2>1. Cardinality(BeforeOpen(s)) <= Largest
    BY <1>2 DEF RInv, Bucketed
  <2>2. ~(bucket'[s].left < 0)
    BY <1>2, <1>3, LargestFacts
  <2>. QED  BY <1>5, <1>7, <1>9, <2>1, <2>2 DEF Bucketed, Largest
<1>11. ASSUME NEW q \in Servers \ {s} PROVE Bucketed(q)'
  <2>1. bucket'[q] = bucket[q] /\ Admitted(q)' = Admitted(q)
    BY <1>1, AdmitFacts DEF RInv, TypeOK
  <2>. QED  BY <2>1, BucketedKept DEF RInv
<1>. QED  BY <1>1, <1>5, <1>10, <1>11, AdmitFacts DEF RInv, TypeOK, Hit

\* A refused hit leaves no trace but the answer.
LEMMA RefuseStep ==
  ASSUME RInv, NEW s \in Servers, Refuse(s)
  PROVE  RInv'
<1>1. /\ UNCHANGED <<bucket, recent>>
      /\ answer' \in [Servers -> BOOLEAN]
  BY DEF Refuse, RInv, TypeOK
<1>2. \A q \in Servers : Bucketed(q)'
  BY <1>1, BucketedKept DEF RInv, Admitted
<1>. QED  BY <1>1, <1>2 DEF RInv, TypeOK

\* Hits grow older with the bucket, so each stays on its side of the opening.
LEMMA Older ==
  ASSUME RInv, Tick, NEW S \in SUBSET recent', NEW R \in SUBSET recent,
         \A h \in S : [h EXCEPT !.age = @ - 1] \in R
  PROVE  IsFiniteSet(S) /\ Cardinality(S) \in Nat /\ Cardinality(S) <= Cardinality(R)
<1>. DEFINE f == [h \in S |-> [h EXCEPT !.age = @ - 1]]
<1>1. S \subseteq [server : Servers, age : Int, turn : Nat]
  BY DEF RInv, TypeOK, Tick
<1>2. \A g, h \in S : f[g] = f[h] => g = h
  <2>1. ASSUME NEW g \in S, NEW h \in S, f[g] = f[h] PROVE g = h
    <3>1. g.server = h.server /\ g.age - 1 = h.age - 1 /\ g.turn = h.turn
      BY <1>1, <2>1
    <3>2. g.age \in Int /\ h.age \in Int
      BY <1>1
    <3>. QED  BY <1>1, <3>1, <3>2
  <2>. QED  BY <2>1
<1>3. f \in Injection(S, R)
  <2>1. f \in [S -> R]
    OBVIOUS
  <2>. HIDE DEF f
  <2>. QED  BY <1>2, <2>1 DEF Injection, IsInjective
<1>4. IsFiniteSet(R)
  BY PartsFinite DEF RInv
<1>5. IsFiniteSet(S) /\ Cardinality(S) <= Cardinality(R)
  BY <1>3, <1>4, FS_Injection
<1>. QED  BY <1>5, FS_CardinalityType

LEMMA TickStep ==
  ASSUME RInv, Tick
  PROVE  RInv'
<1>1. /\ bucket' = [s \in Servers |->
                      IF Over(s) THEN bucket[s] ELSE [bucket[s] EXCEPT !.left = @ - 1]]
      /\ answer' = answer
  BY DEF Tick
<1>2. \A h \in recent' : /\ h \in Hit /\ h.age # 0
                         /\ [h EXCEPT !.age = @ - 1] \in recent
  <2>1. ASSUME NEW g \in recent, g.age < Window - 1, NEW h, h = [g EXCEPT !.age = @ + 1]
        PROVE  h \in Hit /\ h.age # 0 /\ [h EXCEPT !.age = @ - 1] \in recent
    <3>1. g \in Hit
      BY DEF RInv, TypeOK, Hit
    <3>2. /\ h = [server |-> g.server, age |-> g.age + 1, turn |-> g.turn]
          /\ g = [server |-> g.server, age |-> g.age, turn |-> g.turn]
      BY <2>1, <3>1 DEF Hit
    <3>3. g.age + 1 \in 0..Window - 1 /\ g.age + 1 # 0 /\ (g.age + 1) - 1 = g.age
      BY <2>1, <3>1, LargestFacts DEF Hit
    <3>4. [h EXCEPT !.age = @ - 1] = g
      BY <3>2, <3>3
    <3>. QED  BY <3>1, <3>2, <3>3, <3>4 DEF Hit
  <2>. QED  BY <2>1 DEF Tick
<1>3. \A s \in Servers : \/ bucket[s] = NoBucket /\ bucket'[s] = NoBucket
                         \/ /\ bucket[s] # NoBucket /\ bucket'[s] # NoBucket
                            /\ bucket[s].left = -1 /\ bucket'[s] = bucket[s]
                         \/ /\ bucket[s] # NoBucket /\ bucket'[s] # NoBucket
                            /\ bucket[s].left \in 0..Window
                            /\ bucket'[s].left = bucket[s].left - 1
                            /\ bucket'[s].count = bucket[s].count
                            /\ bucket'[s] \in [count : 1..Largest, left : -1..Window]
  <2>. TAKE s \in Servers
  <2>1. CASE bucket[s] = NoBucket
    BY <1>1, <2>1 DEF Over
  <2>2. CASE bucket[s] # NoBucket
    <3>1. bucket[s] \in [count : 1..Largest, left : -1..Window]
      BY <2>2, BucketFacts DEF RInv
    <3>2. CASE bucket[s].left < 0
      BY <1>1, <2>2, <3>1, <3>2, LargestFacts DEF Over
    <3>3. CASE ~(bucket[s].left < 0)
      <4>1. bucket'[s] = [count |-> bucket[s].count, left |-> bucket[s].left - 1]
        BY <1>1, <2>2, <3>1, <3>3 DEF Over
      <4>2. /\ bucket[s].left \in 0..Window /\ bucket[s].left - 1 \in -1..Window
            /\ bucket[s].count \in Nat /\ bucket[s].left - 1 \in Int
        BY <3>1, <3>3, LargestFacts
      <4>. QED  BY <2>2, <3>1, <4>1, <4>2, BucketAssumption
    <3>. QED  BY <3>2, <3>3
  <2>. QED  BY <2>1, <2>2
<1>4. TypeOK' /\ IsFiniteSet(recent')
  <2>1. IsFiniteSet(recent')
    BY <1>2, Older
  <2>2. bucket' \in [Servers -> [count : 1..Largest, left : -1..Window] \cup {NoBucket}]
    <3>1. \A s \in Servers : bucket'[s] \in [count : 1..Largest, left : -1..Window] \cup {NoBucket}
      BY <1>3, BucketFacts DEF RInv
    <3>. QED  BY <1>1, <3>1
  <2>. QED  BY <1>1, <1>2, <2>1, <2>2 DEF RInv, TypeOK, Hit
<1>5. ASSUME NEW s \in Servers PROVE Bucketed(s)'
  <2>1. \A h \in Admitted(s)' : /\ h \in Hit /\ h.age # 0
                                /\ [h EXCEPT !.age = @ - 1] \in Admitted(s)
                                /\ [h EXCEPT !.age = @ - 1].age = h.age - 1
    BY <1>2 DEF Admitted, Hit
  <2>2. Now(s)' = {}
    BY <1>2 DEF Now, Admitted
  <2>3. CASE bucket[s] = NoBucket
    BY <1>3, <2>1, <2>3 DEF RInv, Bucketed
  <2>4. CASE bucket[s] # NoBucket
    <3>1. bucket'[s] # NoBucket /\ bucket'[s].count = bucket[s].count
      BY <1>3, <2>4
    <3>2. /\ \A h \in SinceOpen(s)' : [h EXCEPT !.age = @ - 1] \in SinceOpen(s)
          /\ \A h \in BeforeOpen(s)' : [h EXCEPT !.age = @ - 1] \in BeforeOpen(s)
      <4>1. CASE bucket[s].left = -1 /\ bucket'[s] = bucket[s]
        BY <2>1, <4>1, LargestFacts DEF SinceOpen, BeforeOpen, Hit
      <4>2. CASE bucket[s].left \in 0..Window /\ bucket'[s].left = bucket[s].left - 1
        BY <2>1, <4>2, LargestFacts DEF SinceOpen, BeforeOpen, Hit
      <4>. QED  BY <1>3, <2>4, <4>1, <4>2
    <3>3. /\ SinceOpen(s)' \subseteq recent' /\ BeforeOpen(s)' \subseteq recent'
          /\ SinceOpen(s) \subseteq recent /\ BeforeOpen(s) \subseteq recent
      BY DEF SinceOpen, BeforeOpen, Admitted
    <3>4. /\ Cardinality(SinceOpen(s)') <= Cardinality(SinceOpen(s))
          /\ Cardinality(BeforeOpen(s)') <= Cardinality(BeforeOpen(s))
          /\ Cardinality(SinceOpen(s)') \in Nat /\ Cardinality(BeforeOpen(s)') \in Nat
      BY <3>2, <3>3, Older
    <3>5. Cardinality(SinceOpen(s)) \in Nat /\ Cardinality(BeforeOpen(s)) \in Nat
      BY <3>3, PartsFinite DEF RInv
    <3>6. /\ Cardinality(SinceOpen(s)) <= bucket[s].count
          /\ Cardinality(BeforeOpen(s)) <= Largest
          /\ bucket[s].count \in Nat
      BY <2>4, BucketFacts, LargestFacts DEF RInv, Bucketed
    <3>7. /\ Cardinality(SinceOpen(s)') <= bucket'[s].count
          /\ Cardinality(BeforeOpen(s)') <= Largest
      BY <3>1, <3>4, <3>5, <3>6, LargestFacts
    <3>. QED  BY <2>2, <3>1, <3>7 DEF Bucketed, Largest
  <2>. QED  BY <2>3, <2>4
<1>. QED  BY <1>4, <1>5 DEF RInv

LEMMA NextRInv == RInv /\ [Next]_vars => RInv'
<1>. SUFFICES ASSUME RInv, [Next]_vars PROVE RInv'
  OBVIOUS
<1>1. ASSUME NEW s \in Servers, Allow(s) PROVE RInv'
  BY <1>1, OpenStep, CountStep, RefuseStep DEF Allow
<1>2. CASE UNCHANGED vars
  <2>1. UNCHANGED <<bucket, answer, recent>>
    BY <1>2 DEF vars
  <2>2. \A s \in Servers : Bucketed(s)'
    BY <2>1, BucketedKept DEF RInv, Admitted
  <2>. QED  BY <2>1, <2>2 DEF RInv, TypeOK
<1>. QED  BY <1>1, <1>2, TickStep DEF Next

\* The hits of two buckets.
LEMMA TwoBuckets == RInv => TwoBucketsAMinute
<1>. SUFFICES ASSUME RInv, NEW s \in Servers
              PROVE  Cardinality(Admitted(s)) <= 2 * Largest
  BY DEF TwoBucketsAMinute
<1>1. CASE bucket[s] = NoBucket
  <2>1. Admitted(s) = {} /\ Cardinality({}) = 0
    BY <1>1, FS_EmptySet DEF RInv, Bucketed
  <2>. QED  BY <2>1, LargestFacts
<1>2. CASE bucket[s] # NoBucket
  <2>1. Admitted(s) = SinceOpen(s) \cup BeforeOpen(s)
    <3>1. \A h \in Admitted(s) : h.age \in Int /\ bucket[s].left \in Int
      BY <1>2, BucketFacts DEF RInv, TypeOK, Admitted
    <3>. QED  BY <3>1, LargestFacts DEF SinceOpen, BeforeOpen
  <2>2. /\ SinceOpen(s) \subseteq recent /\ BeforeOpen(s) \subseteq recent
        /\ SinceOpen(s) \cap BeforeOpen(s) \subseteq recent
    BY DEF SinceOpen, BeforeOpen, Admitted
  <2>3. /\ IsFiniteSet(SinceOpen(s)) /\ Cardinality(SinceOpen(s)) \in Nat
        /\ IsFiniteSet(BeforeOpen(s)) /\ Cardinality(BeforeOpen(s)) \in Nat
        /\ Cardinality(SinceOpen(s) \cap BeforeOpen(s)) \in Nat
    BY <2>2, PartsFinite DEF RInv
  <2>4. Cardinality(SinceOpen(s)) <= Largest /\ Cardinality(BeforeOpen(s)) <= Largest
    <3>1. bucket[s].count \in 1..Largest
      BY <1>2, BucketFacts DEF RInv
    <3>. QED  BY <1>2, <2>3, <3>1, LargestFacts DEF RInv, Bucketed
  <2>5. Cardinality(Admitted(s)) = Cardinality(SinceOpen(s)) + Cardinality(BeforeOpen(s))
                                     - Cardinality(SinceOpen(s) \cap BeforeOpen(s))
    BY <2>1, <2>3, FS_Union
  <2>. QED  BY <2>3, <2>4, <2>5, LargestFacts
<1>. QED  BY <1>1, <1>2

\* The inductive invariant of the limiter.
THEOREM LimiterInvariance == Spec => []RInv
BY InitRInv, NextRInv, PTL DEF Spec

\* Wherever a minute is laid over the fixed windows, a server admits no more hits of
\* a team in it than two buckets hold (Limiter.Allow).
THEOREM TwoBucketsCorrect == Spec => []TwoBucketsAMinute
BY LimiterInvariance, TwoBuckets, PTL

------------------------------------------------------------------------------
\* Limiter and hill beside each other: a step of one leaves the other as it was.
LEMMA NextBoth == RInv /\ HInv /\ [MCNext]_allVars => RInv' /\ HInv'
<1>. SUFFICES ASSUME RInv, HInv, [MCNext]_allVars PROVE RInv' /\ HInv'
  OBVIOUS
<1>1. [Next]_vars /\ [HillNext]_hillVars
  BY DEF MCNext, Limiter, Hills, allVars
<1>. QED  BY <1>1, NextRInv, NextHInv

\* Buckets, tick loops and plugin keep their types beside each other (Limiter.Allow,
\* tickLoop, hooks).
THEOREM ServersTypeCorrect == MCSpec => []ServersTypeOK
<1>1. MCInit => RInv /\ HInv
  BY InitRInv, InitHInv DEF MCInit
<1>2. RInv /\ HInv => ServersTypeOK
  BY DEF RInv, HInv, ServersTypeOK
<1>. QED  BY <1>1, <1>2, NextBoth, PTL DEF MCSpec

=============================================================================

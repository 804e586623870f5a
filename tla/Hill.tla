-------------------------------- MODULE Hill ---------------------------------
(***************************************************************************)
(* King of the Hill: the tick loop of every server, the webhook it sends   *)
(* to the registered plugin, the plugin of cmd/koth-plugin with its memory *)
(* of deliveries, and the award it asks for in return.                     *)
(*                                                                         *)
(* The core sends a delivery once, with a fresh id and the time of sending *)
(* as timestamp; what is between core and plugin may lose it or hand it    *)
(* over again.  A registration gives the plugin a new token and a new      *)
(* secret, counted as one generation of keys.  One plugin, one target and  *)
(* one holder: an award is its timestamp, the rest of its reference being  *)
(* fixed.  The award's transaction is module Scoring's; solve.created is   *)
(* left out, the plugin does nothing with it.                              *)
(***************************************************************************)
EXTENDS Installation

CONSTANTS
  Minute,       \* steps of the clock in a minute
  MaxTime,      \* bound on the clock
  MaxKeys,      \* bound on registrations
  MaxBoots      \* bound on starts of the plugin

ASSUME MinuteAssumption  == Minute \in Nat \ {0}
ASSUME MaxTimeAssumption == MaxTime \in Nat

VARIABLES
  clock,        \* time.Now
  timer,        \* per server: steps until its ticker fires
  due,          \* per server: a tick is in the ticker's channel, which holds one
  loop,         \* per server: down, or where tickLoop is
  sent,         \* per server: deliveries made
  registered,   \* plugins row: generation of its keys, 0 if there is no row
  boots,        \* starts of the plugin
  conf,         \* keys in the plugin's environment, 0 while it is down
  seen,         \* delivery ids the plugin remembers
  posts,        \* deliveries [id, ts, key, new]; new: not handed over yet
  calls,        \* award requests [id, boot, ts, key, known]
  awards,       \* score_events of the plugin
  credited,     \* how often the holder has been given points
  missed        \* history: timestamps that a failure has hit

core     == <<timer, due, loop, sent>>
plugin   == <<boots, conf, seen>>
ledger   == <<awards, credited>>
hillVars == <<clock, core, registered, plugin, posts, calls, ledger, missed>>

HillInit ==
  /\ clock = 0
  /\ timer = [s \in Servers |-> Minute]
  /\ due = [s \in Servers |-> FALSE]
  /\ loop = [s \in Servers |-> "down"]
  /\ sent = [s \in Servers |-> 0]
  /\ registered = 0
  /\ boots = 0
  /\ conf = 0
  /\ seen = {}
  /\ posts = {}
  /\ calls = {}
  /\ awards = {}
  /\ credited = 0
  /\ missed = {}

------------------------------------------------------------------------------
\* Time passes.  A ticker that fires while its channel is full drops the tick.
Advance ==
  /\ clock < MaxTime
  /\ clock' = clock + 1
  /\ timer' = [s \in Servers |->
                 IF loop[s] = "down" \/ timer[s] = 1 THEN Minute ELSE timer[s] - 1]
  /\ due' = [s \in Servers |-> due[s] \/ (loop[s] # "down" /\ timer[s] = 1)]
  /\ UNCHANGED <<loop, sent, registered, plugin, posts, calls, ledger, missed>>

\* The server starts its tick loop, with a new ticker; it stops, or dies.
StartServer(s) ==
  /\ loop[s] = "down"
  /\ loop' = [loop EXCEPT ![s] = "waiting"]
  /\ UNCHANGED <<clock, timer, due, sent, registered, plugin, posts, calls, ledger, missed>>

StopServer(s) ==
  /\ loop[s] # "down"
  /\ loop' = [loop EXCEPT ![s] = "down"]
  /\ timer' = [timer EXCEPT ![s] = Minute]
  /\ due' = [due EXCEPT ![s] = FALSE]
  /\ UNCHANGED <<clock, sent, registered, plugin, posts, calls, ledger, missed>>

\* tickLoop takes the tick and calls deliverWebhook.
TakeTick(s) ==
  /\ loop[s] = "waiting"
  /\ due[s]
  /\ loop' = [loop EXCEPT ![s] = "listing"]
  /\ due' = [due EXCEPT ![s] = FALSE]
  /\ UNCHANGED <<clock, timer, sent, registered, plugin, posts, calls, ledger, missed>>

\* ListPlugins has answered: the timestamp is taken now, and every subscribed
\* plugin gets a signed delivery with an id of its own.
DeliverWebhook(s) ==
  /\ loop[s] = "listing"
  /\ loop' = [loop EXCEPT ![s] = "waiting"]
  /\ IF registered = 0
       THEN UNCHANGED <<sent, posts>>
       ELSE /\ sent' = [sent EXCEPT ![s] = @ + 1]
            /\ posts' = posts \cup {[id |-> <<s, sent[s]>>, ts |-> clock,
                                     key |-> registered, new |-> TRUE]}
  /\ UNCHANGED <<clock, timer, due, registered, plugin, calls, ledger, missed>>

\* ListPlugins has failed: this tick is not delivered.
ListPluginsFails(s) ==
  /\ loop[s] = "listing"
  /\ loop' = [loop EXCEPT ![s] = "waiting"]
  /\ UNCHANGED <<clock, timer, due, sent, registered, plugin, posts, calls, ledger, missed>>

------------------------------------------------------------------------------
\* RegisterPlugin: the row is inserted, or its token and secret are replaced.
RegisterPlugin ==
  /\ registered < MaxKeys
  /\ registered' = registered + 1
  /\ UNCHANGED <<clock, core, plugin, posts, calls, ledger, missed>>

\* The plugin starts with the keys the operator has given it, new or old.
StartPlugin(k) ==
  /\ conf = 0
  /\ boots < MaxBoots
  /\ boots' = boots + 1
  /\ conf' = k
  /\ UNCHANGED <<clock, core, registered, seen, posts, calls, ledger, missed>>

\* It stops, and forgets the deliveries.
StopPlugin ==
  /\ conf # 0
  /\ conf' = 0
  /\ seen' = {}
  /\ UNCHANGED <<clock, core, registered, boots, posts, calls, ledger, missed>>

\* A delivery is handed over, whatever becomes of it.
Handed(p) == posts' = (posts \ {p}) \cup {[p EXCEPT !.new = FALSE]}

\* hooks: the signature is right and the delivery new, so awardTick is started.
Hook(p) ==
  /\ conf = p.key
  /\ p.id \notin seen
  /\ Handed(p)
  /\ seen' = seen \cup {p.id}
  /\ calls' = calls \cup {[id |-> p.id, boot |-> boots, ts |-> p.ts, key |-> conf, known |-> FALSE]}
  /\ UNCHANGED <<clock, core, registered, boots, conf, ledger, missed>>

\* hooks: a delivery it has seen is dropped.
HookDuplicate(p) ==
  /\ conf = p.key
  /\ p.id \in seen
  /\ Handed(p)
  /\ UNCHANGED <<clock, core, registered, plugin, calls, ledger, missed>>

\* The plugin is down, or knows another secret and answers 401; or the delivery
\* is lost on its way.  The core does not try again.
HookFails(p) ==
  /\ p.new
  /\ Handed(p)
  /\ missed' = missed \cup {p.ts}
  /\ UNCHANGED <<clock, core, registered, plugin, calls, ledger>>

------------------------------------------------------------------------------
\* pluginAuth: the token is the one in the plugin's row.
Authenticate(c) ==
  /\ ~c.known
  /\ \E s \in Servers : loop[s] # "down"
  /\ c.key = registered
  /\ calls' = (calls \ {c}) \cup {[c EXCEPT !.known = TRUE]}
  /\ UNCHANGED <<clock, core, registered, plugin, posts, ledger, missed>>

\* Mutant: the reference does not have the timestamp.
RefId_Constant(ts) == 0

\* "tick:" + ts + ":" + target, for the one target.
RefId(ts) == ts

\* Mutant: a second award of the same reference is credited again.
PluginAward_Again(c) ==
  /\ c.known
  /\ awards' = awards \cup {RefId(c.ts)}
  /\ credited' = credited + 1
  /\ calls' = calls \ {c}
  /\ UNCHANGED <<clock, core, registered, plugin, posts, missed>>

\* handlePluginAward: the award is recorded and credited, unless it is there.
PluginAward(c) ==
  /\ c.known
  /\ awards' = awards \cup {RefId(c.ts)}
  /\ credited' = IF RefId(c.ts) \in awards THEN credited ELSE credited + 1
  /\ calls' = calls \ {c}
  /\ UNCHANGED <<clock, core, registered, plugin, posts, missed>>

\* The call is refused, fails or times out.  awardTick does not try again.
CallFails(c) ==
  /\ calls' = calls \ {c}
  /\ missed' = missed \cup {c.ts}
  /\ UNCHANGED <<clock, core, registered, plugin, posts, ledger>>

------------------------------------------------------------------------------
HillNext ==
  \/ Advance
  \/ \E s \in Servers :
       \/ StartServer(s) \/ StopServer(s)
       \/ TakeTick(s) \/ DeliverWebhook(s) \/ ListPluginsFails(s)
  \/ RegisterPlugin
  \/ \E k \in 1..registered : StartPlugin(k)
  \/ StopPlugin
  \/ \E p \in posts : Hook(p) \/ HookDuplicate(p) \/ HookFails(p)
  \/ \E c \in calls : Authenticate(c) \/ PluginAward(c) \/ CallFails(c)

HillSpec == HillInit /\ [][HillNext]_hillVars

------------------------------------------------------------------------------
\* Keys and ids are ones that have been given out, and what the plugin remembers
\* or asks for is of a delivery.
HillTypeOK ==
  /\ clock \in 0..MaxTime
  /\ timer \in [Servers -> 1..Minute]
  /\ due \in [Servers -> BOOLEAN]
  /\ loop \in [Servers -> {"down", "waiting", "listing"}]
  /\ conf \in 0..registered
  /\ \A p \in posts : p.key \in 1..registered /\ p.id[2] < sent[p.id[1]]
  /\ \A c \in calls : c.key \in 1..registered /\ c.boot <= boots
  /\ seen \cup {c.id : c \in calls} \subseteq {p.id : p \in posts}

\* "Awards are idempotent by ref_id, so a retried tick never double counts"
\* (docs/index.html): however often a delivery is handed over, and whatever the
\* plugin forgets, the holder is paid at most once for each tick of a server's
\* clock.
AwardsWithinTicks == credited <= ServerCount * (clock \div Minute)

\* No tick that was delivered is lost without a failure, neither to the memory of
\* deliveries nor to the reference: until it is awarded, something on its way will
\* end in an award or fail (hooks, awardTick).
TicksAreSettled ==
  \A p \in posts :
    \/ p.ts \in awards \cup missed
    \/ p.new \/ \E c \in calls : c.ts = p.ts

\* "a per-minute `tick.minute` emitter" (CHANGELOG.md), "on each tick it awards
\* the current holder" (docs/index.html): one payment a minute.
OneAwardAMinute == credited <= clock \div Minute

=============================================================================

------------------------------ MODULE RateLimit ------------------------------
(***************************************************************************)
(* Limiter.Allow of internal/ratelimit for one key (a team in an event),   *)
(* on every server that has a limiter of its own, with the clock in ticks. *)
(* The mutex makes Allow one step.  A bucket is kept as the ticks until    *)
(* its resetAt (-1 when that has passed), so that the clock need not be    *)
(* bounded.  Servers do not restart: a restart would empty their buckets.  *)
(***************************************************************************)
EXTENDS Installation

CONSTANTS
  Limit,       \* cfg.SubmitRatePerMin
  Window,      \* ticks of the window: one minute
  NoBucket

ASSUME LimitAssumption  == Limit \in Nat /\ Window \in Nat \ {0}
ASSUME BucketAssumption == NoBucket \notin [count : Nat, left : Int]

VARIABLES
  bucket,      \* per server: [count, left], or NoBucket
  answer,      \* per server: what Allow last answered
  recent       \* history: hits admitted in the last Window ticks

vars == <<bucket, answer, recent>>

\* A hit is told from others by its server, its age in ticks and its turn.
Admitted(s) == {h \in recent : h.server = s}
Now(s)      == {h \in Admitted(s) : h.age = 0}

Largest == IF Limit > 1 THEN Limit ELSE 1   \* even with Limit 0 a bucket takes one

------------------------------------------------------------------------------
Init ==
  /\ bucket = [s \in Servers |-> NoBucket]
  /\ answer = [s \in Servers |-> TRUE]
  /\ recent = {}

Admit(s) ==
  /\ answer' = [answer EXCEPT ![s] = TRUE]
  /\ recent' = recent \cup {[server |-> s, age |-> 0, turn |-> Cardinality(Now(s)) + 1]}

\* now.After(b.resetAt)
Over(s) == bucket[s] # NoBucket => bucket[s].left < 0

\* Mutant: a fresh bucket starts at zero.
Open_FromZero(s) ==
  /\ Over(s)
  /\ bucket' = [bucket EXCEPT ![s] = [count |-> 0, left |-> Window]]
  /\ Admit(s)

\* Allow opens a bucket when there is none or its time is over.
Open(s) ==
  /\ Over(s)
  /\ bucket' = [bucket EXCEPT ![s] = [count |-> 1, left |-> Window]]
  /\ Admit(s)

\* Mutant: the limit is tested with >.
Count_OffByOne(s) ==
  /\ ~Over(s)
  /\ bucket[s].count <= Limit
  /\ bucket' = [bucket EXCEPT ![s].count = @ + 1]
  /\ Admit(s)

\* Allow counts a hit into the bucket up to the limit.
Count(s) ==
  /\ ~Over(s)
  /\ bucket[s].count < Limit
  /\ bucket' = [bucket EXCEPT ![s].count = @ + 1]
  /\ Admit(s)

\* Mutant: a refused hit starts the window again.
Refuse_Prolongs(s) ==
  /\ ~Over(s)
  /\ bucket[s].count >= Limit
  /\ bucket' = [bucket EXCEPT ![s].left = Window]
  /\ answer' = [answer EXCEPT ![s] = FALSE]
  /\ UNCHANGED recent

\* Allow refuses the hit and changes nothing.
Refuse(s) ==
  /\ ~Over(s)
  /\ bucket[s].count >= Limit
  /\ answer' = [answer EXCEPT ![s] = FALSE]
  /\ UNCHANGED <<bucket, recent>>

Allow(s) == Open(s) \/ Count(s) \/ Refuse(s)

\* time.Now() moves on by one tick.
Tick ==
  /\ bucket' = [s \in Servers |->
                  IF Over(s) THEN bucket[s] ELSE [bucket[s] EXCEPT !.left = @ - 1]]
  /\ recent' = {[h EXCEPT !.age = @ + 1] : h \in {g \in recent : g.age < Window - 1}}
  /\ UNCHANGED answer

Next == Tick \/ \E s \in Servers : Allow(s)

Spec == Init /\ [][Next]_vars

------------------------------------------------------------------------------
\* No bucket counts more hits than the limit, or than its first one.
TypeOK ==
  /\ bucket \in [Servers -> [count : 1..Largest, left : -1..Window] \cup {NoBucket}]
  /\ answer \in [Servers -> BOOLEAN]
  /\ recent \subseteq [server : Servers, age : 0..Window - 1, turn : Nat \ {0}]

\* Wherever the minute is laid, each server admits at most the hits of two
\* buckets in it: a third would need two whole windows between (Open).
TwoBucketsAMinute == \A s \in Servers : Cardinality(Admitted(s)) <= 2 * Largest

\* A team that has been refused and keeps submitting is admitted again: refused
\* hits never prolong its window.
RefusedIsAdmitted == \A s \in Servers : ~answer[s] ~> answer[s]

=============================================================================

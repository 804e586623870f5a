----------------------------- MODULE MCServers -------------------------------
(***************************************************************************)
(* A small instance for TLC of what two servers do each on its own clock:  *)
(* RateLimit and Hill.  They share nothing but the servers, so a behaviour *)
(* is one of either, and of Hill one of a single server, for longer, or of *)
(* both.                                                                   *)
(***************************************************************************)
EXTENDS RateLimit, Hill

CONSTANTS
  s1,            \* the server that is there when there is one
  TimeOfTwo      \* bound on the clock when both tick

VARIABLE part    \* which of the three

allVars == <<vars, hillVars, part>>

Limiter(A) == part = "limiter" /\ A /\ UNCHANGED <<hillVars, part>>
Hills(A)   == part # "limiter" /\ A /\ UNCHANGED <<vars, part>>

Within ==
  IF part = "one server"
    THEN \A s \in Servers \ {s1} : loop'[s] = "down"
    ELSE clock' <= TimeOfTwo

MCInit == Init /\ HillInit /\ part \in {"limiter", "one server", "two servers"}

MCNext == Limiter(Next) \/ Hills(HillNext /\ Within)

\* Time passes, and the team keeps submitting.
MCSpec ==
  /\ MCInit /\ [][MCNext]_allVars
  /\ WF_allVars(Limiter(Tick))
  /\ \A s \in Servers : WF_allVars(Limiter(Allow(s)))

ServersTypeOK == TypeOK /\ HillTypeOK

=============================================================================

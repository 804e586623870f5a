---------------------------- MODULE Installation -----------------------------
(***************************************************************************)
(* An installation scales out (docs/index.html): several processes run the *)
(* same binary over one database and one Redis.  What a process keeps in   *)
(* its own memory, limiter buckets and tickers, there is once per process. *)
(***************************************************************************)
EXTENDS FiniteSets, Integers

CONSTANT Servers     \* the server processes

ASSUME ServersAssumption == IsFiniteSet(Servers)

\* As many as the deployment was given replicas.
ServerCount == Cardinality(Servers)

=============================================================================

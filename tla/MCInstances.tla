----------------------------- MODULE MCInstances -----------------------------
(***************************************************************************)
(* Small instances of Instances for TLC.                                   *)
(***************************************************************************)
EXTENDS Instances, TLC

\* Handlers, row names and teams are interchangeable.
InstanceSymmetry ==
  Permutations(Requests) \cup Permutations(InstanceIds) \cup Permutations(Teams)

=============================================================================

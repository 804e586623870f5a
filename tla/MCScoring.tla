------------------------------ MODULE MCScoring ------------------------------
(***************************************************************************)
(* Small instances of Scoring for TLC.                                     *)
(***************************************************************************)
EXTENDS Scoring, TLC

\* Handlers are interchangeable: no property tells one from another.
RequestSymmetry == Permutations(Requests)

=============================================================================

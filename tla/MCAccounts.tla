------------------------------ MODULE MCAccounts -----------------------------
(***************************************************************************)
(* A small instance of Accounts, and so of Teams, for TLC.                 *)
(***************************************************************************)
EXTENDS Accounts, TLC

AccountsSymmetry ==
  Permutations(Users \ {Admin}) \cup Permutations(Names) \cup
  Permutations(Requests) \cup Permutations(Tokens)

=============================================================================

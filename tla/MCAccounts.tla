---------------------------- MODULE MCAccounts -----------------------------
(***************************************************************************)
(* Bounds for Accounts alone.                                              *)
(***************************************************************************)
EXTENDS Accounts, TLC

Symmetry == Permutations(Accounts) \cup Permutations(Addresses) \cup Permutations(SignUps)
=============================================================================

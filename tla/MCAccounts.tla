----------------------------- MODULE MCAccounts -----------------------------
(* Symmetries of Accounts for TLC: the seed admin and the other ids differ. *)
EXTENDS Accounts, TLC

AccountSymmetry ==
  Permutations(Users \ Founders) \cup Permutations(Tokens) \cup Permutations(Workers)
=============================================================================

----------------------------- MODULE MCAccounts -----------------------------
(* Accounts for TLC: two requests at a time, two accounts at the limit.     *)
EXTENDS Accounts, TLC

CONSTANTS q1, q2

Symmetry == Permutations(Request)

==============================================================================

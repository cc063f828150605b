------------------------------ MODULE MCAccounts ------------------------------
(* Small instances of Accounts for TLC. *)
EXTENDS Accounts, TLC

\* Nothing in the handlers distinguishes one user name from another.
UserSymmetry == Permutations(User)
=============================================================================

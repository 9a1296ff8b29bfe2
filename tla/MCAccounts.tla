----------------------------- MODULE MCAccounts -----------------------------
(***************************************************************************)
(* Accounts on small instances.  Goroutines, emails and usernames are      *)
(* interchangeable in every safety run: no definition names one of them.   *)
(***************************************************************************)
EXTENDS Accounts, TLC

Symmetry == Permutations(Procs) \cup Permutations(Emails) \cup Permutations(Usernames)
=============================================================================

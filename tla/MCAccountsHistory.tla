------------------------- MODULE MCAccountsHistory -------------------------
(***************************************************************************)
(* AccountsHistory on small instances.                                     *)
(***************************************************************************)
EXTENDS AccountsHistory, TLC

Symmetry == Permutations(Procs) \cup Permutations(Emails) \cup Permutations(Usernames)
============================================================================

----------------------------- MODULE MCBlacklist -----------------------------
(***************************************************************************)
(* Two accounts with every choice of their xuids: different ones, none for *)
(* one of them, none for both.  There is one name more than accounts, for  *)
(* renames.                                                                *)
(***************************************************************************)
EXTENDS Blacklist, TLC

Symmetry ==
    Permutations(Names) \cup Permutations(Accounts) \cup Permutations(Xuids \ {NoXuid})
=============================================================================

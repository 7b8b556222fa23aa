------------------------------- MODULE MCPages -------------------------------
(***************************************************************************)
(* Instances of Pages for TLC.                                             *)
(***************************************************************************)
EXTENDS Pages, TLC

Symmetry ==
  Permutations(Users) \cup Permutations(Sids \ Clipped)
  \cup Permutations(Tabs) \cup Permutations(Requests)

=============================================================================

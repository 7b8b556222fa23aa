------------------------------ MODULE MCAccounts ------------------------------
(***************************************************************************)
(* Instances of Accounts for TLC.                                          *)
(***************************************************************************)
EXTENDS Accounts, TLC

CONSTANTS e1, e2, w1, w2

\* Two people who have nothing in common.  Each has chosen his name for his
\* user name; the second one's has a doubled letter.
MCForms ==
  {[email |-> e1, userName |-> w1, name |-> w1],
   [email |-> e2, userName |-> w2, name |-> w2]}

Symmetry ==
  Permutations(Users) \cup Permutations(Sids) \cup Permutations(Requests)

=============================================================================

---------------------------- MODULE MCMessaging ----------------------------
(***************************************************************************)
(* Instances of Messaging for TLC.                                         *)
(***************************************************************************)
EXTENDS Messaging, TLC

\* Users, messages and requests are interchangeable; the default channel is
\* not, nor is its name.
Symmetry ==
  Permutations(Users) \cup Permutations(Messages) \cup Permutations(Requests)

=============================================================================

------------------------------- MODULE MCForms -------------------------------
(***************************************************************************)
(* Instances of Forms for TLC.                                             *)
(***************************************************************************)
EXTENDS Forms, TLC

Symmetry == Permutations(Channels \ {General})

=============================================================================

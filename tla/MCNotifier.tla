------------------------------ MODULE MCNotifier ------------------------------
(***************************************************************************)
(* Instances of Notifier for TLC.  Liveness is checked, so no symmetry.    *)
(***************************************************************************)
EXTENDS Notifier

=============================================================================

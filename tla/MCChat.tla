-------------------------------- MODULE MCChat --------------------------------
(***************************************************************************)
(* Instances of Chat for TLC.                                              *)
(***************************************************************************)
EXTENDS Chat, TLC

Symmetry == Permutations(Channels \ {General}) \cup Permutations(Messages)
              \cup Permutations(Bodies)

=============================================================================

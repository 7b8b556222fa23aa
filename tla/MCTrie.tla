-------------------------------- MODULE MCTrie --------------------------------
(***************************************************************************)
(* Instances of Trie for TLC.                                              *)
(***************************************************************************)
EXTENDS Trie

\* With a and b for 1 and 2: aa, ab and aba.
MCKeys == {<<1, 1>>, <<1, 2>>, <<1, 2, 1>>}

MCTexts == {<<1>>, <<1, 2>>}

\* Users are interchangeable; letters are ordered.
Symmetry == Permutations(Values)

=============================================================================

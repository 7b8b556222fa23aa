------------------------------ MODULE NameIndex ------------------------------
(***************************************************************************)
(* What callers of the gateway's name index (servers/gateway/indexes) may  *)
(* rely on: a set of pairs of a key and the identifier of a user.  Keys    *)
(* with a doubled letter are fragile: deleting any pair may lose them.     *)
(***************************************************************************)
CONSTANTS Keys, Values,
          Empty,          \* the key without letters
          Fragile         \* the keys a deletion of another may lose

VARIABLE entries

Init == entries = {}

Add(key, value) == entries' = entries \cup {<<key, value>>}

\* A pair that is not there, or has the empty key, is not deleted.
Delete(key, value) ==
  IF key = Empty \/ <<key, value>> \notin entries THEN UNCHANGED entries
  ELSE \E lost \in SUBSET {pair \in entries : pair[1] \in Fragile} :
         entries' = entries \ (lost \cup {<<key, value>>})

Next ==
  \E key \in Keys, value \in Values : Add(key, value) \/ Delete(key, value)

Spec == Init /\ [][Next]_entries

=============================================================================

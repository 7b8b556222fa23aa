----------------------------- MODULE SessionTable -----------------------------
(***************************************************************************)
(* What the gateway's sessions promise to whoever holds an identifier:     *)
(* a session belongs to one user from its beginning on.  It may end, and a *)
(* change of profile that was under way may write it back once more.       *)
(***************************************************************************)
CONSTANTS Sids, Users, Null

VARIABLES
  holder,     \* whose session it is, Null if the identifier was not drawn yet
  live        \* the sessions whose state is in the store

Init ==
  /\ holder = [s \in Sids |-> Null]
  /\ live = {}

Begin(s, u) ==
  /\ holder[s] = Null
  /\ holder' = [holder EXCEPT ![s] = u]
  /\ live' = live \cup {s}

End(s) ==
  /\ holder[s] # Null
  /\ live' = live \ {s}
  /\ UNCHANGED holder

WriteBack(s) ==
  /\ holder[s] # Null
  /\ live' = live \cup {s}
  /\ UNCHANGED holder

Next ==
  \E s \in Sids : (\E u \in Users : Begin(s, u)) \/ End(s) \/ WriteBack(s)

Spec == Init /\ [][Next]_<<holder, live>>

=============================================================================

----------------------------- MODULE EventStream -----------------------------
(***************************************************************************)
(* What the gateway's notifier promises to the browsers: whoever connects  *)
(* reads the one stream of published events from some point on, in order   *)
(* and without a gap, for as long as it is connected.                      *)
(*                                                                         *)
(* Events are numbered in the order of their publication.                  *)
(***************************************************************************)
EXTENDS Naturals, Sequences

CONSTANT Clients    \* connections of browsers to the gateway

VARIABLES
  published,        \* how many events have been published
  got               \* the events each client has received

vars == <<published, got>>

Init ==
  /\ published = 0
  /\ got = [c \in Clients |-> <<>>]

Publish ==
  /\ published' = published + 1
  /\ UNCHANGED got

\* The first event a client receives may be any; then it is the next one.
Follows(e, events) == events = <<>> \/ e = events[Len(events)] + 1

Deliver(c) ==
  /\ \E e \in 1..published :
       Follows(e, got[c]) /\ got' = [got EXCEPT ![c] = Append(@, e)]
  /\ UNCHANGED published

Next == Publish \/ \E c \in Clients : Deliver(c)

Spec == Init /\ [][Next]_vars

-----------------------------------------------------------------------------

\* No client misses an event between two it received, receives one twice or
\* out of order, or receives one nobody published.
Gapless ==
  \A c \in Clients :
    /\ \A i \in 1..Len(got[c]) : got[c][i] \in 1..published
    /\ \A i \in 1..Len(got[c]) - 1 : got[c][i + 1] = got[c][i] + 1

=============================================================================

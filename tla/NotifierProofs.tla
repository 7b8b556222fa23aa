---------------------------- MODULE NotifierProofs ----------------------------
(***************************************************************************)
(* Proofs about Notifier, for any number of clients and events, with or    *)
(* without a RabbitMQ server that dies: its locking discipline, and that   *)
(* it implements EventStream.                                              *)
(***************************************************************************)
EXTENDS Notifier, TLAPS

\* The lock is held by whoever is between acquiring and releasing it.
LockHeld ==
  /\ \A c \in Clients :
       mx = c <=> phase[c] \in {"appending", "copying", "assigning"}
  /\ mx = "read" <=> pc = "writing"

\* The copy a goroutine is about to make the list is still up to date.
KeptOthers ==
  \A c \in Clients : phase[c] = "assigning" => kept[c] = clients \ {c}

\* A broadcast goes through registered clients only, and leaves nothing over.
Loop ==
  /\ toNotify \subseteq clients
  /\ target \in clients \cup {"nobody"}
  /\ target \notin toNotify
  /\ pc # "writing" => toNotify = {} /\ target = "nobody"

\* c is still to receive what start() has taken.
Pending(c) ==
  /\ current # Blank
  /\ \/ pc = "locking"
     \/ pc = "writing" /\ (c \in toNotify \/ target = c)

Last(c) == got[c][Len(got[c])]

\* Up to where c must have read the stream.
Due(c) == IF Pending(c) THEN taken - 1 ELSE taken

\* c is not passed over by the broadcast under way.
Owed(c) == pc = "writing" /\ current # Blank => Pending(c)

\* Where in the stream each client is.
Position ==
  /\ current \in {Blank, taken}
  /\ \A c \in Clients : phase[c] \in Unregistered \ {"done"} => got[c] = <<>>
  /\ \A c \in clients :
       socket[c] \in {"open", "stalled"} =>
         IF got[c] = <<>> THEN Owed(c) ELSE Last(c) = Due(c)

\* The inductive invariant.
Inv ==
  /\ TypeOK
  /\ LockHeld
  /\ ListedIffRegistered
  /\ KeptOthers
  /\ Loop
  /\ Position

-----------------------------------------------------------------------------

\* The notifier starts in a state of the invariant.
LEMMA InvInit == Init => Inv
  BY ClientsAssumption
     DEF Init, Inv, TypeOK, LockHeld, ListedIffRegistered, KeptOthers, Loop,
         Position, Blank, Registered, Unregistered, Pending

\* Every step keeps the types.
LEMMA TypeStep ==
  ASSUME TypeOK, Loop, [Next]_vars
  PROVE  TypeOK'
  <1>. USE DEF TypeOK, brokerVars, startVars, listVars, Blank, Registered,
               Unregistered
  <1>1. CASE Publish \/ BrokerStop
    BY <1>1 DEF Publish, BrokerStop
  <1>2. ASSUME NEW c \in Clients, Peer(c) PROVE TypeOK'
    BY <1>2 DEF Peer, PeerStalls, PeerResumes, PeerBreaks
  <1>3. ASSUME NEW c \in Clients, Goroutine(c) PROVE TypeOK'
    <2>1. CASE Upgrade(c)
      BY <2>1 DEF Upgrade
    <2>2. CASE LockToAdd(c)
      BY <2>2 DEF LockToAdd
    <2>3. CASE AppendClient(c)
      BY <2>3 DEF AppendClient
    <2>4. CASE ReadFails(c)
      BY <2>4 DEF ReadFails
    <2>5. CASE LockToRemove(c)
      BY <2>5 DEF LockToRemove
    <2>6. CASE CopyOthers(c)
      BY <2>6 DEF CopyOthers
    <2>7. CASE AssignClients(c)
      BY <2>7 DEF AssignClients
    <2>. QED
      BY <1>3, <2>1, <2>2, <2>3, <2>4, <2>5, <2>6, <2>7 DEF Goroutine
  <1>4. CASE Take \/ TakeZero
    BY <1>4 DEF Take, TakeZero
  <1>5. CASE LockToNotify \/ NextClient \/ Unlock
    BY <1>5 DEF LockToNotify, NextClient, Unlock, Loop
  <1>6. ASSUME NEW c \in Clients, Write(c) \/ WriteFails(c) PROVE TypeOK'
    <2>1. got' \in [Clients -> Seq(Nat)]
      <3>1. got[c] \in Seq(Nat) /\ current \in Nat
        OBVIOUS
      <3>2. Append(got[c], current) \in Seq(Nat)
        BY <3>1
      <3>3. \/ got' = got
            \/ got' = [got EXCEPT ![c] = Append(got[c], current)]
        BY <1>6 DEF Write, WriteFails
      <3>. QED
        BY <3>2, <3>3
    <2>2. CASE Write(c)
      <3>1. target' \in Clients \cup {"nobody"}
        BY <2>2 DEF Write
      <3>2. UNCHANGED <<published, taken, mq, clients, mx, pc, current,
                        toNotify, phase, kept, socket>>
        BY <2>2 DEF Write
      <3>. QED
        BY <2>1, <3>1, <3>2
    <2>3. CASE WriteFails(c)
      BY <2>1, <2>3 DEF WriteFails
    <2>. QED
      BY <1>6, <2>2, <2>3
  <1>7. CASE UNCHANGED vars
    BY <1>7 DEF vars
  <1>. QED
    BY <1>1, <1>2, <1>3, <1>4, <1>5, <1>6, <1>7 DEF Next, Start

\* Every goroutine releases the lock it took and no other.
LEMMA LockStep ==
  ASSUME TypeOK, LockHeld, [Next]_vars
  PROVE  LockHeld'
  <1>. USE ClientsAssumption
       DEF TypeOK, LockHeld, brokerVars, startVars, listVars, Registered,
           Unregistered
  <1>1. CASE Publish \/ BrokerStop \/ Take \/ TakeZero \/ NextClient
    BY <1>1 DEF Publish, BrokerStop, Take, TakeZero, NextClient
  <1>2. ASSUME NEW c \in Clients, Peer(c) \/ Write(c) \/ WriteFails(c)
        PROVE LockHeld'
    BY <1>2 DEF Peer, PeerStalls, PeerResumes, PeerBreaks, Write, WriteFails
  <1>3. ASSUME NEW c \in Clients, Goroutine(c) PROVE LockHeld'
    <2>1. CASE Upgrade(c)
      BY <2>1 DEF Upgrade
    <2>2. CASE LockToAdd(c)
      BY <2>2 DEF LockToAdd
    <2>3. CASE AppendClient(c)
      BY <2>3 DEF AppendClient
    <2>4. CASE ReadFails(c)
      BY <2>4 DEF ReadFails
    <2>5. CASE LockToRemove(c)
      BY <2>5 DEF LockToRemove
    <2>6. CASE CopyOthers(c)
      BY <2>6 DEF CopyOthers
    <2>7. CASE AssignClients(c)
      BY <2>7 DEF AssignClients
    <2>. QED
      BY <1>3, <2>1, <2>2, <2>3, <2>4, <2>5, <2>6, <2>7 DEF Goroutine
  <1>4. CASE LockToNotify \/ Unlock
    BY <1>4 DEF LockToNotify, Unlock
  <1>5. CASE UNCHANGED vars
    BY <1>5 DEF vars
  <1>. QED
    BY <1>1, <1>2, <1>3, <1>4, <1>5 DEF Next, Start

\* The list only changes under the lock, so copies and broadcasts see it whole.
LEMMA ListStep ==
  ASSUME TypeOK, LockHeld, ListedIffRegistered, KeptOthers, Loop, [Next]_vars
  PROVE  ListedIffRegistered' /\ KeptOthers' /\ Loop'
  <1>. USE ClientsAssumption
       DEF TypeOK, LockHeld, ListedIffRegistered, KeptOthers, Loop,
           brokerVars, startVars, listVars, Registered, Unregistered
  <1>. DEFINE Goal == ListedIffRegistered' /\ KeptOthers' /\ Loop'
  <1>1. CASE Publish \/ BrokerStop \/ Take \/ TakeZero
    BY <1>1 DEF Publish, BrokerStop, Take, TakeZero
  <1>2. ASSUME NEW c \in Clients, Peer(c) \/ Write(c) \/ WriteFails(c)
        PROVE Goal
    BY <1>2 DEF Peer, PeerStalls, PeerResumes, PeerBreaks, Write, WriteFails
  <1>3. ASSUME NEW c \in Clients, Upgrade(c) \/ LockToAdd(c) \/ ReadFails(c)
                                  \/ LockToRemove(c) \/ CopyOthers(c)
        PROVE Goal
    <2>1. CASE Upgrade(c)
      BY <2>1 DEF Upgrade
    <2>2. CASE LockToAdd(c)
      BY <2>2 DEF LockToAdd
    <2>3. CASE ReadFails(c)
      BY <2>3 DEF ReadFails
    <2>4. CASE LockToRemove(c)
      BY <2>4 DEF LockToRemove
    <2>5. CASE CopyOthers(c)
      BY <2>5 DEF CopyOthers
    <2>. QED
      BY <1>3, <2>1, <2>2, <2>3, <2>4, <2>5
  <1>4. ASSUME NEW c \in Clients, AppendClient(c)
        PROVE Goal
    BY <1>4 DEF AppendClient
  <1>5. ASSUME NEW c \in Clients, AssignClients(c)
        PROVE Goal
    BY <1>5 DEF AssignClients
  <1>6. CASE LockToNotify \/ NextClient \/ Unlock
    BY <1>6 DEF LockToNotify, NextClient, Unlock
  <1>7. CASE UNCHANGED vars
    BY <1>7 DEF vars
  <1>. QED
    BY <1>1, <1>2, <1>3, <1>4, <1>5, <1>6, <1>7 DEF Next, Start, Goroutine

\* Every client keeps its place in the stream.
LEMMA PositionStep ==
  ASSUME Inv, [Next]_vars
  PROVE  Position'
  <1>. USE ClientsAssumption DEF Inv, TypeOK, brokerVars, startVars, listVars
  <1>. DEFINE Connection(c) == socket[c] \in {"open", "stalled"}
              Early(c) == phase[c] \in Unregistered \ {"done"}
              Kept(c) ==
                IF got[c] = <<>> THEN Owed(c) ELSE Last(c) = Due(c)
  \* A step by which nobody receives anything, and nobody falls behind.
  <1>0. ASSUME UNCHANGED got, current' \in {Blank, taken'},
               clients' \subseteq clients,
               \A c \in Clients : Early(c)' => Early(c),
               \A c \in clients' : Connection(c)' =>
                 Connection(c) /\ Due(c)' = Due(c) /\ (Owed(c) => Owed(c)')
        PROVE  Position'
    BY <1>0 DEF Position, Last
  <1>1. CASE Publish \/ BrokerStop \/ UNCHANGED vars
    <2>1. UNCHANGED <<got, taken, current, pc, toNotify, target, clients,
                      phase, socket>>
      BY <1>1 DEF Publish, BrokerStop, vars
    <2>. QED
      BY <1>0, <2>1 DEF Position, Due, Pending, Owed
  <1>2. ASSUME NEW c \in Clients,
               \/ Peer(c)
               \/ Upgrade(c) \/ LockToAdd(c) \/ ReadFails(c)
               \/ LockToRemove(c) \/ CopyOthers(c)
        PROVE  Position'
    <2>1. /\ UNCHANGED <<taken, current, pc, toNotify, target, got,
                         clients>>
          /\ \A d \in Clients : Connection(d)' => Connection(d)
          /\ \A d \in Clients : Early(d)' => Early(d)
      BY <1>2 DEF Peer, PeerStalls, PeerResumes, PeerBreaks, Upgrade, LockToAdd,
                  ReadFails, LockToRemove, CopyOthers, Registered, Unregistered
    <2>. QED
      BY <1>0, <2>1 DEF Position, Due, Pending, Owed
  <1>3. ASSUME NEW c \in Clients, AppendClient(c) PROVE Position'
    <2>1. /\ UNCHANGED <<taken, current, pc, toNotify, target, got, socket>>
          /\ clients' = clients \cup {c}
          /\ \A d \in Clients : Early(d)' => Early(d)
      BY <1>3 DEF AppendClient, Unregistered
    <2>2. got[c] = <<>>
      BY <1>3 DEF AppendClient, Unregistered, Position
    <2>3. \A d \in Clients : Due(d)' = Due(d) /\ Owed(d)'
      BY <1>3, <2>1 DEF AppendClient, LockHeld, Due, Pending, Owed
    <2>. QED
      BY <2>1, <2>2, <2>3 DEF Position, Last
  <1>4. ASSUME NEW c \in Clients, AssignClients(c) PROVE Position'
    <2>1. clients' \subseteq clients
      BY <1>4 DEF AssignClients, KeptOthers
    <2>2. /\ UNCHANGED <<taken, current, pc, toNotify, target, got,
                         socket>>
          /\ \A d \in Clients : Early(d)' => Early(d)
      BY <1>4 DEF AssignClients, Unregistered
    <2>. QED
      BY <1>0, <2>1, <2>2 DEF Position, Due, Pending, Owed
  <1>5. CASE Take
    <2>1. \A c \in clients : ~Pending(c)
      BY <1>5 DEF Take, Pending
    <2>2. /\ current' = taken' /\ taken' = taken + 1 /\ pc' = "locking"
          /\ UNCHANGED <<clients, socket, got, phase>>
      BY <1>5 DEF Take
    <2>3. \A c \in clients : Due(c) = taken /\ Due(c)' = taken /\ Owed(c)'
      BY <2>1, <2>2 DEF Due, Pending, Owed, Blank
    <2>4. \A c \in Clients : Early(c) => c \notin clients
      BY DEF ListedIffRegistered, Registered, Unregistered
    <2>. QED
      BY <2>2, <2>3, <2>4 DEF Position, Last
  <1>6. CASE TakeZero
    <2>1. /\ current' = Blank /\ pc = "waiting"
          /\ UNCHANGED <<clients, taken, socket, got, phase>>
      BY <1>6 DEF TakeZero
    <2>2. \A c \in clients : Due(c)' = Due(c) /\ Owed(c)'
      BY <1>6, <2>1 DEF TakeZero, Due, Pending, Owed
    <2>. QED
      BY <1>0, <2>1, <2>2
  <1>7. CASE LockToNotify \/ NextClient \/ Unlock
    <2>1. \A c \in clients : Pending(c)' <=> Pending(c)
      BY <1>7 DEF LockToNotify, NextClient, Unlock, Pending, Loop
    <2>2. UNCHANGED <<clients, socket, got, phase, taken, current>>
      BY <1>7 DEF LockToNotify, NextClient, Unlock
    <2>3. \A c \in clients : Owed(c) => Owed(c)'
      <3>1. CASE LockToNotify
        BY <2>1, <2>2, <3>1 DEF LockToNotify, Owed, Pending
      <3>2. CASE NextClient
        BY <2>1, <2>2, <3>2 DEF NextClient, Owed
      <3>3. CASE Unlock
        BY <3>3 DEF Unlock, Owed
      <3>. QED
        BY <1>7, <3>1, <3>2, <3>3
    <2>4. \A c \in clients : Due(c)' = Due(c)
      BY <2>1, <2>2 DEF Due
    <2>. QED
      BY <1>0, <2>2, <2>3, <2>4 DEF Position
  <1>8. ASSUME NEW c \in Clients, Write(c) PROVE Position'
    <2>1. /\ c \in clients /\ pc = "writing" /\ target = c /\ c \notin toNotify
          /\ target' = "nobody"
          /\ UNCHANGED <<clients, socket, phase, taken, current, pc,
                         toNotify>>
      BY <1>8 DEF Write, Loop
    <2>2. \A d \in Clients \ {c} :
            got'[d] = got[d] /\ Due(d)' = Due(d) /\ Owed(d)' = Owed(d)
      BY <1>8, <2>1 DEF Write, Pending, Due, Owed
    <2>3. Connection(c) /\ Due(c)' = taken
      BY <1>8, <2>1 DEF Write, Pending, Due
    <2>4. Kept(c)'
      <3>1. CASE current = Blank
        <4>1. got' = got /\ Due(c) = taken
          BY <1>8, <3>1 DEF Write, Due, Pending
        <4>. QED
          BY <2>1, <2>3, <3>1, <4>1 DEF Position, Last, Owed
      <3>2. CASE current # Blank
        <4>1. got'[c] = Append(got[c], taken) /\ got[c] \in Seq(Nat)
          BY <1>8, <3>2 DEF Write, Position
        <4>2. /\ Len(got'[c]) = Len(got[c]) + 1
              /\ got'[c][Len(got[c]) + 1] = taken
          BY <4>1, taken \in Nat DEF TypeOK
        <4>3. got'[c] # <<>> /\ Last(c)' = taken
          <5>1. Len(got'[c]) # 0
            BY <4>1, <4>2
          <5>2. Last(c)' = taken
            BY <4>2 DEF Last
          <5>. QED
            BY <5>1, <5>2
        <4>. QED
          BY <2>3, <4>3
      <3>. QED
        BY <3>1, <3>2
    <2>5. \A d \in Clients : Early(d) => d # c
      BY <2>1 DEF ListedIffRegistered, Registered, Unregistered
    <2>. QED
      BY <2>1, <2>2, <2>4, <2>5 DEF Position, Last
  <1>9. ASSUME NEW c \in Clients, WriteFails(c) PROVE Position'
    <2>1. /\ ~Connection(c)
          /\ UNCHANGED <<clients, socket, got, phase, taken, current, pc,
                         toNotify>>
          /\ target = c /\ target' = "nobody"
      BY <1>9 DEF WriteFails
    <2>2. \A d \in clients \ {c} : Pending(d)' <=> Pending(d)
      BY <2>1 DEF Pending
    <2>. QED
      BY <1>0, <2>1, <2>2 DEF Position, Due, Owed
  <1>. QED
    BY <1>1, <1>2, <1>3, <1>4, <1>5, <1>6, <1>7, <1>8, <1>9
       DEF Next, Start, Goroutine

\* Every step keeps the invariant.
LEMMA InvStep == Inv /\ [Next]_vars => Inv'
  BY TypeStep, LockStep, ListStep, PositionStep DEF Inv

\* Inv is inductive.
THEOREM Invariant == Spec => []Inv
  BY InvInit, InvStep, PTL DEF Spec

\* The notifier's state keeps its shape.
THEOREM TypeCorrect == Spec => []TypeOK
  <1>1. Inv => TypeOK
    BY DEF Inv
  <1>. QED
    BY <1>1, Invariant, PTL

\* Whatever the interleaving, the list is the set of registered clients.
THEOREM ListIsRight == Spec => []ListedIffRegistered
  <1>1. Inv => ListedIffRegistered
    BY DEF Inv
  <1>. QED
    BY <1>1, Invariant, PTL

\* A client that was removed is never written to again.
THEOREM RemovalIsFinal == Spec => []RemovedForGood
  <1>1. Inv => RemovedForGood
    BY ClientsAssumption
       DEF Inv, TypeOK, ListedIffRegistered, Loop, RemovedForGood, Registered
  <1>. QED
    BY <1>1, Invariant, PTL

\* When a broadcast is over, every connected client on the list has received
\* its event, also as its first.
THEOREM BroadcastsAreComplete == Spec => []CaughtUp
  <1>1. Inv => CaughtUp
    BY ClientsAssumption
       DEF Inv, TypeOK, Position, Due, Pending, Owed, Last, CaughtUp
  <1>. QED
    BY <1>1, Invariant, PTL

-----------------------------------------------------------------------------
(* The stream of events, and that the notifier implements it.                *)

\* The types of the stream.
Shape == published \in Nat /\ got \in [Clients -> Seq(Nat)]

\* Nothing has been received at first.
LEMMA GaplessInit == Stream!Init => Shape /\ Stream!Gapless
  BY DEF Stream!Init, Shape, Stream!Gapless

\* A delivery extends what was received by the next event.
LEMMA GaplessStep ==
  Shape /\ Stream!Gapless /\ [Stream!Next]_Stream!vars =>
    Shape' /\ Stream!Gapless'
  <1>. SUFFICES ASSUME Shape, Stream!Gapless, [Stream!Next]_Stream!vars
                PROVE  Shape' /\ Stream!Gapless'
    OBVIOUS
  <1>1. CASE Stream!Publish
    BY <1>1 DEF Stream!Publish, Shape, Stream!Gapless
  <1>2. ASSUME NEW c \in Clients, Stream!Deliver(c)
        PROVE  Shape' /\ Stream!Gapless'
    <2>1. PICK e \in 1..published :
            /\ Stream!Follows(e, got[c])
            /\ got' = [got EXCEPT ![c] = Append(@, e)]
      BY <1>2 DEF Stream!Deliver
    <2>2. published' = published
      BY <1>2 DEF Stream!Deliver
    <2>3. Shape'
      BY <2>1, <2>2 DEF Shape
    <2>4. ASSUME NEW d \in Clients, d # c PROVE got'[d] = got[d]
      BY <2>1, <2>4 DEF Shape
    <2>5. /\ got'[c] = Append(got[c], e)
          /\ got[c] \in Seq(Nat)
      BY <2>1 DEF Shape
    <2>6. \A i \in 1..Len(got'[c]) : got'[c][i] \in 1..published
      BY <2>5 DEF Stream!Gapless
    <2>7. \A i \in 1..Len(got'[c]) - 1 : got'[c][i + 1] = got'[c][i] + 1
      BY <2>1, <2>5 DEF Stream!Gapless, Stream!Follows
    <2>. QED
      BY <2>2, <2>3, <2>4, <2>6, <2>7 DEF Stream!Gapless
  <1>3. CASE UNCHANGED Stream!vars
    BY <1>3 DEF Stream!vars, Shape, Stream!Gapless
  <1>. QED
    BY <1>1, <1>2, <1>3 DEF Stream!Next

\* Whatever is published and however late a client connects, what it has
\* received is a gap-free, ordered part of the stream.
THEOREM StreamIsGapless == Stream!Spec => []Stream!Gapless
  BY GaplessInit, GaplessStep, PTL DEF Stream!Spec

\* The notifier starts as the stream does.
LEMMA StreamInit == Init => Stream!Init
  BY DEF Init, Stream!Init

\* A write to a connected client delivers the next event; nothing else does.
LEMMA StreamStep ==
  ASSUME Inv, [Next]_vars
  PROVE  [Stream!Next]_Stream!vars
  <1>. USE DEF brokerVars, startVars, listVars, Stream!vars
  <1>1. CASE Publish
    BY <1>1 DEF Publish, Stream!Next, Stream!Publish
  <1>2. ASSUME NEW c \in Clients, Write(c), current # Blank
        PROVE  Stream!Deliver(c)
    <2>1. /\ c \in clients /\ pc = "writing" /\ Pending(c)
          /\ socket[c] = "open" /\ current = taken
      BY <1>2, ClientsAssumption DEF Write, Inv, Loop, Position, Pending
    <2>2. current \in 1..published /\ published' = published
      BY <1>2 DEF Write, Inv, TypeOK
    <2>3. Stream!Follows(current, got[c])
      BY <2>1, <2>2 DEF Inv, Position, Due, Last, TypeOK, Stream!Follows
    <2>4. got' = [got EXCEPT ![c] = Append(@, current)]
      BY <1>2 DEF Write
    <2>. QED
      BY <2>2, <2>3, <2>4 DEF Stream!Deliver
  <1>3. ASSUME NEW c \in Clients, Write(c), current = Blank
        PROVE  UNCHANGED <<published, got>>
    BY <1>3 DEF Write
  <1>4. ASSUME NEW c \in Clients, Peer(c) \/ Goroutine(c) \/ WriteFails(c)
        PROVE  UNCHANGED <<published, got>>
    BY <1>4 DEF Peer, PeerStalls, PeerResumes, PeerBreaks, Goroutine, Upgrade,
         LockToAdd, AppendClient, ReadFails, LockToRemove, CopyOthers,
         AssignClients, WriteFails
  <1>5. ASSUME \/ BrokerStop \/ Take \/ TakeZero \/ LockToNotify
               \/ NextClient \/ Unlock \/ UNCHANGED vars
        PROVE  UNCHANGED <<published, got>>
    BY <1>5 DEF BrokerStop, Take, TakeZero, LockToNotify, NextClient, Unlock,
         vars
  <1>. QED
    BY <1>1, <1>2, <1>3, <1>4, <1>5 DEF Next, Start, Stream!Next

\* The notifier implements the stream of events it promises.
THEOREM NotifierImplementsStream == Spec => ImplementsStream
  BY StreamInit, StreamStep, Invariant, PTL
     DEF Spec, ImplementsStream, Stream!Spec

\* So no client ever misses, repeats or reorders an event while connected.
THEOREM NotifierIsGapless == Spec => []Stream!Gapless
  BY NotifierImplementsStream, StreamIsGapless, PTL
     DEF ImplementsStream

=============================================================================

--------------------------- MODULE MessagingProofs ---------------------------
(***************************************************************************)
(* Proofs about Messaging, for any number of users, channels, messages and *)
(* concurrent requests, with or without database errors, RabbitMQ stops    *)
(* and crashes.                                                            *)
(***************************************************************************)
EXTENDS Messaging, TLAPS

Posts == {"postChannel", "postMessage"}
Edits == {"patchChannel", "patchMessage", "deleteMessage"}

\* An operation is only ever in a phase its handler has, and works on an
\* identifier of its own collection.
Kinds ==
  \A r \in Requests :
    LET q == req[r] IN
    /\ q.pc \in {"find", "check"} => q.op \in Edits \cup {"deleteChannel"}
    /\ q.pc \in {"write", "reply"} => q.op \in Posts \cup Edits
    /\ Active(r) => IF q.op \in {"postMessage", "patchMessage", "deleteMessage"}
                    THEN q.id \in Messages ELSE q.id \in Channels
    /\ q.pc = "write" /\ q.op \in Posts => q.text \in Texts

\* r waits for MongoDB to insert a document.
Inserting(r) == req[r].pc = "write" /\ req[r].op \in Posts

\* Nobody else can name the identifier of an insert that is under way.
NewIds ==
  \A r \in Requests :
    Inserting(r) =>
      /\ docs[req[r].id] = Unborn
      /\ \A s \in Requests : Inserting(s) /\ s # r => req[s].id # req[r].id

\* Everything else works on identifiers that have been inserted.
Born ==
  /\ \A r \in Requests :
       /\ Active(r) /\ ~Inserting(r) => docs[req[r].id] # Unborn
       /\ req[r].pc = "reply" /\ req[r].op = "deleteMessage"
            => docs[req[r].id] = Gone
  /\ \A b \in background : docs[b.id] # Unborn

\* The copy a lookup returned may be stale, but not in its creator.
SeenCreator ==
  \A r \in Requests :
    LET q == req[r] IN
    q.pc = "check" /\ q.seen # Null /\ Stored(q.id) =>
      q.seen.creator = docs[q.id].creator

\* The inductive invariant.
Inv ==
  /\ TypeOK
  /\ Kinds
  /\ NewIds
  /\ Born
  /\ SeenCreator
  /\ OnlyCreatorWrites
  /\ AnnouncedAfterCommit

-----------------------------------------------------------------------------
(* What one step does to a document. *)

Monotone ==
  \A d \in Ids :
    /\ docs[d] = Gone => docs'[d] = Gone
    /\ docs[d] # Unborn => docs'[d] # Unborn
    /\ Stored(d) /\ Stored(d)' =>
         /\ docs'[d].creator = docs[d].creator
         /\ docs'[d].channel = docs[d].channel


\* Nothing a step does brings a deleted document back or makes a stored one
\* change hands.
LEMMA DocsStep ==
  ASSUME TypeOK, Kinds, NewIds, [Next]_vars
  PROVE  Monotone
  <1>. USE ConstantsDistinct DEF TypeOK, Monotone, Stored, Reqs, Ids
  <1>1. ASSUME NEW r \in Requests, Insert(r) PROVE Monotone
    BY <1>1 DEF Insert, NewIds, Inserting, At, Posts, Kinds, Active
  <1>2. ASSUME NEW r \in Requests, Update(r) PROVE Monotone
    BY <1>2 DEF Update, Updated, At, Kinds, Active, Doc
  <1>3. ASSUME NEW r \in Requests, Delete(r) PROVE Monotone
    BY <1>3 DEF Delete, At, Kinds, Active
  <1>4. ASSUME NEW b \in Deletions, RunDeletion(b) PROVE Monotone
    BY <1>4 DEF RunDeletion, DeleteAll, DeleteChannelDoc, Deletions
  <1>5. CASE Restart
    BY <1>5 DEF Restart, Fresh
  <1>6. CASE UNCHANGED docs
    BY <1>6
  <1>. QED
    BY <1>1, <1>2, <1>3, <1>4, <1>5, <1>6
       DEF Next, vars, Arrive, PostChannel,
           PostMessage, PatchChannel, DeleteChannel, PatchMessage,
           DeleteMessage, Begin, Advance, FindOne, Refuse, Throw, Proceed,
           ProceedDeleteChannel, Reply, CallFails, BackgroundFails, Consume,
           BrokerStop


\* What Move leaves alone.
LEMMA MoveReq ==
  ASSUME TypeOK, NEW r \in Requests, NEW pc \in Phases,
         NEW seen \in Doc \cup {Null}, Move(r, pc, seen)
  PROVE  /\ req' \in [Requests -> Reqs]
         /\ \A s \in Requests \ {r} : req'[s] = req[s]
         /\ req'[r].pc = pc /\ req'[r].seen = seen
         /\ req'[r].op = req[r].op /\ req'[r].user = req[r].user
         /\ req'[r].id = req[r].id /\ req'[r].text = req[r].text
         /\ req'[r].channel = req[r].channel
  <1>. DEFINE q == [req[r] EXCEPT !.pc = pc, !.seen = seen]
  <1>1. /\ q \in Reqs
        /\ q.pc = pc /\ q.seen = seen /\ q.op = req[r].op
        /\ q.user = req[r].user /\ q.id = req[r].id /\ q.text = req[r].text
        /\ q.channel = req[r].channel
    BY DEF TypeOK, Reqs
  <1>2. req' = [req EXCEPT ![r] = q]
    BY DEF Move
  <1>. HIDE DEF q
  <1>. QED
    BY <1>1, <1>2 DEF TypeOK

\* What a reply publishes is an event.
LEMMA EventOfType ==
  ASSUME TypeOK, Kinds, NEW r \in Requests, At(r, "reply")
  PROVE  EventOf(req[r]) \in Events
  <1>. DEFINE q == req[r]
  <1>1. q \in Reqs /\ q.op \in Posts \cup Edits /\ q.id \in Ids
    BY DEF TypeOK, Kinds, At, Ids, Active, Posts, Edits
  <1>. QED
    BY <1>1 DEF EventOf, Event, Events, EventTypes, Reqs, Posts, Edits


\* What a write returns to its handler.
LEMMA WriteReturns ==
  ASSUME TypeOK, Kinds, NEW r \in Requests,
         Insert(r) \/ Update(r) \/ Delete(r)
  PROVE  \E seen \in Doc \cup {Null} : Move(r, "reply", seen)
  <1>. USE DEF TypeOK, At, Kinds, Active
  <1>1. CASE Insert(r)
    <2>1. [creator |-> req[r].user, text |-> req[r].text,
           channel |-> req[r].channel] \in Doc
      BY <1>1 DEF Insert, Posts, Doc, Reqs
    <2>. QED
      BY <1>1, <2>1 DEF Insert
  <1>2. CASE Update(r)
    <2>1. Stored(req[r].id) => Updated(req[r].id, req[r].text) \in Doc
      BY <1>2 DEF Update, Updated, Stored, Doc, Reqs, Ids
    <2>. QED
      BY <1>2, <2>1 DEF Update
  <1>3. CASE Delete(r)
    BY <1>3 DEF Delete
  <1>. QED
    BY <1>1, <1>2, <1>3

\* What a lookup returns to its handler.
LEMMA FoundType ==
  ASSUME TypeOK, NEW d \in Ids
  PROVE  Found(d) \in Doc \cup {Null}
  BY DEF Found, Stored, TypeOK

\* Every step keeps the types.
LEMMA TypeStep ==
  ASSUME TypeOK, Kinds, [Next]_vars
  PROVE  TypeOK'
  <1>. USE ConstantsDistinct DEF TypeOK, At
  <1>1. ASSUME NEW r \in Requests, Arrive(r) PROVE TypeOK'
    BY <1>1 DEF Arrive, PostChannel, PostMessage,
         PatchChannel, DeleteChannel, PatchMessage, DeleteMessage, Begin,
         Reqs, Phases, Ids, Texts
  <1>2. ASSUME NEW r \in Requests, FindOne(r) PROVE TypeOK'
    <2>1. Found(req[r].id) \in Doc \cup {Null}
      BY <1>2 DEF FindOne, Found, Stored, Ids, Kinds, Active
    <2>. QED
      BY <1>2, <2>1, MoveReq DEF FindOne, Phases
  <1>3. ASSUME NEW r \in Requests,
               Refuse(r) \/ Throw(r) \/ CallFails(r)
        PROVE  TypeOK'
    BY <1>3 DEF Refuse, Throw, CallFails, Answered, Unanswered, NoRequest,
              Reqs, Phases
  <1>4. ASSUME NEW r \in Requests, Proceed(r) PROVE TypeOK'
    BY <1>4, MoveReq DEF Proceed, Phases
  <1>5. ASSUME NEW r \in Requests, ProceedDeleteChannel(r) PROVE TypeOK'
    <2>. DEFINE q == req[r]
    <2>1. q.id \in Channels /\ q.user \in Users
      BY <1>5 DEF ProceedDeleteChannel, Kinds, Active, Verdict,
           DeleteChannelVerdict, Reqs
    <2>2. background' \in SUBSET Deletions
      BY <1>5, <2>1 DEF ProceedDeleteChannel, Deletion, Deletions
    <2>3. Event("channel-delete", q.id, Null) \in Events
      BY <2>1 DEF Event, Events, EventTypes, Ids
    <2>4. queue' \in Seq(Events) /\ mqChannel' \in {"open", "closed"}
      BY <1>5, <2>3 DEF ProceedDeleteChannel, SendToMQ
    <2>5. req' \in [Requests -> Reqs] /\ docs' = docs
      BY <1>5 DEF ProceedDeleteChannel, Answered, NoRequest, Reqs, Phases
    <2>. QED
      BY <2>2, <2>4, <2>5
  <1>6. ASSUME NEW r \in Requests, Insert(r) PROVE TypeOK'
    <2>. DEFINE q   == req[r]
                doc == [creator |-> q.user, text |-> q.text,
                        channel |-> q.channel]
    <2>1. q.id \in Ids /\ doc \in Doc
      BY <1>6 DEF Insert, Kinds, Active, Posts, Doc, Reqs, Ids
    <2>. QED
      BY <1>6, <2>1, MoveReq DEF Insert, Phases
  <1>7. ASSUME NEW r \in Requests, Update(r) PROVE TypeOK'
    <2>. DEFINE q == req[r]
    <2>1. q.id \in Ids /\ docs[q.id] \in Doc \cup {Unborn, Gone}
      BY <1>7 DEF Update, Kinds, Active, Ids
    <2>2. q.text \in Texts \cup {Null}
      BY DEF Reqs
    <2>3. Stored(q.id) => docs[q.id] \in Doc /\ Updated(q.id, q.text) \in Doc
      BY <2>1, <2>2 DEF Updated, Stored, Doc
    <2>4. Updated(q.id, q.text) \in Doc \cup {Unborn, Gone}
      BY <2>1, <2>3 DEF Updated
    <2>5. req' \in [Requests -> Reqs]
      BY <1>7, <2>3, MoveReq DEF Update, Phases
    <2>. QED
      BY <1>7, <2>1, <2>4, <2>5 DEF Update
  <1>8. ASSUME NEW r \in Requests, Delete(r) PROVE TypeOK'
    BY <1>8, MoveReq DEF Delete, Phases
  <1>9. ASSUME NEW r \in Requests, Reply(r) PROVE TypeOK'
    <2>1. EventOf(req[r]) \in Events
      BY <1>9, EventOfType DEF Reply
    <2>2. queue' \in Seq(Events) /\ mqChannel' \in {"open", "closed"}
      BY <1>9, <2>1 DEF Reply, SendToMQ
    <2>3. req' \in [Requests -> Reqs]
      BY <1>9 DEF Reply, Answered, NoRequest, Reqs, Phases
    <2>. QED
      BY <1>9, <2>2, <2>3 DEF Reply
  <1>10. ASSUME NEW b \in Deletions, RunDeletion(b) PROVE TypeOK'
    BY <1>10 DEF RunDeletion, DeleteAll, DeleteChannelDoc
  <1>11. ASSUME NEW b \in Deletions, BackgroundFails(b) PROVE TypeOK'
    BY <1>11 DEF BackgroundFails
  <1>12. CASE Consume
    BY <1>12 DEF Consume
  <1>13. CASE BrokerStop
    BY <1>13 DEF BrokerStop
  <1>14. CASE Restart
    <2>1. req' \in [Requests -> Reqs]
      BY <1>14 DEF Restart, Unanswered, NoRequest, Reqs, Phases
    <2>2. docs' \in [Ids -> Doc \cup {Unborn, Gone}]
      BY <1>14 DEF Restart, DefaultChannel, Doc, Ids, Texts
    <2>. QED
      BY <1>14, <2>1, <2>2 DEF Restart
  <1>15. CASE UNCHANGED vars
    BY <1>15 DEF vars
  <1>. QED
    BY <1>1, <1>2, <1>3, <1>4, <1>5, <1>6, <1>7, <1>8, <1>9, <1>10, <1>11,
       <1>12, <1>13, <1>14, <1>15
       DEF Next, Advance

\* The state of a request that has just arrived.
LEMMA BeginReq ==
  ASSUME TypeOK, NEW r \in Requests, NEW pc, NEW op, NEW u, NEW id, NEW c,
         NEW text, Begin(r, pc, op, u, id, c, text)
  PROVE  /\ UNCHANGED <<docs, background, queue, mqChannel>>
         /\ \A s \in Requests \ {r} : req'[s] = req[s]
         /\ ~Active(r)
         /\ req'[r].pc = pc /\ req'[r].op = op
         /\ req'[r].id = id /\ req'[r].text = text
         /\ req'[r].user = u /\ req'[r].channel = c /\ req'[r].seen = Null
  BY DEF Begin, MayStart, TypeOK

\* The requests that arrive, and what their handlers do at once.
LEMMA ArriveReq ==
  ASSUME TypeOK, NEW r \in Requests, Arrive(r)
  PROVE  /\ UNCHANGED <<docs, background, queue, mqChannel>>
         /\ \A s \in Requests \ {r} : req'[s] = req[s]
         /\ ~Active(r)
         /\ LET q == req'[r] IN
            \/ /\ q.pc = "write"
               /\ \/ q.op = "postChannel" /\ q.id \in Channels
                  \/ q.op = "postMessage" /\ q.id \in Messages
               /\ q.text \in Texts
               /\ Fresh(q.id)
            \/ /\ q.pc = "find"
               /\ \/ q.op \in {"patchChannel", "deleteChannel"}
                     /\ q.id \in Channels
                  \/ q.op \in {"patchMessage", "deleteMessage"}
                     /\ q.id \in Messages
               /\ docs[q.id] # Unborn
  <1>1. ASSUME NEW u, PostChannel(r, u) \/ PostMessage(r, u)
        PROVE  /\ UNCHANGED <<docs, background, queue, mqChannel>>
               /\ \A s \in Requests \ {r} : req'[s] = req[s]
               /\ ~Active(r)
               /\ LET q == req'[r] IN
                  /\ q.pc = "write"
                  /\ \/ q.op = "postChannel" /\ q.id \in Channels
                     \/ q.op = "postMessage" /\ q.id \in Messages
                  /\ q.text \in Texts
                  /\ Fresh(q.id)
    BY <1>1, BeginReq DEF PostChannel, PostMessage, Texts
  <1>2. ASSUME NEW u, PatchChannel(r, u) \/ DeleteChannel(r, u)
                      \/ PatchMessage(r, u) \/ DeleteMessage(r, u)
        PROVE  /\ UNCHANGED <<docs, background, queue, mqChannel>>
               /\ \A s \in Requests \ {r} : req'[s] = req[s]
               /\ ~Active(r)
               /\ LET q == req'[r] IN
                  /\ q.pc = "find"
                  /\ \/ q.op \in {"patchChannel", "deleteChannel"}
                        /\ q.id \in Channels
                     \/ q.op \in {"patchMessage", "deleteMessage"}
                        /\ q.id \in Messages
                  /\ docs[q.id] # Unborn
    BY <1>2, BeginReq
       DEF PatchChannel, DeleteChannel, PatchMessage, DeleteMessage
  <1>. QED
    BY <1>1, <1>2 DEF Arrive

\* Every step keeps operations in their phases.
LEMMA KindsStep ==
  ASSUME TypeOK, Kinds, [Next]_vars
  PROVE  Kinds'
  <1>. USE DEF Kinds, At, Active, Posts, Edits
  <1>1. ASSUME NEW r \in Requests, Arrive(r) PROVE Kinds'
    BY <1>1, ArriveReq, ConstantsDistinct
  <1>2. ASSUME NEW r \in Requests, FindOne(r) PROVE Kinds'
    <2>1. Found(req[r].id) \in Doc \cup {Null}
      BY <1>2 DEF FindOne, Found, Stored, Ids, TypeOK
    <2>. QED
      BY <1>2, <2>1, MoveReq, ConstantsDistinct DEF FindOne, Phases
  <1>3. ASSUME NEW r \in Requests,
               Refuse(r) \/ Throw(r) \/ CallFails(r)
                 \/ ProceedDeleteChannel(r) \/ Reply(r)
        PROVE  Kinds'
    BY <1>3 DEF Refuse, Throw, CallFails, ProceedDeleteChannel, Reply, Answered,
                Unanswered, NoRequest, TypeOK
  <1>4. ASSUME NEW r \in Requests, Proceed(r) PROVE Kinds'
    BY <1>4, MoveReq DEF Proceed, Phases
  <1>5. ASSUME NEW r \in Requests, Insert(r) \/ Update(r) \/ Delete(r)
        PROVE  Kinds'
    <2>1. PICK seen \in Doc \cup {Null} : Move(r, "reply", seen)
      BY <1>5, WriteReturns
    <2>. QED
      BY <1>5, <2>1, MoveReq DEF Insert, Update, Delete, Phases
  <1>6. CASE UNCHANGED req
    BY <1>6
  <1>7. CASE Restart
    BY <1>7 DEF Restart, Unanswered, NoRequest, TypeOK
  <1>. QED
    BY <1>1, <1>2, <1>3, <1>4, <1>5, <1>6, <1>7
       DEF Next, Advance, RunDeletion, DeleteAll, DeleteChannelDoc,
           BackgroundFails, Consume, BrokerStop, vars

\* The actions that end a request leave the others and the documents alone.
LEMMA EndReq ==
  ASSUME TypeOK, NEW r \in Requests,
         \/ Refuse(r) \/ Throw(r) \/ CallFails(r)
         \/ ProceedDeleteChannel(r) \/ Reply(r)
  PROVE  /\ docs' = docs
         /\ \A s \in Requests \ {r} : req'[s] = req[s]
         /\ req'[r].pc = "idle"
  BY DEF Refuse, Throw, CallFails, ProceedDeleteChannel, Reply, Answered,
         Unanswered, NoRequest, TypeOK

\* The actions that issue or answer a lookup.
LEMMA MoveOn ==
  ASSUME TypeOK, Kinds, NEW r \in Requests, FindOne(r) \/ Proceed(r)
  PROVE  /\ UNCHANGED <<docs, background, queue, mqChannel>>
         /\ \E pc \in {"check", "write"}, seen \in Doc \cup {Null} :
              Move(r, pc, seen)
  <1>1. CASE FindOne(r)
    <2>1. Found(req[r].id) \in Doc \cup {Null}
      BY <1>1, FoundType DEF FindOne, At, Kinds, Active, Ids
    <2>. QED
      BY <1>1, <2>1 DEF FindOne
  <1>2. CASE Proceed(r)
    BY <1>2 DEF Proceed
  <1>. QED
    BY <1>1, <1>2

\* A restart ends every request.
LEMMA RestartReq ==
  ASSUME TypeOK, Restart
  PROVE  /\ background' \subseteq background
         /\ \A r \in Requests : req'[r].pc = "idle"
         /\ UNCHANGED queue
  BY DEF Restart, Unanswered, NoRequest, Active, TypeOK, Reqs, Phases

\* Every insert keeps its identifier to itself.
LEMMA NewIdsStep ==
  ASSUME Inv, [Next]_vars
  PROVE  NewIds'
  <1>. USE DEF Inv, NewIds, Inserting
  <1>1. ASSUME NEW r \in Requests, Arrive(r) PROVE NewIds'
    BY <1>1, ArriveReq DEF Fresh, Posts
  <1>2. ASSUME NEW r \in Requests, FindOne(r) PROVE NewIds'
    BY <1>2, MoveReq, FoundType DEF FindOne, Phases, At, Kinds, Active, Ids
  <1>3. ASSUME NEW r \in Requests, Proceed(r) PROVE NewIds'
    BY <1>3, MoveReq DEF Proceed, Phases, At, Kinds, Posts, Edits
  <1>4. ASSUME NEW r \in Requests,
               \/ Refuse(r) \/ Throw(r) \/ CallFails(r)
               \/ ProceedDeleteChannel(r) \/ Reply(r)
        PROVE  NewIds'
    BY <1>4, EndReq
  <1>5. ASSUME NEW r \in Requests, Insert(r) \/ Update(r) \/ Delete(r)
        PROVE  NewIds'
    <2>1. PICK seen \in Doc \cup {Null} : Move(r, "reply", seen)
      BY <1>5, WriteReturns
    <2>2. /\ \A s \in Requests \ {r} : req'[s] = req[s]
          /\ ~Inserting(r)'
      BY <2>1, MoveReq DEF Phases
    <2>3. \A d \in Ids : d # req[r].id => docs'[d] = docs[d]
      BY <1>5 DEF Insert, Update, Delete, TypeOK
    <2>4. \A s \in Requests \ {r} : Inserting(s) => req[s].id # req[r].id
      BY <1>5 DEF Insert, Update, Delete, Born, At, Active, Posts
    <2>5. \A s \in Requests : Inserting(s) => req[s].id \in Ids
      BY DEF Kinds, Active, Ids
    <2>. QED
      BY <2>2, <2>3, <2>4, <2>5
  <1>6. ASSUME NEW b \in Deletions, RunDeletion(b) PROVE NewIds'
    <2>1. UNCHANGED req /\ docs[b.id] # Unborn
      BY <1>6 DEF RunDeletion, DeleteAll, DeleteChannelDoc, Born
    <2>2. \A d \in Ids : docs[d] = Unborn => docs'[d] = Unborn
      BY <1>6, <2>1 DEF RunDeletion, DeleteAll, DeleteChannelDoc, Stored, TypeOK
    <2>3. \A s \in Requests : Inserting(s) => req[s].id \in Ids
      BY DEF Kinds, Active, Ids
    <2>. QED
      BY <2>1, <2>2, <2>3
  <1>7. CASE Restart
    BY <1>7, RestartReq
  <1>8. CASE UNCHANGED <<docs, req>>
    BY <1>8
  <1>. QED
    BY <1>1, <1>2, <1>3, <1>4, <1>5, <1>6, <1>7, <1>8
       DEF Next, Advance, BackgroundFails, Consume, BrokerStop, vars

\* Every other operation works on a document that was inserted.
LEMMA BornStep ==
  ASSUME Inv, [Next]_vars
  PROVE  Born'
  <1>. USE DEF Inv, Born, Inserting, Active
  <1>a. \A d \in Ids : /\ docs[d] # Unborn => docs'[d] # Unborn
                       /\ docs[d] = Gone => docs'[d] = Gone
    BY DocsStep DEF Monotone
  <1>b. /\ \A s \in Requests : Active(s) => req[s].id \in Ids
        /\ \A b \in background : b.id \in Ids
    BY DEF Kinds, Ids, TypeOK, Deletions
  <1>1. ASSUME NEW r \in Requests, Arrive(r) PROVE Born'
    BY <1>1, ArriveReq DEF Posts
  <1>2. ASSUME NEW r \in Requests, FindOne(r) PROVE Born'
    BY <1>2, <1>b, MoveReq, FoundType DEF FindOne, Phases, At
  <1>3. ASSUME NEW r \in Requests, Proceed(r) PROVE Born'
    BY <1>3, MoveReq DEF Proceed, Phases, At
  <1>4. ASSUME NEW r \in Requests,
               \/ Refuse(r) \/ Throw(r) \/ CallFails(r)
               \/ ProceedDeleteChannel(r) \/ Reply(r)
        PROVE  Born'
    <2>1. background' \subseteq background \/ ProceedDeleteChannel(r)
      BY <1>4 DEF Refuse, Throw, CallFails, Reply
    <2>2. ProceedDeleteChannel(r) =>
            \A b \in background' : b \in background \/ b.id = req[r].id
      BY DEF ProceedDeleteChannel, Deletion
    <2>3. ProceedDeleteChannel(r) => docs[req[r].id] # Unborn
      BY DEF ProceedDeleteChannel, At
    <2>. QED
      BY <1>4, <2>1, <2>2, <2>3, EndReq
  <1>5. ASSUME NEW r \in Requests, Insert(r) \/ Update(r) \/ Delete(r)
        PROVE  Born'
    <2>1. PICK seen \in Doc \cup {Null} : Move(r, "reply", seen)
      BY <1>5, WriteReturns
    <2>2. /\ \A s \in Requests \ {r} : req'[s] = req[s]
          /\ req'[r].pc = "reply" /\ req'[r].id = req[r].id
          /\ req'[r].op = req[r].op
      BY <2>1, MoveReq DEF Phases
    <2>3. docs'[req[r].id] # Unborn
      <3>1. CASE Insert(r)
        BY <3>1, <1>b, ConstantsDistinct
           DEF Insert, TypeOK, At, Kinds, Doc, Reqs, Posts
      <3>2. CASE Update(r) \/ Delete(r)
        BY <3>2, <1>b, <1>a DEF Update, Delete, At, Posts
      <3>. QED
        BY <1>5, <3>1, <3>2
    <2>4. req[r].op = "deleteMessage" => docs'[req[r].id] = Gone
      BY <1>5, <1>b DEF Insert, Update, Delete, At, TypeOK
    <2>5. UNCHANGED background
      BY <1>5 DEF Insert, Update, Delete
    <2>. QED
      BY <2>2, <2>3, <2>4, <2>5, <1>a, <1>b
  <1>6. CASE UNCHANGED req /\ background' \subseteq background
    BY <1>6, <1>a, <1>b
  <1>7. CASE Restart
    BY <1>7, <1>a, <1>b, RestartReq
  <1>. QED
    BY <1>1, <1>2, <1>3, <1>4, <1>5, <1>6, <1>7
       DEF Next, Advance, RunDeletion, DeleteAll, DeleteChannelDoc,
           BackgroundFails, Consume, BrokerStop, vars

\* The creator a lookup returned stays the creator.
LEMMA SeenCreatorStep ==
  ASSUME Inv, [Next]_vars
  PROVE  SeenCreator'
  <1>. USE DEF Inv, SeenCreator
  <1>. DEFINE Agrees(s) ==
         req[s].pc = "check" /\ req[s].seen # Null /\ Stored(req[s].id) =>
           req[s].seen.creator = docs[req[s].id].creator
  <1>a. \A d \in Ids : /\ docs[d] # Unborn => docs'[d] # Unborn
                       /\ docs[d] = Gone => docs'[d] = Gone
                       /\ Stored(d) /\ Stored(d)' =>
                            docs'[d].creator = docs[d].creator
    BY DocsStep DEF Monotone
  <1>b. \A s \in Requests :
          req[s].pc = "check" =>
            req[s].id \in Ids /\ docs[req[s].id] # Unborn
    BY DEF Kinds, Born, Inserting, Active, Ids
  <1>c. ASSUME NEW s \in Requests, req'[s] = req[s] PROVE Agrees(s)'
    BY <1>a, <1>b, <1>c DEF Stored
  <1>1. ASSUME NEW r \in Requests, Arrive(r) PROVE SeenCreator'
    BY <1>1, <1>c, ArriveReq
  <1>2. ASSUME NEW r \in Requests, FindOne(r) PROVE SeenCreator'
    <2>1. req[r].id \in Ids
      BY <1>2 DEF FindOne, At, Kinds, Active, Ids
    <2>2. /\ \A s \in Requests \ {r} : req'[s] = req[s]
          /\ req'[r].seen = Found(req[r].id) /\ req'[r].id = req[r].id
          /\ docs' = docs
      BY <1>2, <2>1, MoveReq, FoundType DEF FindOne, Phases
    <2>. QED
      BY <1>c, <2>2 DEF Found, Stored
  <1>3. ASSUME NEW r \in Requests, Proceed(r) PROVE SeenCreator'
    BY <1>3, <1>c, MoveReq DEF Proceed, Phases
  <1>4. ASSUME NEW r \in Requests,
               \/ Refuse(r) \/ Throw(r) \/ CallFails(r)
               \/ ProceedDeleteChannel(r) \/ Reply(r)
        PROVE  SeenCreator'
    BY <1>4, <1>c, EndReq
  <1>5. ASSUME NEW r \in Requests, Insert(r) \/ Update(r) \/ Delete(r)
        PROVE  SeenCreator'
    <2>1. PICK seen \in Doc \cup {Null} : Move(r, "reply", seen)
      BY <1>5, WriteReturns
    <2>. QED
      BY <1>c, <2>1, MoveReq DEF Phases
  <1>6. CASE UNCHANGED req
    BY <1>6, <1>c
  <1>7. CASE Restart
    BY <1>7, RestartReq
  <1>. QED
    BY <1>1, <1>2, <1>3, <1>4, <1>5, <1>6, <1>7
       DEF Next, Advance, RunDeletion, DeleteAll, DeleteChannelDoc,
           BackgroundFails, Consume, BrokerStop, vars

\* The right to write, once checked, is not lost before the write.
LEMMA OnlyCreatorStep ==
  ASSUME Inv, [Next]_vars
  PROVE  OnlyCreatorWrites'
  <1>. USE DEF Inv, OnlyCreatorWrites
  <1>. DEFINE May(s) == LET q == req[s] IN
                (/\ q.pc = "write"
                 /\ q.op \in {"patchChannel", "patchMessage", "deleteMessage"}
                 /\ Stored(q.id))
                => \/ docs[q.id].creator = q.user
                   \/ q.op = "patchChannel" /\ docs[q.id].creator = Nobody
              MayDelete(b) == Stored(b.id) => docs[b.id].creator = b.user
  <1>a. \A d \in Ids : /\ docs[d] # Unborn => docs'[d] # Unborn
                       /\ docs[d] = Gone => docs'[d] = Gone
                       /\ Stored(d) /\ Stored(d)' =>
                            docs'[d].creator = docs[d].creator
    BY DocsStep DEF Monotone
  <1>b. ASSUME NEW s \in Requests, req'[s] = req[s] PROVE May(s)'
    <2>1. req[s].pc = "write" /\ req[s].op \in Edits =>
            req[s].id \in Ids /\ docs[req[s].id] # Unborn
      BY DEF Kinds, Born, Inserting, Active, Ids, Posts, Edits
    <2>. QED
      BY <1>a, <1>b, <2>1 DEF Stored, Edits
  <1>c. ASSUME NEW b \in background PROVE MayDelete(b)'
    <2>1. b.id \in Ids /\ docs[b.id] # Unborn
      BY DEF Born, TypeOK, Deletions, Ids
    <2>. QED
      BY <1>a, <2>1 DEF Stored
  <1>1. ASSUME NEW r \in Requests, Arrive(r) PROVE OnlyCreatorWrites'
    BY <1>1, <1>b, <1>c, ArriveReq
  <1>2. ASSUME NEW r \in Requests, FindOne(r) PROVE OnlyCreatorWrites'
    <2>1. /\ \A s \in Requests \ {r} : req'[s] = req[s]
          /\ req'[r].pc = "check" /\ UNCHANGED background
      BY <1>2, MoveReq, FoundType DEF FindOne, Phases, At, Kinds, Active, Ids
    <2>. QED
      BY <1>b, <1>c, <2>1
  <1>3. ASSUME NEW r \in Requests, Proceed(r) PROVE OnlyCreatorWrites'
    <2>1. /\ \A s \in Requests \ {r} : req'[s] = req[s]
          /\ req'[r].op = req[r].op /\ req'[r].id = req[r].id
          /\ req'[r].user = req[r].user
          /\ UNCHANGED <<docs, background>>
      BY <1>3, MoveReq DEF Proceed, Phases
    <2>2. Stored(req[r].id) =>
            \/ docs[req[r].id].creator = req[r].user
            \/ req[r].op = "patchChannel" /\ docs[req[r].id].creator = Nobody
      BY <1>3 DEF Proceed, At, Verdict, PatchChannelVerdict, MessageVerdict,
                  Kinds, Edits, SeenCreator
    <2>3. May(r)'
      BY <2>1, <2>2 DEF Stored
    <2>. QED
      BY <1>b, <1>c, <2>1, <2>3
  <1>4. ASSUME NEW r \in Requests,
               Refuse(r) \/ Throw(r) \/ CallFails(r) \/ Reply(r)
        PROVE  OnlyCreatorWrites'
    <2>1. UNCHANGED background
      BY <1>4 DEF Refuse, Throw, CallFails, Reply
    <2>. QED
      BY <1>4, <1>b, <1>c, <2>1, EndReq
  <1>5. ASSUME NEW r \in Requests, ProceedDeleteChannel(r)
        PROVE  OnlyCreatorWrites'
    <2>1. ASSUME NEW b \in background', b \notin background
          PROVE  b.id = req[r].id /\ b.user = req[r].user
      BY <1>5, <2>1 DEF ProceedDeleteChannel, Deletion
    <2>2. Stored(req[r].id) => docs[req[r].id].creator = req[r].user
      BY <1>5 DEF ProceedDeleteChannel, At, Verdict, DeleteChannelVerdict,
                  SeenCreator
    <2>3. \A b \in background' : MayDelete(b)'
      BY <1>5, <1>c, <2>1, <2>2, EndReq DEF Stored
    <2>. QED
      BY <1>5, <1>b, <2>3, EndReq
  <1>6. ASSUME NEW r \in Requests, Insert(r) \/ Update(r) \/ Delete(r)
        PROVE  OnlyCreatorWrites'
    <2>1. PICK seen \in Doc \cup {Null} : Move(r, "reply", seen)
      BY <1>6, WriteReturns
    <2>2. UNCHANGED background
      BY <1>6 DEF Insert, Update, Delete
    <2>. QED
      BY <1>b, <1>c, <2>1, <2>2, MoveReq DEF Phases
  <1>7. CASE UNCHANGED req /\ background' \subseteq background
    BY <1>7, <1>b, <1>c
  <1>8. CASE Restart
    BY <1>8, <1>c, RestartReq
  <1>. QED
    BY <1>1, <1>2, <1>3, <1>4, <1>5, <1>6, <1>7, <1>8
       DEF Next, Advance, RunDeletion, DeleteAll, DeleteChannelDoc,
           BackgroundFails, Consume, BrokerStop, vars

\* What one step does to the queue.
LEMMA QueueStep ==
  ASSUME Inv, [Next]_vars
  PROVE  \/ queue' = queue
         \/ queue # <<>> /\ queue' = Tail(queue)
         \/ queue' = <<>>
         \/ \E c \in Channels :
              queue' = Append(queue, Event("channel-delete", c, Null))
         \/ \E r \in Requests :
              At(r, "reply") /\ queue' = Append(queue, EventOf(req[r]))
  <1>1. ASSUME NEW r \in Requests, ProceedDeleteChannel(r)
        PROVE  req[r].id \in Channels
    BY <1>1 DEF ProceedDeleteChannel, At, Inv, Kinds, Active
  <1>. QED
    BY <1>1, ArriveReq
       DEF Next, Advance, FindOne, Refuse, Throw, Proceed,
           ProceedDeleteChannel, Insert, Update, Delete, Reply, CallFails,
           SendToMQ, RunDeletion, DeleteAll, DeleteChannelDoc,
           BackgroundFails, Consume, BrokerStop, Restart, vars, Inv


\* What was announced stays true.
LEMMA AnnouncedStep ==
  ASSUME Inv, [Next]_vars
  PROVE  AnnouncedAfterCommit'
  <1>. DEFINE Holds(e) ==
         /\ e.type \in {"channel-new", "message-new"} =>
              e.id \in Ids /\ docs[e.id] # Unborn
         /\ e.type = "message-delete" => e.id \in Ids /\ docs[e.id] = Gone
         Still(e) ==
         /\ e.type \in {"channel-new", "message-new"} =>
              e.id \in Ids /\ docs'[e.id] # Unborn
         /\ e.type = "message-delete" => e.id \in Ids /\ docs'[e.id] = Gone
  <1>. SUFFICES ASSUME NEW i \in 1..Len(queue') PROVE Still(queue'[i])
    BY DEF AnnouncedAfterCommit
  <1>a. ASSUME NEW e, Holds(e) PROVE Still(e)
    <2>1. \A d \in Ids : /\ docs[d] # Unborn => docs'[d] # Unborn
                         /\ docs[d] = Gone => docs'[d] = Gone
      BY DocsStep DEF Monotone, Inv
    <2>. QED
      BY <1>a, <2>1
  <1>b. \A j \in 1..Len(queue) : Holds(queue[j])
    BY DEF Inv, AnnouncedAfterCommit
  <1>c. queue \in Seq(Events)
    BY DEF Inv, TypeOK
  <1>. HIDE DEF Holds, Still
  <1>1. CASE queue' = queue
    BY <1>1, <1>a, <1>b
  <1>2. CASE queue # <<>> /\ queue' = Tail(queue)
    BY <1>2, <1>a, <1>b, <1>c
  <1>3. CASE queue' = <<>>
    BY <1>3
  <1>4. ASSUME NEW c \in Channels,
               queue' = Append(queue, Event("channel-delete", c, Null))
        PROVE  Still(queue'[i])
    <2>1. Holds(Event("channel-delete", c, Null))
      BY DEF Holds, Event
    <2>. QED
      BY <1>4, <1>a, <1>b, <1>c, <2>1
  <1>5. ASSUME NEW r \in Requests, At(r, "reply"),
               queue' = Append(queue, EventOf(req[r]))
        PROVE  Still(queue'[i])
    <2>1. /\ req[r].op \in Posts \cup Edits /\ req[r].id \in Ids
          /\ docs[req[r].id] # Unborn
          /\ req[r].op = "deleteMessage" => docs[req[r].id] = Gone
      BY <1>5 DEF Inv, Kinds, Born, Inserting, At, Active, Ids
    <2>2. Holds(EventOf(req[r]))
      BY <2>1 DEF Holds, EventOf, Event, Posts, Edits
    <2>. QED
      BY <1>5, <1>a, <1>b, <1>c, <2>2
  <1>. QED
    BY <1>1, <1>2, <1>3, <1>4, <1>5, QueueStep

-----------------------------------------------------------------------------
(* Documents keep to their collections, on their way through handlers and    *)
(* events too.                                                               *)

ChannelDocs == [creator : Users \cup {Nobody}, text : Names, channel : {Null}]

MessageDocs ==
  [creator : Users \cup {Nobody}, text : Bodies, channel : Channels]

DocsOf(d) == IF d \in Channels THEN ChannelDocs ELSE MessageDocs

\* doc, read or written earlier, is a version of what is or was stored.
Version(d, doc) ==
  /\ doc \in DocsOf(d) /\ docs[d] # Unborn
  /\ Stored(d) => /\ doc.creator = docs[d].creator
                  /\ doc.channel = docs[d].channel

\* A request carries what its operation needs.
Arguments(q) ==
  /\ q.op = "postChannel"  => q.text \in Names /\ q.channel = Null
  /\ q.op = "postMessage"  => q.text \in Bodies /\ q.channel \in Channels
  /\ q.op = "patchChannel" => q.text \in Names \cup {Null}
  /\ q.op = "patchMessage" => q.text \in Bodies

\* What it has in hand is a version of its own document.
InHand(q) ==
  /\ q.seen # Null => Version(q.id, q.seen)
  /\ q.pc \in {"find", "write"} => q.seen = Null
  /\ q.pc = "reply" /\ q.op \in Posts => q.seen # Null

Announced(e) ==
  /\ e.type \in {"channel-new", "channel-update"} /\ e.doc # Null =>
       e.id \in Channels /\ Version(e.id, e.doc)
  /\ e.type \in {"message-new", "message-update"} /\ e.doc # Null =>
       e.id \in Messages /\ Version(e.id, e.doc)
  /\ e.type \in {"channel-new", "message-new"} => e.doc # Null
  /\ e.type \in {"channel-update", "message-update"} /\ e.doc = Null =>
       e.id = Null
  /\ e.type = "channel-delete" => e.id \in Channels
  /\ e.type = "message-delete" => e.id \in Messages

StoredWhereItBelongs ==
  \A d \in Ids : Stored(d) => docs[d] \in DocsOf(d)

CarriedAlong ==
  \A r \in Requests : Active(r) => Arguments(req[r]) /\ InHand(req[r])

AnnouncedAsStored == \A i \in 1..Len(queue) : Announced(queue[i])

Collections == StoredWhereItBelongs /\ CarriedAlong /\ AnnouncedAsStored

\* What is inserted or updated stays in its collection.
LEMMA StoredStep ==
  ASSUME Inv, Collections, [Next]_vars
  PROVE  StoredWhereItBelongs'
  <1>. USE DEF StoredWhereItBelongs
  <1>a. StoredWhereItBelongs
    BY DEF Collections
  <1>1. ASSUME NEW r \in Requests, Insert(r) PROVE StoredWhereItBelongs'
    <2>. DEFINE q   == req[r]
                doc == [creator |-> q.user, text |-> q.text,
                        channel |-> q.channel]
    <2>1. /\ q.op \in Posts /\ q \in Reqs /\ Arguments(q) /\ Active(r)
          /\ docs' = [docs EXCEPT ![q.id] = doc]
      BY <1>1 DEF Insert, At, Posts, Active, Collections, CarriedAlong, Inv,
                  TypeOK
    <2>2. IF q.op = "postChannel" THEN q.id \in Channels ELSE q.id \in Messages
      BY <2>1 DEF Inv, Kinds, Posts
    <2>3. q.id \in Ids /\ doc \in DocsOf(q.id)
      BY <2>1, <2>2, ConstantsDistinct
         DEF DocsOf, ChannelDocs, MessageDocs, Reqs, Arguments, Posts, Ids
    <2>. HIDE DEF doc, q
    <2>. QED
      BY <1>a, <2>1, <2>3 DEF Stored, Inv, TypeOK
  <1>2. ASSUME NEW r \in Requests, Update(r) PROVE StoredWhereItBelongs'
    <2>. DEFINE q == req[r]
    <2>1. /\ q.op \in {"patchChannel", "patchMessage"} /\ Arguments(q)
          /\ Active(r)
          /\ docs' = [docs EXCEPT ![q.id] = Updated(q.id, q.text)]
      BY <1>2 DEF Update, At, Active, Collections, CarriedAlong
    <2>2. IF q.op = "patchChannel" THEN q.id \in Channels
          ELSE q.id \in Messages
      BY <2>1 DEF Inv, Kinds
    <2>3. q.id \in Ids
      BY <2>2 DEF Ids
    <2>4. ASSUME Stored(q.id) PROVE Updated(q.id, q.text) \in DocsOf(q.id)
      <3>1. docs[q.id] \in DocsOf(q.id)
        BY <1>a, <2>3, <2>4
      <3>2. \A doc \in ChannelDocs, name \in Names :
              [doc EXCEPT !.text = name] \in ChannelDocs
        BY DEF ChannelDocs
      <3>3. \A doc \in MessageDocs, body \in Bodies :
              [doc EXCEPT !.text = body] \in MessageDocs
        BY DEF MessageDocs
      <3>4. DocsOf(q.id) = IF q.op = "patchChannel" THEN ChannelDocs
                           ELSE MessageDocs
        BY <2>2, ConstantsDistinct DEF DocsOf
      <3>5. /\ q.op = "patchChannel" => q.text \in Names \cup {Null}
            /\ q.op = "patchMessage" => q.text \in Bodies
        BY <2>1 DEF Arguments
      <3>6. q.text = Null => Updated(q.id, q.text) = docs[q.id]
        BY DEF Updated
      <3>7. q.text # Null =>
              Updated(q.id, q.text) = [docs[q.id] EXCEPT !.text = q.text]
        BY <2>4 DEF Updated
      <3>. HIDE DEF q
      <3>. QED
        BY <2>1, <3>1, <3>2, <3>3, <3>4, <3>5, <3>6, <3>7
    <2>5. ~Stored(q.id) => Updated(q.id, q.text) = docs[q.id]
      BY DEF Updated
    <2>. HIDE DEF q
    <2>. QED
      BY <1>a, <2>1, <2>3, <2>4, <2>5 DEF Stored, Inv, TypeOK
  <1>3. ASSUME NEW r \in Requests, Delete(r) PROVE StoredWhereItBelongs'
    BY <1>a, <1>3 DEF Delete, Stored, Inv, TypeOK
  <1>4. ASSUME NEW b \in Deletions, RunDeletion(b)
        PROVE  StoredWhereItBelongs'
    BY <1>a, <1>4 DEF RunDeletion, DeleteAll, DeleteChannelDoc, Stored, Inv,
                      TypeOK
  <1>5. CASE Restart
    <2>1. DefaultChannel \in ChannelDocs
      BY ConstantsDistinct DEF DefaultChannel, ChannelDocs
    <2>. QED
      BY <1>a, <1>5, <2>1 DEF Restart, Stored, Inv, TypeOK, DocsOf, Ids
  <1>6. CASE UNCHANGED docs
    BY <1>a, <1>6 DEF Stored
  <1>. QED
    BY <1>1, <1>2, <1>3, <1>4, <1>5, <1>6, ArriveReq
       DEF Next, vars, Advance, FindOne, Refuse, Throw, Proceed,
           ProceedDeleteChannel, Reply, CallFails, BackgroundFails, Consume,
           BrokerStop, Inv

\* A version of a document that was inserted stays one.
LEMMA VersionStays ==
  ASSUME Inv, [Next]_vars, NEW d \in Ids, NEW doc, Version(d, doc)
  PROVE  Version(d, doc)'
  <1>1. Monotone
    BY DocsStep DEF Inv
  <1>. QED
    BY <1>1 DEF Monotone, Version, Stored

\* A request arrives with what its operation needs, and nothing in hand.
LEMMA ArrivesWith ==
  ASSUME TypeOK, NEW r \in Requests, Arrive(r)
  PROVE  (Arguments(req[r]) /\ InHand(req[r]))'
  <1>. USE DEF Arguments, InHand
  <1>1. ASSUME NEW u, PostChannel(r, u)
        PROVE  (Arguments(req[r]) /\ InHand(req[r]))'
    BY <1>1, BeginReq DEF PostChannel
  <1>2. ASSUME NEW u, PostMessage(r, u)
        PROVE  (Arguments(req[r]) /\ InHand(req[r]))'
    BY <1>2, BeginReq DEF PostMessage
  <1>3. ASSUME NEW u, PatchChannel(r, u)
        PROVE  (Arguments(req[r]) /\ InHand(req[r]))'
    BY <1>3, BeginReq DEF PatchChannel
  <1>4. ASSUME NEW u, DeleteChannel(r, u)
        PROVE  (Arguments(req[r]) /\ InHand(req[r]))'
    BY <1>4, BeginReq DEF DeleteChannel
  <1>5. ASSUME NEW u, PatchMessage(r, u)
        PROVE  (Arguments(req[r]) /\ InHand(req[r]))'
    BY <1>5, BeginReq DEF PatchMessage
  <1>6. ASSUME NEW u, DeleteMessage(r, u)
        PROVE  (Arguments(req[r]) /\ InHand(req[r]))'
    BY <1>6, BeginReq DEF DeleteMessage
  <1>. QED
    BY <1>1, <1>2, <1>3, <1>4, <1>5, <1>6 DEF Arrive

\* What a handler is given by MongoDB is a version of its document.
LEMMA CarriedStep ==
  ASSUME Inv, Collections, [Next]_vars
  PROVE  CarriedAlong'
  <1>. USE DEF CarriedAlong
  <1>. DEFINE Fits(s) == Active(s) => Arguments(req[s]) /\ InHand(req[s])
  <1>a. TypeOK /\ Kinds /\ CarriedAlong /\ StoredWhereItBelongs
    BY DEF Inv, Collections
  <1>b. StoredWhereItBelongs'
    BY StoredStep
  <1>c. ASSUME NEW s \in Requests, req'[s] = req[s] PROVE Fits(s)'
    <2>. SUFFICES ASSUME Active(s)'
                  PROVE  (Arguments(req[s]) /\ InHand(req[s]))'
      OBVIOUS
    <2>1. Active(s) /\ Arguments(req[s]) /\ InHand(req[s])
      BY <1>a, <1>c DEF Active
    <2>2. req[s].id \in Ids
      BY <1>a, <2>1 DEF Kinds, Ids
    <2>3. Arguments(req[s])'
      BY <1>c, <2>1 DEF Arguments
    <2>. QED
      BY <1>c, <2>1, <2>2, <2>3, VersionStays DEF InHand
  <1>1. ASSUME NEW r \in Requests, Arrive(r) PROVE CarriedAlong'
    BY <1>1, <1>a, <1>c, ArriveReq, ArrivesWith
  <1>2. ASSUME NEW r \in Requests, FindOne(r) PROVE CarriedAlong'
    <2>1. /\ req[r].id \in Ids /\ Arguments(req[r])
          /\ req[r].op \in Edits \cup {"deleteChannel"}
      BY <1>2, <1>a DEF FindOne, At, Kinds, Active, Ids
    <2>2. /\ \A s \in Requests \ {r} : req'[s] = req[s]
          /\ req'[r].pc = "check"
          /\ req'[r].seen = Found(req[r].id) /\ req'[r].id = req[r].id
          /\ req'[r].op = req[r].op /\ req'[r].text = req[r].text
          /\ req'[r].channel = req[r].channel
          /\ docs' = docs
      BY <1>2, <1>a, <2>1, MoveReq, FoundType DEF FindOne, Phases
    <2>3. Found(req[r].id) # Null => Version(req[r].id, Found(req[r].id))
      BY <1>a, <2>1 DEF Found, Version, StoredWhereItBelongs, Stored
    <2>4. Arguments(req[r])'
      BY <2>1, <2>2 DEF Arguments
    <2>5. InHand(req[r])'
      BY <2>2, <2>3 DEF InHand, Version, Stored
    <2>. QED
      BY <1>c, <2>2, <2>4, <2>5
  <1>3. ASSUME NEW r \in Requests, Proceed(r) PROVE CarriedAlong'
    <2>1. Arguments(req[r])
      BY <1>3, <1>a DEF Proceed, At, Active
    <2>2. /\ \A s \in Requests \ {r} : req'[s] = req[s]
          /\ req'[r].pc = "write" /\ req'[r].seen = Null
          /\ req'[r].op = req[r].op /\ req'[r].text = req[r].text
          /\ req'[r].channel = req[r].channel
      BY <1>3, <1>a, MoveReq DEF Proceed, Phases
    <2>3. (Arguments(req[r]) /\ InHand(req[r]))'
      BY <2>1, <2>2 DEF Arguments, InHand
    <2>. QED
      BY <1>c, <2>2, <2>3
  <1>4. ASSUME NEW r \in Requests,
               \/ Refuse(r) \/ Throw(r) \/ CallFails(r)
               \/ ProceedDeleteChannel(r) \/ Reply(r)
        PROVE  CarriedAlong'
    BY <1>4, <1>a, <1>c, EndReq DEF Active
  <1>5. ASSUME NEW r \in Requests, Insert(r) \/ Update(r) \/ Delete(r)
        PROVE  CarriedAlong'
    <2>1. PICK seen \in Doc \cup {Null} : Move(r, "reply", seen)
      BY <1>5, <1>a, WriteReturns
    <2>2. /\ \A s \in Requests \ {r} : req'[s] = req[s]
          /\ req'[r].pc = "reply" /\ req'[r].seen = seen
          /\ req'[r].id = req[r].id /\ req'[r].op = req[r].op
          /\ req'[r].text = req[r].text /\ req'[r].channel = req[r].channel
      BY <1>a, <2>1, MoveReq DEF Phases
    <2>3. req[r].id \in Ids /\ Arguments(req[r])
      BY <1>5, <1>a DEF Insert, Update, Delete, At, Kinds, Active, Ids
    <2>. DEFINE q == req[r]
                doc == [creator |-> q.user, text |-> q.text,
                        channel |-> q.channel]
    <2>4. q \in Reqs /\ docs \in [Ids -> Doc \cup {Unborn, Gone}]
      BY <1>a DEF TypeOK
    <2>5. PICK d \in Ids : d = q.id
      BY <2>3
    <2>6. /\ seen # Null => docs'[d] \notin {Unborn, Gone} /\ seen = docs'[d]
          /\ q.op \in Posts => seen # Null
      <3>1. CASE Insert(r)
        <4>1. doc \in Doc
          BY <2>3, <2>4, <3>1 DEF Insert, Posts, Arguments, Doc, Reqs, Texts
        <4>2. docs'[d] = doc /\ seen = doc
          BY <1>a, <2>2, <2>4, <2>5, <3>1, <4>1, MoveReq DEF Insert, Phases
        <4>. QED
          BY <4>1, <4>2, ConstantsDistinct
      <3>2. CASE Update(r)
        <4>1. Stored(q.id) => Updated(q.id, q.text) \in Doc
          BY <2>4, <2>5 DEF Updated, Stored, Doc, Reqs
        <4>2. /\ docs'[d] = Updated(q.id, q.text)
              /\ seen = IF Stored(q.id) THEN Updated(q.id, q.text) ELSE Null
          BY <1>a, <2>2, <2>4, <2>5, <3>2, <4>1, MoveReq DEF Update, Phases
        <4>3. q.op \notin Posts
          BY <3>2 DEF Update, Posts
        <4>. QED
          BY <4>1, <4>2, <4>3, ConstantsDistinct
      <3>3. CASE Delete(r)
        <4>1. seen = Null
          BY <1>a, <2>2, <3>3, MoveReq DEF Delete, Phases
        <4>2. q.op \notin Posts
          BY <3>3 DEF Delete, Posts
        <4>. QED
          BY <4>1, <4>2
      <3>. QED
        BY <1>5, <3>1, <3>2, <3>3
    <2>. HIDE DEF q, doc
    <2>8. seen # Null => /\ seen \in DocsOf(d) /\ docs'[d] # Unborn
                         /\ seen = docs'[d]
      BY <1>b, <2>6 DEF StoredWhereItBelongs, Stored
    <2>7. (Arguments(req[r]) /\ InHand(req[r]))'
      BY <2>2, <2>3, <2>5, <2>6, <2>8
         DEF q, Arguments, InHand, Version, Stored, Posts
    <2>. QED
      BY <1>c, <2>2, <2>7
  <1>6. CASE UNCHANGED req
    BY <1>6, <1>a, <1>c
  <1>7. CASE Restart
    BY <1>7, <1>a, RestartReq DEF Active
  <1>. QED
    BY <1>1, <1>2, <1>3, <1>4, <1>5, <1>6, <1>7
       DEF Next, Advance, RunDeletion, DeleteAll, DeleteChannelDoc,
           BackgroundFails, Consume, BrokerStop, vars

\* What was announced as stored stays a version of it.
LEMMA AnnouncedVersionsStep ==
  ASSUME Inv, Collections, [Next]_vars
  PROVE  AnnouncedAsStored'
  <1>. DEFINE Still(e) == Announced(e)'
  <1>a. ASSUME NEW e, Announced(e) PROVE Still(e)
    BY <1>a, VersionStays DEF Announced, Ids
  <1>b. \A j \in 1..Len(queue) : Announced(queue[j])
    BY DEF Collections, AnnouncedAsStored
  <1>c. queue \in Seq(Events)
    BY DEF Inv, TypeOK
  <1>. SUFFICES ASSUME NEW i \in 1..Len(queue'), NEW e, e = queue'[i]
                PROVE  Still(e)
    BY DEF AnnouncedAsStored, Announced, Version, Stored
  <1>. HIDE DEF Still
  <1>1. CASE queue' = queue
    BY <1>1, <1>a, <1>b
  <1>2. CASE queue # <<>> /\ queue' = Tail(queue)
    BY <1>2, <1>a, <1>b, <1>c
  <1>3. CASE queue' = <<>>
    BY <1>3
  <1>4. ASSUME NEW c \in Channels,
               queue' = Append(queue, Event("channel-delete", c, Null))
        PROVE  Still(e)
    <2>1. Announced(Event("channel-delete", c, Null))
      BY DEF Announced, Event
    <2>. QED
      BY <1>4, <1>a, <1>b, <1>c, <2>1
  <1>5. ASSUME NEW r \in Requests, At(r, "reply"),
               queue' = Append(queue, EventOf(req[r]))
        PROVE  Still(e)
    <2>1. /\ req[r].op \in Posts \cup Edits /\ InHand(req[r]) /\ At(r, "reply")
          /\ IF req[r].op \in {"postMessage", "patchMessage", "deleteMessage"}
             THEN req[r].id \in Messages ELSE req[r].id \in Channels
      BY <1>5 DEF Inv, Kinds, At, Active, Collections, CarriedAlong
    <2>2. Announced(EventOf(req[r]))
      BY <2>1 DEF Announced, EventOf, Event, Posts, Edits, InHand, At
    <2>. QED
      BY <1>5, <1>a, <1>b, <1>c, <2>2
  <1>. QED
    BY <1>1, <1>2, <1>3, <1>4, <1>5, QueueStep

\* The service starts with documents where they belong.
LEMMA CollectionsInit == Init => Collections
  <1>. SUFFICES ASSUME Init PROVE Collections
    OBVIOUS
  <1>1. DefaultChannel \in ChannelDocs
    BY ConstantsDistinct DEF DefaultChannel, ChannelDocs
  <1>2. StoredWhereItBelongs
    BY <1>1, ConstantsDistinct DEF Init, StoredWhereItBelongs, Stored, DocsOf
  <1>3. CarriedAlong
    BY DEF Init, CarriedAlong, NoRequest, Active
  <1>4. AnnouncedAsStored
    BY DEF Init, AnnouncedAsStored
  <1>. QED
    BY <1>2, <1>3, <1>4 DEF Collections

\* Every step keeps them there.
LEMMA CollectionsStep == Inv /\ Collections /\ [Next]_vars => Collections'
  BY StoredStep, CarriedStep, AnnouncedVersionsStep DEF Collections

-----------------------------------------------------------------------------
(* While nothing fails: lemmas for the modules that put a tab in front of a  *)
(* service that runs undisturbed.                                            *)

Undisturbed ==
  \/ \E r \in Requests : Arrive(r) \/ Advance(r)
  \/ \E b \in background : RunDeletion(b)
  \/ Consume
  \/ UNCHANGED vars

\* The channel is deleted, or MongoDB has the deletion still to execute.
Deleting(c) == \E b \in background : b.op = "delete" /\ b.id = c

GoneOrGoing(c) == docs[c] = Gone \/ Deleting(c)

AnnouncedGoing ==
  \A i \in 1..Len(queue) :
    queue[i].type = "channel-delete" => GoneOrGoing(queue[i].id)

\* A channel's creation is answered, and still to be announced.
Announcing(r) == At(r, "reply") /\ req[r].op = "postChannel"

NewAt(i) == queue[i].type = "channel-new"

\* A channel is announced as new once.
AnnouncedOnce ==
  /\ \A i, j \in 1..Len(queue) :
       NewAt(i) /\ NewAt(j) /\ queue[i].id = queue[j].id => i = j
  /\ \A i \in 1..Len(queue), r \in Requests :
       NewAt(i) /\ Announcing(r) => queue[i].id # req[r].id
  /\ \A r, s \in Requests :
       Announcing(r) /\ Announcing(s) /\ req[r].id = req[s].id => r = s

\* Nobody may delete the default channel, which nobody has created.
GeneralStays ==
  Stored(General) /\ docs[General].creator = Nobody /\ ~Deleting(General)

\* A channel u has created and does not delete.
Keeps(u, c) ==
  /\ Stored(c) /\ docs[c].creator = u /\ ~Deleting(c)
  /\ \A r \in Requests :
       ~(Active(r) /\ req[r].op = "deleteChannel" /\ req[r].user = u
         /\ req[r].id = c)

\* Nothing it does is beyond the service's own next-state relation.
LEMMA UndisturbedNext == TypeOK /\ Undisturbed => [Next]_vars
  BY DEF TypeOK, Undisturbed, Next

\* What is done to the deletions nobody waits for.
LEMMA DeletingStep ==
  ASSUME Inv, Undisturbed, NEW c \in Channels
  PROVE  /\ Deleting(c) => GoneOrGoing(c)'
         /\ ~Deleting(c) /\ Deleting(c)' =>
              \E r \in Requests :
                /\ ProceedDeleteChannel(r) /\ req[r].id = c
                /\ Stored(c) => docs[c].creator = req[r].user
                /\ req[r].user # Nobody
  <1>1. ASSUME NEW r \in Requests, ProceedDeleteChannel(r)
        PROVE  /\ Deleting(c) => Deleting(c)'
               /\ ~Deleting(c) /\ Deleting(c)' => req[r].id = c
               /\ Stored(req[r].id) => docs[req[r].id].creator = req[r].user
               /\ req[r].user # Nobody
    <2>1. background' = background \cup
            {Deletion("deleteAll", req[r].id, req[r].user),
             Deletion("delete", req[r].id, req[r].user)}
      BY <1>1 DEF ProceedDeleteChannel
    <2>2. /\ Stored(req[r].id) => docs[req[r].id].creator = req[r].user
          /\ req[r].user # Nobody
      BY <1>1 DEF ProceedDeleteChannel, At, Verdict, DeleteChannelVerdict,
                  Inv, SeenCreator
    <2>. QED
      BY <2>1, <2>2 DEF Deleting, Deletion
  <1>2. ASSUME NEW b \in background, RunDeletion(b)
        PROVE  /\ Deleting(c) => GoneOrGoing(c)'
               /\ Deleting(c)' => Deleting(c)
    <2>1. background' = background \ {b}
      BY <1>2 DEF RunDeletion, DeleteAll, DeleteChannelDoc
    <2>2. b.op = "delete" => docs' = [docs EXCEPT ![b.id] = Gone]
      BY <1>2 DEF RunDeletion, DeleteAll, DeleteChannelDoc
    <2>. QED
      BY <2>1, <2>2 DEF Deleting, GoneOrGoing, Inv, TypeOK, Ids
  <1>3. CASE background' = background
    BY <1>3 DEF Deleting, GoneOrGoing
  <1>4. ASSUME NEW r \in Requests, Arrive(r) PROVE background' = background
    BY <1>4, ArriveReq DEF Inv
  <1>. QED
    BY <1>1, <1>2, <1>3, <1>4
       DEF Undisturbed, GoneOrGoing, Advance, FindOne, Refuse, Throw, Proceed,
           Insert, Update, Delete, Reply, Consume, vars

\* A channel that was deleted or is being deleted stays so.
LEMMA GoingStays ==
  ASSUME Inv, Undisturbed, NEW c \in Channels, GoneOrGoing(c)
  PROVE  GoneOrGoing(c)'
  <1>1. Monotone
    BY UndisturbedNext, DocsStep DEF Inv
  <1>. QED
    BY <1>1, DeletingStep DEF GoneOrGoing, Monotone, Ids

\* A channel nobody deletes stays.
LEMMA StoredStays ==
  ASSUME Inv, Undisturbed, NEW c \in Channels, Stored(c), ~Deleting(c)
  PROVE  Stored(c)' /\ docs'[c].creator = docs[c].creator
  <1>1. Monotone
    BY UndisturbedNext, DocsStep DEF Inv
  <1>2. docs'[c] # Gone
    <2>. USE ConstantsDistinct DEF Inv, TypeOK, Stored
    <2>1. ASSUME NEW r \in Requests, Insert(r) PROVE docs'[c] # Gone
      <3>1. docs' = [docs EXCEPT ![req[r].id] =
              [creator |-> req[r].user, text |-> req[r].text,
               channel |-> req[r].channel]]
        BY <2>1 DEF Insert
      <3>2. req[r].id # c
        BY <2>1 DEF Insert, NewIds, Inserting, At, Posts
      <3>. QED
        BY <3>1, <3>2 DEF Ids
    <2>2. ASSUME NEW r \in Requests, Update(r) PROVE docs'[c] # Gone
      <3>1. docs' = [docs EXCEPT ![req[r].id] =
                       Updated(req[r].id, req[r].text)]
        BY <2>2 DEF Update
      <3>2. docs'[c] \in {docs[c], [docs[c] EXCEPT !.text = req[r].text]}
        BY <3>1 DEF Updated, Ids
      <3>3. req[r].text # Null => [docs[c] EXCEPT !.text = req[r].text] \in Doc
        BY DEF Doc, Ids, Reqs
      <3>4. docs'[c] \in {docs[c]} \cup Doc
        BY <3>1, <3>3 DEF Updated, Ids
      <3>. QED
        BY <3>4
    <2>3. ASSUME NEW r \in Requests, Delete(r) PROVE docs'[c] # Gone
      BY <2>3 DEF Delete, Kinds, At, Active, Ids
    <2>4. ASSUME NEW b \in background, RunDeletion(b) PROVE docs'[c] # Gone
      BY <2>4 DEF RunDeletion, DeleteAll, DeleteChannelDoc, Deleting, Ids
    <2>5. CASE UNCHANGED docs
      BY <2>5
    <2>. QED
      BY <2>1, <2>2, <2>3, <2>4, <2>5, ArriveReq
         DEF Undisturbed, Advance, FindOne, Refuse, Throw, Proceed,
             ProceedDeleteChannel, Reply, Consume, vars
  <1>. QED
    BY <1>1, <1>2 DEF Monotone, Stored, Ids

\* A document comes into being by the insert of a request, and only by that.
LEMMA StoredAnew ==
  ASSUME Inv, Undisturbed, NEW d \in Ids,
         \/ ~Stored(d) /\ Stored(d)'
         \/ docs[d] = Unborn /\ docs'[d] # Unborn
  PROVE  /\ docs[d] = Unborn /\ Stored(d)'
         /\ \A c \in Ids \ {d} : docs'[c] = docs[c]
         /\ \E r \in Requests : Insert(r) /\ req[r].id = d
  <1>1. docs[d] = Unborn /\ docs'[d] # Unborn
    <2>1. Monotone
      BY UndisturbedNext, DocsStep DEF Inv
    <2>2. Stored(d)' => docs'[d] # Unborn
      BY DEF Stored
    <2>3. docs[d] = Gone => ~Stored(d)'
      BY <2>1, ConstantsDistinct DEF Monotone, Stored
    <2>4. docs[d] \in Doc \cup {Unborn, Gone}
      BY DEF Inv, TypeOK
    <2>. QED
      BY <2>2, <2>3, <2>4 DEF Stored
  <1>. USE ConstantsDistinct DEF Inv, TypeOK, Stored
  <1>2. ASSUME NEW r \in Requests, Insert(r)
        PROVE  /\ \A c \in Ids \ {d} : docs'[c] = docs[c]
               /\ req[r].id = d /\ Stored(d)'
    <2>. DEFINE doc == [creator |-> req[r].user, text |-> req[r].text,
                        channel |-> req[r].channel]
    <2>1. docs' = [docs EXCEPT ![req[r].id] = doc]
      BY <1>2 DEF Insert
    <2>2. doc \in Doc
      BY <1>2 DEF Insert, At, Kinds, Posts, Doc, Reqs
    <2>. HIDE DEF doc
    <2>3. req[r].id = d
      BY <1>1, <2>1
    <2>4. docs'[d] = doc
      BY <2>1, <2>3
    <2>. QED
      BY <2>1, <2>2, <2>3, <2>4
  <1>3. ASSUME NEW r \in Requests, Update(r) PROVE FALSE
    <2>1. docs' = [docs EXCEPT ![req[r].id] =
                     Updated(req[r].id, req[r].text)]
      BY <1>3 DEF Update
    <2>2. docs'[d] = docs[d]
      BY <1>1, <2>1 DEF Updated
    <2>. QED
      BY <1>1, <2>2
  <1>4. ASSUME NEW r \in Requests, Delete(r) PROVE FALSE
    BY <1>1, <1>4 DEF Delete, Born, At, Active, Inserting, Posts
  <1>5. ASSUME NEW b \in background, RunDeletion(b) PROVE FALSE
    BY <1>1, <1>5 DEF RunDeletion, DeleteAll, DeleteChannelDoc, Born
  <1>6. ~UNCHANGED docs
    BY <1>1
  <1>. QED
    BY <1>1, <1>2, <1>3, <1>4, <1>5, <1>6, ArriveReq
       DEF Undisturbed, Advance, FindOne, Refuse, Throw, Proceed,
           ProceedDeleteChannel, Reply, Consume, vars

\* What happens to the queue while nothing fails, and who does it.
LEMMA QueueOf ==
  ASSUME Inv, Undisturbed
  PROVE  \/ queue' = queue
         \/ Consume
         \/ \E r \in Requests :
              /\ ProceedDeleteChannel(r)
              /\ queue' = Append(queue,
                                 Event("channel-delete", req[r].id, Null))
         \/ \E r \in Requests :
              Reply(r) /\ queue' = Append(queue, EventOf(req[r]))
  BY ArriveReq
     DEF Undisturbed, Advance, FindOne, Refuse, Throw, Proceed,
         ProceedDeleteChannel, Insert, Update, Delete, Reply, SendToMQ,
         RunDeletion, DeleteAll, DeleteChannelDoc, vars, Inv

\* A request stays what it is until it ends.
LEMMA RequestStays ==
  ASSUME Inv, Undisturbed, NEW r \in Requests, Active(r)'
  PROVE  \/ ~Active(r) /\ Arrive(r)
         \/ /\ Active(r)
            /\ req'[r].op = req[r].op /\ req'[r].user = req[r].user
            /\ req'[r].id = req[r].id
  <1>. USE DEF Inv
  <1>1. ASSUME NEW s \in Requests, Arrive(s)
        PROVE  r # s => req'[r] = req[r]
    BY <1>1, ArriveReq
  <1>2. ASSUME NEW s \in Requests, Arrive(s) PROVE ~Active(s)
    BY <1>2, ArriveReq
  <1>3. ASSUME NEW s \in Requests, FindOne(s) \/ Proceed(s)
        PROVE  /\ r # s => req'[r] = req[r]
               /\ Active(s)
               /\ req'[s].op = req[s].op /\ req'[s].user = req[s].user
               /\ req'[s].id = req[s].id
    <2>1. PICK pc \in {"check", "write"}, seen \in Doc \cup {Null} :
            Move(s, pc, seen)
      BY <1>3, MoveOn
    <2>. QED
      BY <1>3, <2>1, MoveReq DEF Phases, FindOne, Proceed, At, Active
  <1>4. ASSUME NEW s \in Requests, Insert(s) \/ Update(s) \/ Delete(s)
        PROVE  /\ r # s => req'[r] = req[r]
               /\ Active(s)
               /\ req'[s].op = req[s].op /\ req'[s].user = req[s].user
               /\ req'[s].id = req[s].id
    <2>1. PICK seen \in Doc \cup {Null} : Move(s, "reply", seen)
      BY <1>4, WriteReturns
    <2>. QED
      BY <1>4, <2>1, MoveReq DEF Phases, Insert, Update, Delete, At, Active
  <1>5. ASSUME NEW s \in Requests,
               \/ Refuse(s) \/ Throw(s)
               \/ ProceedDeleteChannel(s) \/ Reply(s)
        PROVE  /\ r # s => req'[r] = req[r]
               /\ req'[s].pc = "idle"
    BY <1>5, EndReq
  <1>6. CASE UNCHANGED req
    BY <1>6 DEF Active
  <1>. QED
    BY <1>1, <1>2, <1>3, <1>4, <1>5, <1>6
       DEF Undisturbed, Advance, RunDeletion, DeleteAll, DeleteChannelDoc,
           Consume, vars, Active

\* The deletion of a channel is announced once it is issued.
LEMMA AnnouncedGoingStep ==
  ASSUME Inv, Collections, AnnouncedGoing, Undisturbed
  PROVE  AnnouncedGoing'
  <1>. DEFINE Is(e)    == e.type = "channel-delete" =>
                            e.id \in Channels /\ GoneOrGoing(e.id)
              Still(e) == e.type = "channel-delete" => GoneOrGoing(e.id)'
  <1>a. ASSUME NEW e, Is(e) PROVE Still(e)
    BY <1>a, GoingStays
  <1>b. \A i \in 1..Len(queue) : Is(queue[i])
    BY DEF AnnouncedGoing, Collections, AnnouncedAsStored, Announced
  <1>c. queue \in Seq(Events)
    BY DEF Inv, TypeOK
  <1>. SUFFICES ASSUME NEW i \in 1..Len(queue'), NEW e, e = queue'[i]
                PROVE  Still(e)
    BY DEF AnnouncedGoing, GoneOrGoing, Deleting
  <1>1. CASE queue' = queue
    BY <1>1, <1>a, <1>b
  <1>2. CASE Consume
    <2>. HIDE DEF Is, Still
    <2>. QED
      BY <1>2, <1>a, <1>b, <1>c DEF Consume
  <1>3. ASSUME NEW r \in Requests, ProceedDeleteChannel(r),
               queue' = Append(queue,
                               Event("channel-delete", req[r].id, Null))
        PROVE  Still(e)
    <2>. DEFINE d == Deletion("delete", req[r].id, req[r].user)
    <2>0. d \in background'
      BY <1>3 DEF ProceedDeleteChannel
    <2>1. d.op = "delete" /\ d.id = req[r].id
      BY DEF Deletion
    <2>. HIDE DEF d
    <2>2. ASSUME e = Event("channel-delete", req[r].id, Null) PROVE Still(e)
      <3>1. e.id = req[r].id
        BY <2>2 DEF Event
      <3>2. \E b \in background' : b.op = "delete" /\ b.id = e.id
        BY <2>0, <2>1, <3>1
      <3>. QED
        BY <3>2 DEF GoneOrGoing, Deleting
    <2>. HIDE DEF Is, Still
    <2>. QED
      BY <1>3, <1>a, <1>b, <1>c, <2>2
  <1>4. ASSUME NEW r \in Requests, Reply(r),
               queue' = Append(queue, EventOf(req[r]))
        PROVE  Still(e)
    <2>1. req[r].op \in Posts \cup Edits
      BY <1>4 DEF Reply, At, Inv, Kinds
    <2>2. EventOf(req[r]).type # "channel-delete"
      BY <2>1 DEF EventOf, Event, Posts, Edits
    <2>3. Is(EventOf(req[r]))
      BY <2>2
    <2>. HIDE DEF Is, Still
    <2>. QED
      BY <1>4, <1>a, <1>b, <1>c, <2>3
  <1>. QED
    BY <1>1, <1>2, <1>3, <1>4, QueueOf

\* The default channel can be renamed by anybody, and stays.
LEMMA GeneralStep ==
  ASSUME Inv, GeneralStays, Undisturbed
  PROVE  GeneralStays'
  BY DeletingStep, StoredStays, ConstantsDistinct DEF GeneralStays

\* A channel its creator does not delete stays.
LEMMA KeepsStep ==
  ASSUME Inv, Undisturbed, NEW c \in Channels, NEW u, Keeps(u, c),
         \A r \in Requests :
           ~(/\ ~Active(r) /\ Active(r)' /\ req'[r].op = "deleteChannel"
             /\ req'[r].user = u /\ req'[r].id = c)
  PROVE  Keeps(u, c)'
  <1>1. Stored(c)' /\ docs'[c].creator = u
    BY StoredStays DEF Keeps
  <1>2. ~Deleting(c)'
    BY DeletingStep DEF Keeps, ProceedDeleteChannel, At, Active
  <1>3. ASSUME NEW r \in Requests, Active(r)', req'[r].op = "deleteChannel",
               req'[r].user = u, req'[r].id = c
        PROVE  FALSE
    BY <1>3, RequestStays DEF Keeps
  <1>. QED
    BY <1>1, <1>2, <1>3 DEF Keeps

\* What one step does to the creations still to be announced or heard of.
LEMMA AnnouncingStep ==
  ASSUME Inv, Undisturbed
  PROVE  \/ /\ queue' = queue
            /\ \A s \in Requests :
                 Announcing(s)' => Announcing(s) /\ req'[s] = req[s]
         \/ \E e \in Events :
              /\ queue' = Append(queue, e) /\ e.type # "channel-new"
              /\ \A s \in Requests :
                   Announcing(s)' => Announcing(s) /\ req'[s] = req[s]
         \/ Consume /\ req' = req
         \/ \E r \in Requests :
              /\ Insert(r) /\ req[r].op = "postChannel" /\ queue' = queue
              /\ docs[req[r].id] = Unborn
              /\ req'[r].id = req[r].id
              /\ req'[r].seen.creator = req[r].user
              /\ \A s \in Requests \ {r} : req'[s] = req[s]
         \/ \E r \in Requests :
              /\ Announcing(r) /\ ~Announcing(r)'
              /\ \/ queue' = queue
                 \/ queue' = Append(queue,
                      Event("channel-new", req[r].id, req[r].seen))
              /\ \A s \in Requests \ {r} : req'[s] = req[s]
  <1>. DEFINE Quiet == \A s \in Requests :
                         Announcing(s)' => Announcing(s) /\ req'[s] = req[s]
  <1>. USE DEF Inv
  <1>1. ASSUME NEW r \in Requests, Arrive(r) PROVE Quiet /\ queue' = queue
    BY <1>1, ArriveReq DEF Announcing, At
  <1>2. ASSUME NEW r \in Requests, FindOne(r) \/ Proceed(r)
        PROVE  Quiet /\ queue' = queue
    <2>1. PICK pc \in {"check", "write"}, seen \in Doc \cup {Null} :
            Move(r, pc, seen)
      BY <1>2, MoveOn
    <2>. QED
      BY <1>2, <2>1, MoveReq, MoveOn DEF Phases, Announcing, At
  <1>3. ASSUME NEW r \in Requests, Refuse(r) \/ Throw(r)
        PROVE  Quiet /\ queue' = queue
    <2>1. queue' = queue
      BY <1>3 DEF Refuse, Throw
    <2>. QED
      BY <1>3, <2>1, EndReq DEF Announcing, At
  <1>4. ASSUME NEW r \in Requests, Update(r) \/ Delete(r)
        PROVE  Quiet /\ queue' = queue
    <2>1. PICK seen \in Doc \cup {Null} : Move(r, "reply", seen)
      BY <1>4, WriteReturns
    <2>2. req'[r].op # "postChannel" /\ queue' = queue
      BY <1>4, <2>1, MoveReq DEF Phases, Update, Delete
    <2>. QED
      BY <2>1, <2>2, MoveReq DEF Phases, Announcing, At
  <1>5. ASSUME NEW r \in Requests, ProceedDeleteChannel(r)
        PROVE  /\ Quiet
               /\ \/ queue' = queue
                  \/ \E e \in Events :
                       queue' = Append(queue, e) /\ e.type # "channel-new"
    <2>. DEFINE e == Event("channel-delete", req[r].id, Null)
    <2>1. e \in Events /\ e.type # "channel-new"
      BY <1>5 DEF Event, Events, EventTypes, ProceedDeleteChannel, At, Kinds,
                  Active, Ids
    <2>2. queue' \in {queue, Append(queue, e)}
      BY <1>5 DEF ProceedDeleteChannel, SendToMQ
    <2>3. Quiet
      BY <1>5, EndReq DEF Announcing, At
    <2>. HIDE DEF e
    <2>. QED
      BY <2>1, <2>2, <2>3
  <1>6. ASSUME NEW r \in Requests, Reply(r), req[r].op # "postChannel"
        PROVE  /\ Quiet
               /\ \/ queue' = queue
                  \/ \E e \in Events :
                       queue' = Append(queue, e) /\ e.type # "channel-new"
    <2>. DEFINE e == EventOf(req[r])
    <2>1. e \in Events
      BY <1>6, EventOfType DEF Reply
    <2>2. e.type # "channel-new"
      BY <1>6 DEF Reply, At, Kinds, EventOf, Event, Posts, Edits
    <2>3. queue' \in {queue, Append(queue, e)}
      BY <1>6 DEF Reply, SendToMQ
    <2>4. Quiet
      BY <1>6, EndReq DEF Announcing, At
    <2>. HIDE DEF e
    <2>. QED
      BY <2>1, <2>2, <2>3, <2>4
  <1>7. ASSUME NEW r \in Requests, Reply(r), req[r].op = "postChannel"
        PROVE  /\ Announcing(r) /\ ~Announcing(r)'
               /\ \/ queue' = queue
                  \/ queue' = Append(queue,
                       Event("channel-new", req[r].id, req[r].seen))
               /\ \A s \in Requests \ {r} : req'[s] = req[s]
    <2>1. queue' \in {queue, Append(queue, EventOf(req[r]))}
      BY <1>7 DEF Reply, SendToMQ
    <2>2. EventOf(req[r]) = Event("channel-new", req[r].id, req[r].seen)
      BY <1>7 DEF EventOf
    <2>. QED
      BY <1>7, <2>1, <2>2, EndReq DEF Reply, Announcing, At
  <1>8. ASSUME NEW r \in Requests, Insert(r), req[r].op # "postChannel"
        PROVE  Quiet /\ queue' = queue
    <2>1. PICK seen \in Doc \cup {Null} : Move(r, "reply", seen)
      BY <1>8, WriteReturns
    <2>2. req'[r].op # "postChannel" /\ queue' = queue
      BY <1>8, <2>1, MoveReq DEF Phases, Insert
    <2>. QED
      BY <2>1, <2>2, MoveReq DEF Phases, Announcing, At
  <1>9. ASSUME NEW r \in Requests, Insert(r), req[r].op = "postChannel"
        PROVE  /\ queue' = queue /\ docs[req[r].id] = Unborn
               /\ req'[r].id = req[r].id
               /\ req'[r].seen.creator = req[r].user
               /\ \A s \in Requests \ {r} : req'[s] = req[s]
    <2>. DEFINE doc == [creator |-> req[r].user, text |-> req[r].text,
                        channel |-> req[r].channel]
    <2>1. Move(r, "reply", doc) /\ queue' = queue
      BY <1>9 DEF Insert
    <2>2. doc \in Doc
      BY <1>9 DEF TypeOK, Kinds, Insert, At, Posts, Doc, Reqs
    <2>3. doc.creator = req[r].user
      OBVIOUS
    <2>4. docs[req[r].id] = Unborn
      BY <1>9 DEF Insert, NewIds, Inserting, At, Posts
    <2>. HIDE DEF doc
    <2>. QED
      BY <2>1, <2>2, <2>3, <2>4, MoveReq DEF Phases
  <1>10. Consume => req' = req
    BY DEF Consume
  <1>11. ASSUME queue' = queue, req' = req PROVE Quiet
    BY <1>11 DEF Announcing, At
  <1>12. ASSUME NEW b \in background, RunDeletion(b)
         PROVE  queue' = queue /\ req' = req
    BY <1>12 DEF RunDeletion, DeleteAll, DeleteChannelDoc
  <1>. HIDE DEF Quiet
  <1>13. \/ Quiet /\ queue' = queue
         \/ \E e \in Events :
              Quiet /\ queue' = Append(queue, e) /\ e.type # "channel-new"
         \/ Consume /\ req' = req
         \/ \E r \in Requests :
              Insert(r) /\ req[r].op = "postChannel"
         \/ \E r \in Requests : Reply(r) /\ req[r].op = "postChannel"
    <2>1. ASSUME NEW r \in Requests, Advance(r)
          PROVE  \/ Quiet /\ queue' = queue
                 \/ \E e \in Events :
                      /\ Quiet /\ queue' = Append(queue, e)
                      /\ e.type # "channel-new"
                 \/ Insert(r) /\ req[r].op = "postChannel"
                 \/ Reply(r) /\ req[r].op = "postChannel"
      BY <1>2, <1>3, <1>4, <1>5, <1>6, <1>8, <2>1 DEF Advance
    <2>2. UNCHANGED vars => Quiet /\ queue' = queue
      BY <1>11 DEF vars
    <2>3. ASSUME NEW b \in background, RunDeletion(b)
          PROVE  Quiet /\ queue' = queue
      BY <1>11, <1>12, <2>3
    <2>. QED
      BY <1>1, <1>10, <2>1, <2>2, <2>3 DEF Undisturbed
  <1>. QED
    BY <1>7, <1>9, <1>13 DEF Quiet

\* A creation is announced once.
LEMMA AnnouncedOnceStep ==
  ASSUME Inv, AnnouncedOnce, Undisturbed
  PROVE  AnnouncedOnce'
  <1>. USE DEF AnnouncedOnce, NewAt
  <1>a. queue \in Seq(Events)
    BY DEF Inv, TypeOK
  <1>1. CASE /\ queue' = queue
             /\ \A s \in Requests :
                  Announcing(s)' => Announcing(s) /\ req'[s] = req[s]
    BY <1>1
  <1>2. ASSUME NEW e \in Events, queue' = Append(queue, e),
               e.type # "channel-new",
               \A s \in Requests :
                 Announcing(s)' => Announcing(s) /\ req'[s] = req[s]
        PROVE  AnnouncedOnce'
    <2>1. \A i \in 1..Len(queue') :
            queue'[i].type = "channel-new" =>
              i \in 1..Len(queue) /\ queue'[i] = queue[i]
      BY <1>a, <1>2
    <2>. QED
      BY <1>2, <2>1
  <1>3. CASE Consume /\ req' = req
    <2>1. \A i \in 1..Len(queue') :
            i + 1 \in 1..Len(queue) /\ queue'[i] = queue[i + 1]
      BY <1>a, <1>3 DEF Consume
    <2>2. \A i, j \in 1..Len(queue') :
            NewAt(i)' /\ NewAt(j)' /\ queue'[i].id = queue'[j].id =>
              i + 1 = j + 1
      BY <2>1
    <2>3. \A r \in Requests : Announcing(r)' = Announcing(r)
      BY <1>3 DEF Announcing, At
    <2>4. \A i \in 1..Len(queue'), r \in Requests :
            NewAt(i)' /\ Announcing(r)' => queue'[i].id # req'[r].id
      BY <1>3, <2>1, <2>3
    <2>5. \A i, j \in 1..Len(queue') : i + 1 = j + 1 => i = j
      OBVIOUS
    <2>. QED
      BY <1>3, <2>2, <2>3, <2>4, <2>5
  <1>4. ASSUME NEW r \in Requests, Insert(r), queue' = queue,
               docs[req[r].id] = Unborn, req'[r].id = req[r].id,
               \A s \in Requests \ {r} : req'[s] = req[s]
        PROVE  AnnouncedOnce'
    <2>1. \A i \in 1..Len(queue) : NewAt(i) => queue[i].id # req[r].id
      BY <1>4 DEF Inv, AnnouncedAfterCommit
    <2>2. \A s \in Requests : Announcing(s) => req[s].id # req[r].id
      BY <1>4 DEF Inv, Born, Active, Inserting, Announcing, At
    <2>3. \A s \in Requests \ {r} : Announcing(s)' => Announcing(s)
      BY <1>4 DEF Announcing, At
    <2>. QED
      BY <1>4, <2>1, <2>2, <2>3
  <1>5. ASSUME NEW r \in Requests, Announcing(r), ~Announcing(r)',
               \/ queue' = queue
               \/ queue' = Append(queue,
                    Event("channel-new", req[r].id, req[r].seen)),
               \A s \in Requests \ {r} : req'[s] = req[s]
        PROVE  AnnouncedOnce'
    <2>1. \A s \in Requests :
            Announcing(s)' => Announcing(s) /\ s # r /\ req'[s] = req[s]
      BY <1>5 DEF Announcing, At
    <2>2. CASE queue' = queue
      BY <2>1, <2>2
    <2>3. CASE queue' = Append(queue,
                          Event("channel-new", req[r].id, req[r].seen))
      <3>1. \A i \in 1..Len(queue') :
              \/ i \in 1..Len(queue) /\ queue'[i] = queue[i]
              \/ i = Len(queue) + 1 /\ queue'[i].id = req[r].id
        BY <1>a, <2>3 DEF Event
      <3>. QED
        BY <1>5, <2>1, <3>1
    <2>. QED
      BY <1>5, <2>2, <2>3
  <1>. QED
    BY <1>1, <1>2, <1>3, <1>4, <1>5, AnnouncingStep

\* Channel c, created by u, is stored and still to be heard of.
Upcoming(c, u) ==
  \/ \E i \in 1..Len(queue) :
       NewAt(i) /\ queue[i].id = c /\ queue[i].doc.creator = u
  \/ \E r \in Requests :
       Announcing(r) /\ req[r].id = c /\ req[r].seen.creator = u

\* Only an insert brings a channel still to be heard of.
LEMMA UpcomingStep ==
  ASSUME Inv, Undisturbed, NEW c, NEW u, Upcoming(c, u)'
  PROVE  \/ Upcoming(c, u)
         \/ \E r \in Requests :
              /\ Insert(r) /\ req[r].op = "postChannel" /\ req[r].id = c
              /\ req[r].user = u
  <1>. USE DEF Upcoming, NewAt
  <1>a. queue \in Seq(Events)
    BY DEF Inv, TypeOK
  <1>1. CASE /\ queue' = queue
             /\ \A s \in Requests :
                  Announcing(s)' => Announcing(s) /\ req'[s] = req[s]
    BY <1>1
  <1>2. ASSUME NEW e \in Events, queue' = Append(queue, e),
               e.type # "channel-new",
               \A s \in Requests :
                 Announcing(s)' => Announcing(s) /\ req'[s] = req[s]
        PROVE  Upcoming(c, u)
    <2>1. \A i \in 1..Len(queue') :
            queue'[i].type = "channel-new" =>
              i \in 1..Len(queue) /\ queue'[i] = queue[i]
      BY <1>a, <1>2
    <2>. QED
      BY <1>2, <2>1
  <1>3. CASE Consume /\ req' = req
    <2>1. \A i \in 1..Len(queue') :
            i + 1 \in 1..Len(queue) /\ queue'[i] = queue[i + 1]
      BY <1>a, <1>3 DEF Consume
    <2>. QED
      BY <1>3, <2>1 DEF Announcing, At
  <1>4. ASSUME NEW r \in Requests, Insert(r), req[r].op = "postChannel",
               queue' = queue, req'[r].id = req[r].id,
               req'[r].seen.creator = req[r].user,
               \A s \in Requests \ {r} : req'[s] = req[s]
        PROVE  \/ Upcoming(c, u)
               \/ req[r].id = c /\ req[r].user = u
    <2>1. \A s \in Requests \ {r} : Announcing(s)' => Announcing(s)
      BY <1>4 DEF Announcing, At
    <2>. QED
      BY <1>4, <2>1
  <1>5. ASSUME NEW r \in Requests, Announcing(r), ~Announcing(r)',
               \/ queue' = queue
               \/ queue' = Append(queue,
                    Event("channel-new", req[r].id, req[r].seen)),
               \A s \in Requests \ {r} : req'[s] = req[s]
        PROVE  Upcoming(c, u)
    <2>1. \A s \in Requests :
            Announcing(s)' => Announcing(s) /\ req'[s] = req[s]
      BY <1>5 DEF Announcing, At
    <2>2. CASE queue' = queue
      BY <2>1, <2>2
    <2>3. CASE queue' = Append(queue,
                          Event("channel-new", req[r].id, req[r].seen))
      <3>1. \A i \in 1..Len(queue') :
              \/ i \in 1..Len(queue) /\ queue'[i] = queue[i]
              \/ queue'[i].id = req[r].id /\ queue'[i].doc = req[r].seen
        BY <1>a, <2>3 DEF Event
      <3>. QED
        BY <1>5, <2>1, <3>1
    <2>. QED
      BY <1>5, <2>2, <2>3
  <1>. QED
    BY <1>1, <1>2, <1>3, <1>4, <1>5, AnnouncingStep

\* What was heard of is not heard of again.
LEMMA HeardOf ==
  ASSUME Inv, AnnouncedOnce, Consume, NewAt(1), NEW c, c = queue[1].id, NEW u
  PROVE  ~Upcoming(c, u)'
  <1>. USE DEF AnnouncedOnce, NewAt
  <1>1. /\ 1 \in 1..Len(queue)
        /\ \A i \in 1..Len(queue') :
             /\ i + 1 \in 1..Len(queue) /\ i + 1 # 1
             /\ queue'[i] = queue[i + 1]
    BY DEF Inv, TypeOK, Consume
  <1>2. \A i \in 1..Len(queue') : NewAt(i)' => queue'[i].id # c
    BY <1>1
  <1>3. \A r \in Requests : Announcing(r)' => req'[r].id # c
    BY <1>1 DEF Consume, Announcing, At
  <1>. QED
    BY <1>2, <1>3 DEF Upcoming

\* A channel that has just been inserted is its creator's to keep.
LEMMA InsertedIsKept ==
  ASSUME Inv, NEW r \in Requests, Insert(r), req[r].op = "postChannel",
         NEW c, c = req[r].id, NEW u, u = req[r].user
  PROVE  Keeps(u, c)'
  <1>. DEFINE doc == [creator |-> u, text |-> req[r].text,
                      channel |-> req[r].channel]
  <1>1. /\ docs[c] = Unborn /\ c \in Channels /\ doc \in Doc
        /\ docs' = [docs EXCEPT ![c] = doc] /\ background' = background
        /\ Move(r, "reply", doc)
    BY DEF Insert, Inv, NewIds, Inserting, At, Posts, Kinds, Active, TypeOK,
           Reqs, Doc
  <1>2. docs'[c] = doc /\ doc.creator = u
    BY <1>1 DEF Inv, TypeOK, Ids
  <1>3. doc \notin {Unborn, Gone}
    BY <1>1, ConstantsDistinct
  <1>4. ~\E b \in background : b.id = c
    BY <1>1 DEF Inv, Born
  <1>5. \A s \in Requests : Active(s) /\ req[s].op = "deleteChannel" =>
                              req[s].id # c
    BY <1>1 DEF Inv, Born, Inserting, Posts
  <1>6. /\ \A s \in Requests \ {r} : req'[s] = req[s]
        /\ req'[r].op = "postChannel"
    BY <1>1, MoveReq DEF Inv, Phases
  <1>7. \A s \in Requests : Active(s)' /\ req'[s].op = "deleteChannel" =>
                              req'[s].id # c
    BY <1>5, <1>6 DEF Active
  <1>. HIDE DEF doc
  <1>8. Stored(c)' /\ docs'[c].creator = u
    BY <1>2, <1>3 DEF Stored
  <1>9. ~Deleting(c)'
    BY <1>1, <1>4 DEF Deleting
  <1>. QED
    BY <1>7, <1>8, <1>9 DEF Keeps

\* At the beginning nothing is announced.
LEMMA UndisturbedInit ==
  ASSUME Init
  PROVE  AnnouncedGoing /\ AnnouncedOnce /\ GeneralStays
  <1>1. AnnouncedGoing /\ AnnouncedOnce
    BY DEF Init, AnnouncedGoing, AnnouncedOnce, Announcing, At, NoRequest
  <1>2. /\ docs[General] = DefaultChannel /\ DefaultChannel \in Doc
        /\ DefaultChannel.creator = Nobody /\ background = {}
    BY ConstantsDistinct DEF Init, DefaultChannel, Ids, Doc, Texts
  <1>3. GeneralStays
    BY <1>2, ConstantsDistinct DEF GeneralStays, Stored, Deleting
  <1>. QED
    BY <1>1, <1>3

-----------------------------------------------------------------------------
(* The names of channels on their way to the tabs, while nothing fails and   *)
(* no two requests are changing one channel at the same time.                *)

NameOps == {"postChannel", "patchChannel"}

OneAtATime ==
  \A r, s \in Requests :
    /\ Active(r) /\ Active(s) /\ {req[r].op, req[s].op} \subseteq NameOps
    /\ req[r].id = req[s].id
    => r = s

\* r has changed the name of channel c, and has still to announce it.
Carries(r, c) ==
  At(r, "reply") /\ req[r].op \in NameOps /\ req[r].id = c

Renaming(c) ==
  \E r \in Requests : Carries(r, c) /\ req[r].op = "patchChannel"

UpdateAt(i, c) == queue[i].type = "channel-update" /\ queue[i].id = c

CreationAt(i, c) == NewAt(i) /\ queue[i].id = c

LastUpdate(i, c) ==
  UpdateAt(i, c) /\ \A j \in 1..Len(queue) : UpdateAt(j, c) => j <= i

\* No change of c is under way.
NameTold(c) == ~Renaming(c) /\ \A i \in 1..Len(queue) : ~UpdateAt(i, c)

\* A channel's creation is announced before its changes.
CreatedFirst(c) ==
  /\ \A i, j \in 1..Len(queue) : UpdateAt(i, c) /\ CreationAt(j, c) => j < i
  /\ \A i \in 1..Len(queue), r \in Requests :
       UpdateAt(i, c) => ~(Announcing(r) /\ req[r].id = c)

\* The last announcement still to be heard carries the name c has.
NameCarried(c) ==
  /\ \A r \in Requests : Carries(r, c) =>
       req[r].seen # Null /\ req[r].seen.text = docs[c].text
  /\ ~Renaming(c) => \A i \in 1..Len(queue) :
       LastUpdate(i, c) => queue[i].doc.text = docs[c].text
  /\ NameTold(c) => \A i \in 1..Len(queue) :
       CreationAt(i, c) => queue[i].doc.text = docs[c].text

NamesCarried ==
  \A c \in Channels : Stored(c) => NameCarried(c) /\ CreatedFirst(c)

\* Nothing happens to the name of c.
Untouched(c) ==
  /\ Stored(c) /\ docs'[c].text = docs[c].text
  /\ \A s \in Requests :
       /\ Carries(s, c)' <=> Carries(s, c)
       /\ Carries(s, c) => req'[s] = req[s]

\* What a step does to the name of a channel that stays, or is inserted.
LEMMA NameStep ==
  ASSUME Inv, Undisturbed, OneAtATime, mqChannel = "open",
         NEW c \in Channels, Stored(c)'
  PROVE  \/ /\ Untouched(c)
            /\ \/ queue' = queue
               \/ \E e \in Events :
                    /\ queue' = Append(queue, e)
                    /\ ~(e.type \in {"channel-new", "channel-update"}
                         /\ e.id = c)
         \/ Consume /\ UNCHANGED <<docs, req>>
         \/ \E r \in Requests :
              /\ Insert(r) /\ docs[c] = Unborn /\ queue' = queue
              /\ req'[r].op = "postChannel" /\ req'[r].id = c
              /\ req'[r].pc = "reply" /\ req'[r].seen = docs'[c]
              /\ \A s \in Requests \ {r} : req'[s] = req[s]
         \/ \E r \in Requests :
              /\ Update(r) /\ Stored(c) /\ queue' = queue
              /\ req'[r].op = "patchChannel" /\ req'[r].id = c
              /\ req'[r].pc = "reply" /\ req'[r].seen = docs'[c]
              /\ \A s \in Requests \ {r} : req'[s] = req[s] /\ ~Carries(s, c)
         \/ \E r \in Requests :
              /\ Reply(r) /\ Stored(c) /\ docs' = docs
              /\ Carries(r, c) /\ ~Carries(r, c)'
              /\ queue' = Append(queue, EventOf(req[r]))
              /\ \A s \in Requests \ {r} : req'[s] = req[s] /\ ~Carries(s, c)
  <1>. DEFINE Quiet ==
         /\ Untouched(c)
         /\ \/ queue' = queue
            \/ \E e \in Events :
                 /\ queue' = Append(queue, e)
                 /\ ~(e.type \in {"channel-new", "channel-update"}
                      /\ e.id = c)
  <1>. USE DEF Inv
  <1>a. Monotone
    BY UndisturbedNext, DocsStep
  <1>b. c \in Ids /\ docs \in [Ids -> Doc \cup {Unborn, Gone}]
        /\ req \in [Requests -> Reqs]
    BY DEF Ids, TypeOK
  <1>c. ASSUME docs'[c] = docs[c],
               \A s \in Requests :
                 req'[s] # req[s] => ~Carries(s, c) /\ ~Carries(s, c)'
        PROVE  Untouched(c)
    <2>1. Stored(c)
      BY <1>c DEF Stored
    <2>2. \A s \in Requests : Carries(s, c)' <=> Carries(s, c)
      BY <1>c DEF Carries, At
    <2>3. \A s \in Requests : Carries(s, c) => req'[s] = req[s]
      BY <1>c
    <2>. QED
      BY <1>c, <2>1, <2>2, <2>3 DEF Untouched
  <1>1. ASSUME NEW r \in Requests, Arrive(r) PROVE Quiet
    BY <1>1, <1>c, ArriveReq DEF Carries, At, Active
  <1>2. ASSUME NEW r \in Requests, FindOne(r) \/ Proceed(r) PROVE Quiet
    <2>1. PICK pc \in {"check", "write"}, seen \in Doc \cup {Null} :
            Move(r, pc, seen)
      BY <1>2, MoveOn
    <2>. QED
      BY <1>2, <1>c, <2>1, MoveReq, MoveOn
         DEF Phases, Carries, At, FindOne, Proceed
  <1>3. ASSUME NEW r \in Requests, Refuse(r) \/ Throw(r) PROVE Quiet
    <2>1. queue' = queue /\ ~Carries(r, c)
      BY <1>3 DEF Refuse, Throw, Carries, At
    <2>. QED
      BY <1>3, <1>c, <2>1, EndReq DEF Carries, At
  <1>4. ASSUME NEW r \in Requests, ProceedDeleteChannel(r) PROVE Quiet
    <2>. DEFINE e == Event("channel-delete", req[r].id, Null)
    <2>1. /\ e \in Events
          /\ ~(e.type \in {"channel-new", "channel-update"} /\ e.id = c)
      BY <1>4 DEF Event, Events, EventTypes, ProceedDeleteChannel, At, Kinds,
                  Active, Ids
    <2>2. queue' = Append(queue, e) /\ ~Carries(r, c)
      BY <1>4 DEF ProceedDeleteChannel, SendToMQ, Carries, At
    <2>. HIDE DEF e
    <2>. QED
      BY <1>4, <1>c, <2>1, <2>2, EndReq DEF Carries, At
  <1>5. ASSUME NEW r \in Requests, Reply(r), ~Carries(r, c) PROVE Quiet
    <2>. DEFINE e == EventOf(req[r])
    <2>1. e \in Events
      BY <1>5, EventOfType DEF Reply
    <2>2. ~(e.type \in {"channel-new", "channel-update"} /\ e.id = c)
      <3>1. c # Null
        BY ConstantsDistinct, <1>b
      <3>. QED
        BY <1>5, <3>1 DEF Reply, At, Kinds, EventOf, Event, Posts, Edits,
                          Carries, NameOps
    <2>3. queue' = Append(queue, e)
      BY <1>5 DEF Reply, SendToMQ
    <2>. HIDE DEF e
    <2>. QED
      BY <1>5, <1>c, <2>1, <2>2, <2>3, EndReq DEF Carries, At
  <1>6. ASSUME NEW r \in Requests, Reply(r), Carries(r, c)
        PROVE  /\ Stored(c) /\ docs' = docs /\ ~Carries(r, c)'
               /\ queue' = Append(queue, EventOf(req[r]))
               /\ \A s \in Requests \ {r} :
                    req'[s] = req[s] /\ ~Carries(s, c)
    <2>1. /\ docs' = docs /\ req'[r].pc = "idle"
          /\ \A s \in Requests \ {r} : req'[s] = req[s]
      BY <1>6, EndReq
    <2>2. queue' = Append(queue, EventOf(req[r]))
      BY <1>6 DEF Reply, SendToMQ
    <2>3. \A s \in Requests \ {r} : ~Carries(s, c)
      BY <1>6 DEF OneAtATime, Carries, At, Active
    <2>. QED
      BY <2>1, <2>2, <2>3 DEF Stored, Carries, At
  <1>7. ASSUME NEW r \in Requests, Insert(r) \/ Update(r) \/ Delete(r),
               ~(req[r].op \in NameOps /\ req[r].id = c)
        PROVE  Quiet
    <2>1. PICK seen \in Doc \cup {Null} : Move(r, "reply", seen)
      BY <1>7, WriteReturns
    <2>2. /\ \A s \in Requests \ {r} : req'[s] = req[s]
          /\ req'[r].op = req[r].op /\ req'[r].id = req[r].id
      BY <2>1, MoveReq DEF Phases
    <2>3. queue' = queue
      BY <1>7 DEF Insert, Update, Delete
    <2>4. req[r].id # c
      BY <1>7, ConstantsDistinct
         DEF Insert, Update, Delete, At, Kinds, Active, NameOps
    <2>5. docs'[c] = docs[c]
      BY <1>7, <1>b, <2>4 DEF Insert, Update, Delete
    <2>. QED
      BY <1>7, <1>c, <2>2, <2>3, <2>5 DEF Carries
  <1>8. ASSUME NEW r \in Requests, Insert(r), req[r].op \in NameOps,
               req[r].id = c
        PROVE  /\ docs[c] = Unborn /\ queue' = queue
               /\ req'[r].op = "postChannel" /\ req'[r].id = c
               /\ req'[r].pc = "reply" /\ req'[r].seen = docs'[c]
               /\ \A s \in Requests \ {r} : req'[s] = req[s]
    <2>. DEFINE doc == [creator |-> req[r].user, text |-> req[r].text,
                        channel |-> req[r].channel]
    <2>1. /\ Move(r, "reply", doc) /\ queue' = queue
          /\ docs' = [docs EXCEPT ![c] = doc]
          /\ req[r].op = "postChannel"
      BY <1>8 DEF Insert, NameOps
    <2>2. doc \in Doc
      BY <1>8 DEF TypeOK, Kinds, Insert, At, Posts, Doc, Reqs
    <2>3. docs[c] = Unborn
      BY <1>8 DEF Insert, NewIds, Inserting, At, Posts
    <2>. HIDE DEF doc
    <2>. QED
      BY <1>8, <1>b, <2>1, <2>2, <2>3, MoveReq DEF Phases
  <1>9. ASSUME NEW r \in Requests, Update(r), req[r].op \in NameOps,
               req[r].id = c
        PROVE  /\ Stored(c) /\ queue' = queue
               /\ req'[r].op = "patchChannel" /\ req'[r].id = c
               /\ req'[r].pc = "reply" /\ req'[r].seen = docs'[c]
               /\ \A s \in Requests \ {r} :
                    req'[s] = req[s] /\ ~Carries(s, c)
    <2>1. /\ Move(r, "reply",
                  IF Stored(c) THEN Updated(c, req[r].text) ELSE Null)
          /\ queue' = queue
          /\ docs' = [docs EXCEPT ![c] = Updated(c, req[r].text)]
          /\ req[r].op = "patchChannel" /\ At(r, "write")
      BY <1>9 DEF Update, NameOps
    <2>2. docs'[c] = Updated(c, req[r].text)
      BY <1>b, <2>1
    <2>3. Stored(c)
      BY <2>2 DEF Stored, Updated
    <2>4. Updated(c, req[r].text) \in Doc
      BY <1>b, <2>3 DEF Updated, Stored, Doc, Reqs
    <2>5. \A s \in Requests \ {r} : ~Carries(s, c)
      BY <1>9, <2>1 DEF OneAtATime, Carries, At, Active
    <2>6. /\ req'[r].op = "patchChannel" /\ req'[r].id = c
          /\ req'[r].pc = "reply" /\ req'[r].seen = docs'[c]
          /\ \A s \in Requests \ {r} : req'[s] = req[s]
      BY <1>9, <2>1, <2>2, <2>3, <2>4, MoveReq DEF Phases
    <2>. QED
      BY <2>1, <2>3, <2>5, <2>6
  <1>10. ASSUME NEW b \in background, RunDeletion(b) PROVE Quiet
    <2>1. queue' = queue /\ req' = req
      BY <1>10 DEF RunDeletion, DeleteAll, DeleteChannelDoc
    <2>2. docs'[c] = docs[c]
      BY <1>10, <1>b, ConstantsDistinct
         DEF RunDeletion, DeleteAll, DeleteChannelDoc, Stored
    <2>. QED
      BY <1>c, <2>1, <2>2
  <1>11. UNCHANGED vars => Quiet
    BY <1>c DEF vars
  <1>12. Consume => UNCHANGED <<docs, req>>
    BY DEF Consume
  <1>13. ASSUME NEW r \in Requests, Delete(r)
         PROVE  req[r].op \notin NameOps
    BY <1>13 DEF Delete, NameOps
  <1>. HIDE DEF Quiet
  <1>14. ASSUME NEW r \in Requests, Advance(r)
         PROVE  \/ Quiet
                \/ Insert(r) /\ req[r].op \in NameOps /\ req[r].id = c
                \/ Update(r) /\ req[r].op \in NameOps /\ req[r].id = c
                \/ Reply(r) /\ Carries(r, c)
    BY <1>2, <1>3, <1>4, <1>5, <1>7, <1>13, <1>14 DEF Advance
  <1>15. \/ Quiet
         \/ Consume
         \/ \E r \in Requests :
              \/ Insert(r) /\ req[r].op \in NameOps /\ req[r].id = c
              \/ Update(r) /\ req[r].op \in NameOps /\ req[r].id = c
              \/ Reply(r) /\ Carries(r, c)
    BY <1>1, <1>10, <1>11, <1>14 DEF Undisturbed
  <1>. QED
    BY <1>6, <1>8, <1>9, <1>12, <1>15 DEF Quiet

\* A document no insert has used is announced nowhere.
LEMMA UnbornUnheard ==
  ASSUME Inv, Collections, NEW c \in Channels, docs[c] = Unborn
  PROVE  /\ \A i \in 1..Len(queue) : ~UpdateAt(i, c) /\ ~CreationAt(i, c)
         /\ \A r \in Requests : ~Carries(r, c)
  <1>1. ASSUME NEW i \in 1..Len(queue), UpdateAt(i, c) PROVE FALSE
    <2>1. Announced(queue[i]) /\ c # Null
      BY ConstantsDistinct DEF Collections, AnnouncedAsStored, Ids
    <2>. QED
      BY <1>1, <2>1 DEF UpdateAt, Announced, Version
  <1>2. ASSUME NEW i \in 1..Len(queue), CreationAt(i, c) PROVE FALSE
    BY <1>2 DEF CreationAt, NewAt, Inv, AnnouncedAfterCommit
  <1>3. ASSUME NEW r \in Requests, Carries(r, c) PROVE FALSE
    BY <1>3 DEF Carries, At, Inv, Born, Active, Inserting
  <1>. QED
    BY <1>1, <1>2, <1>3

\* The last announcement keeps carrying the name the channel has.
LEMMA NamesCarriedStep ==
  ASSUME Inv, Collections, NamesCarried, Undisturbed, OneAtATime,
         mqChannel = "open"
  PROVE  NamesCarried'
  <1>. SUFFICES ASSUME NEW c \in Channels, Stored(c)'
                PROVE  (NameCarried(c) /\ CreatedFirst(c))'
    BY DEF NamesCarried
  <1>a. queue \in Seq(Events)
    BY DEF Inv, TypeOK
  <1>b. Stored(c) => NameCarried(c) /\ CreatedFirst(c)
    BY DEF NamesCarried
  <1>1. CASE /\ Untouched(c)
             /\ \/ queue' = queue
                \/ \E e \in Events :
                     /\ queue' = Append(queue, e)
                     /\ ~(e.type \in {"channel-new", "channel-update"}
                          /\ e.id = c)
    <2>1. /\ Stored(c) /\ NameCarried(c) /\ CreatedFirst(c)
          /\ docs'[c].text = docs[c].text
      BY <1>1, <1>b DEF Untouched
    <2>2. \A s \in Requests : Carries(s, c)' =>
            Carries(s, c) /\ req'[s] = req[s]
      BY <1>1 DEF Untouched
    <2>3. Renaming(c) => Renaming(c)'
      BY <1>1 DEF Untouched, Renaming
    <2>4. \A i \in 1..Len(queue) :
            i \in 1..Len(queue') /\ queue'[i] = queue[i]
      BY <1>1, <1>a
    <2>5. \A i \in 1..Len(queue') :
            \/ i \in 1..Len(queue) /\ queue'[i] = queue[i]
            \/ ~(queue'[i].type \in {"channel-new", "channel-update"}
                 /\ queue'[i].id = c)
      BY <1>1, <1>a
    <2>6. \A i \in 1..Len(queue') :
            /\ UpdateAt(i, c)' => i \in 1..Len(queue) /\ UpdateAt(i, c)
                                  /\ queue'[i] = queue[i]
            /\ CreationAt(i, c)' => i \in 1..Len(queue) /\ CreationAt(i, c)
                                    /\ queue'[i] = queue[i]
      BY <2>5 DEF UpdateAt, CreationAt, NewAt
    <2>7. \A i \in 1..Len(queue) : UpdateAt(i, c) => UpdateAt(i, c)'
      BY <2>4 DEF UpdateAt
    <2>8. \A i \in 1..Len(queue') :
            LastUpdate(i, c)' => i \in 1..Len(queue) /\ LastUpdate(i, c)
                                 /\ queue'[i] = queue[i]
      BY <2>4, <2>6, <2>7 DEF LastUpdate
    <2>9. NameTold(c)' => NameTold(c)
      BY <2>3, <2>4, <2>7 DEF NameTold
    <2>10. NameCarried(c)'
      BY <2>1, <2>2, <2>3, <2>6, <2>8, <2>9 DEF NameCarried
    <2>11. \A s \in Requests : (Announcing(s) /\ req[s].id = c)' =>
             Announcing(s) /\ req[s].id = c
      BY <2>2 DEF Announcing, Carries, At, NameOps
    <2>12. CreatedFirst(c)'
      BY <2>1, <2>6, <2>11 DEF CreatedFirst
    <2>. QED
      BY <2>10, <2>12
  <1>2. CASE Consume /\ UNCHANGED <<docs, req>>
    <2>1. Stored(c) /\ NameCarried(c) /\ CreatedFirst(c)
      BY <1>2, <1>b DEF Stored
    <2>2. \A i \in 1..Len(queue') :
            i + 1 \in 1..Len(queue) /\ queue'[i] = queue[i + 1]
      BY <1>2, <1>a DEF Consume
    <2>3. \A i \in 1..Len(queue) :
            i = 1 \/ (i - 1 \in 1..Len(queue') /\ queue'[i - 1] = queue[i])
      BY <1>2, <1>a DEF Consume
    <2>4. \A i \in 1..Len(queue') :
            /\ UpdateAt(i, c)' <=> UpdateAt(i + 1, c)
            /\ CreationAt(i, c)' <=> CreationAt(i + 1, c)
      BY <2>2 DEF UpdateAt, CreationAt, NewAt
    <2>5. /\ \A s \in Requests : Carries(s, c)' <=> Carries(s, c)
          /\ Renaming(c)' <=> Renaming(c)
      BY <1>2 DEF Carries, Renaming, At
    <2>6. \A i \in 1..Len(queue') : LastUpdate(i, c)' => LastUpdate(i + 1, c)
      <3>. SUFFICES ASSUME NEW i \in 1..Len(queue'), LastUpdate(i, c)',
                           NEW j \in 1..Len(queue), UpdateAt(j, c)
                    PROVE  j <= i + 1
        BY <2>4 DEF LastUpdate
      <3>1. CASE j = 1
        BY <3>1
      <3>2. CASE j # 1
        <4>1. j - 1 \in 1..Len(queue') /\ UpdateAt(j - 1, c)'
          BY <2>3, <3>2 DEF UpdateAt
        <4>2. j - 1 <= i
          BY <4>1 DEF LastUpdate
        <4>. QED
          BY <4>2
      <3>. QED
        BY <3>1, <3>2
    <2>7. NameTold(c)' =>
            NameTold(c) \/ (~Renaming(c) /\ LastUpdate(1, c))
      <3>1. \A i \in 1..Len(queue) : i # 1 /\ UpdateAt(i, c) =>
              i - 1 \in 1..Len(queue') /\ UpdateAt(i - 1, c)'
        BY <2>3 DEF UpdateAt
      <3>. QED
        BY <2>5, <3>1 DEF NameTold, LastUpdate
    <2>8. \A i \in 1..Len(queue) : CreationAt(i, c) /\ LastUpdate(1, c) =>
            i = 1 /\ FALSE
      BY <2>1 DEF CreatedFirst, LastUpdate
    <2>9. \A r \in Requests : Carries(r, c)' =>
            req'[r].seen # Null /\ req'[r].seen.text = docs'[c].text
      BY <1>2, <2>1, <2>5 DEF NameCarried
    <2>10. ~Renaming(c)' => \A i \in 1..Len(queue') :
             LastUpdate(i, c)' => queue'[i].doc.text = docs'[c].text
      BY <1>2, <2>1, <2>2, <2>5, <2>6 DEF NameCarried
    <2>11. NameTold(c)' => \A i \in 1..Len(queue') :
             CreationAt(i, c)' => queue'[i].doc.text = docs'[c].text
      BY <1>2, <2>1, <2>2, <2>4, <2>7, <2>8 DEF NameCarried
    <2>12. NameCarried(c)'
      BY <2>9, <2>10, <2>11 DEF NameCarried
    <2>13. CreatedFirst(c)'
      <3>1. \A i, j \in 1..Len(queue') :
              UpdateAt(i, c)' /\ CreationAt(j, c)' => j + 1 < i + 1
        BY <2>1, <2>2, <2>4 DEF CreatedFirst
      <3>2. \A i, j \in 1..Len(queue') : j + 1 < i + 1 => j < i
        OBVIOUS
      <3>3. \A s \in Requests : Announcing(s)' <=> Announcing(s)
        BY <1>2 DEF Announcing, At
      <3>. QED
        BY <1>2, <2>1, <2>2, <2>4, <3>1, <3>2, <3>3 DEF CreatedFirst
    <2>. QED
      BY <2>12, <2>13
  <1>3. ASSUME NEW r \in Requests, docs[c] = Unborn, queue' = queue,
               req'[r].op = "postChannel", req'[r].id = c,
               req'[r].pc = "reply", req'[r].seen = docs'[c],
               \A s \in Requests \ {r} : req'[s] = req[s]
        PROVE  (NameCarried(c) /\ CreatedFirst(c))'
    <2>1. /\ \A i \in 1..Len(queue) : ~UpdateAt(i, c) /\ ~CreationAt(i, c)
          /\ \A s \in Requests : ~Carries(s, c)
      BY <1>3, UnbornUnheard
    <2>2. /\ \A i \in 1..Len(queue') : ~UpdateAt(i, c)' /\ ~CreationAt(i, c)'
          /\ \A s \in Requests : Carries(s, c)' => s = r
      BY <1>3, <2>1 DEF UpdateAt, CreationAt, NewAt, Carries, At
    <2>3. docs'[c] # Null
      BY ConstantsDistinct, UndisturbedNext, TypeStep
         DEF Inv, TypeOK, Stored, Ids
    <2>. QED
      BY <1>3, <2>2, <2>3 DEF NameCarried, CreatedFirst, LastUpdate
  <1>4. ASSUME NEW r \in Requests, Stored(c), queue' = queue,
               req'[r].op = "patchChannel", req'[r].id = c,
               req'[r].pc = "reply", req'[r].seen = docs'[c],
               \A s \in Requests \ {r} : req'[s] = req[s] /\ ~Carries(s, c)
        PROVE  (NameCarried(c) /\ CreatedFirst(c))'
    <2>1. \A s \in Requests : Carries(s, c)' => s = r
      BY <1>4 DEF Carries, At
    <2>2. Renaming(c)'
      BY <1>4 DEF Renaming, Carries, At, NameOps
    <2>3. docs'[c] # Null
      BY ConstantsDistinct, UndisturbedNext, TypeStep
         DEF Inv, TypeOK, Stored, Ids
    <2>4. \A i \in 1..Len(queue') :
            /\ UpdateAt(i, c)' <=> UpdateAt(i, c)
            /\ CreationAt(i, c)' <=> CreationAt(i, c)
      BY <1>4 DEF UpdateAt, CreationAt, NewAt
    <2>5. \A s \in Requests : ~(Announcing(s) /\ req[s].id = c)'
      BY <1>4, <2>1 DEF Announcing, Carries, At, NameOps
    <2>. QED
      BY <1>b, <1>4, <2>1, <2>2, <2>3, <2>4, <2>5
         DEF NameCarried, CreatedFirst, NameTold
  <1>5. ASSUME NEW r \in Requests, At(r, "reply"), Stored(c), docs' = docs,
               Carries(r, c), ~Carries(r, c)',
               queue' = Append(queue, EventOf(req[r])),
               \A s \in Requests \ {r} : req'[s] = req[s] /\ ~Carries(s, c)
        PROVE  (NameCarried(c) /\ CreatedFirst(c))'
    <2>. PICK n : n = Len(queue) + 1
      OBVIOUS
    <2>. DEFINE e == EventOf(req[r])
    <2>1. /\ NameCarried(c) /\ CreatedFirst(c)
          /\ req[r].seen # Null /\ req[r].seen.text = docs[c].text
      BY <1>b, <1>5 DEF NameCarried
    <2>2. /\ e.id = c /\ e.doc.text = docs'[c].text
          /\ e.type = IF req[r].op = "postChannel" THEN "channel-new"
                      ELSE "channel-update"
      BY <1>5, <2>1 DEF EventOf, Event, Carries, NameOps
    <2>3. \A s \in Requests : ~Carries(s, c)'
      BY <1>5 DEF Carries, At
    <2>. HIDE DEF e
    <2>4. /\ Len(queue') = n /\ n \in 1..n /\ queue'[n] = e
          /\ \A i \in 1..n :
               i = n \/ (i \in 1..Len(queue) /\ queue'[i] = queue[i] /\ i < n)
          /\ \A i \in 1..Len(queue) : i \in 1..n /\ queue'[i] = queue[i]
      BY <1>5, <1>a DEF e
    <2>5. \A i \in 1..Len(queue) :
            /\ UpdateAt(i, c)' <=> UpdateAt(i, c)
            /\ CreationAt(i, c)' <=> CreationAt(i, c)
      BY <2>4 DEF UpdateAt, CreationAt, NewAt
    <2>6. \A s \in Requests : ~(Announcing(s) /\ req[s].id = c)'
      BY <2>3 DEF Announcing, Carries, NameOps
    <2>7. CASE req[r].op = "postChannel"
      <3>1. \A i \in 1..Len(queue) : ~UpdateAt(i, c)
        BY <1>5, <2>1, <2>7 DEF CreatedFirst, Announcing, Carries
      <3>2. ~UpdateAt(n, c)'
        BY <2>2, <2>4, <2>7 DEF UpdateAt
      <3>3. \A i \in 1..n : ~UpdateAt(i, c)'
        BY <2>4, <2>5, <3>1, <3>2
      <3>4. ~Renaming(c)
        BY <1>5, <2>7 DEF Renaming
      <3>5. NameTold(c)
        BY <3>1, <3>4 DEF NameTold
      <3>6. \A i \in 1..n : CreationAt(i, c)' =>
              queue'[i].doc.text = docs'[c].text
        BY <1>5, <2>1, <2>2, <2>4, <2>5, <3>5 DEF NameCarried
      <3>. QED
        BY <2>3, <2>4, <2>6, <3>3, <3>6
           DEF NameCarried, CreatedFirst, LastUpdate
    <2>8. CASE req[r].op # "postChannel"
      <3>1. UpdateAt(n, c)' /\ ~CreationAt(n, c)'
        BY <2>2, <2>4, <2>8 DEF UpdateAt, CreationAt, NewAt
      <3>2. \A i \in 1..n : LastUpdate(i, c)' => i = n
        <4>. SUFFICES ASSUME NEW i \in 1..n, LastUpdate(i, c)', i # n
                      PROVE  FALSE
          OBVIOUS
        <4>1. n <= i /\ i < n
          BY <2>4, <3>1 DEF LastUpdate
        <4>2. n \in Nat
          BY <1>a
        <4>. QED
          BY <4>1, <4>2
      <3>3. ~NameTold(c)'
        BY <2>4, <3>1 DEF NameTold
      <3>4. \A i, j \in 1..n : UpdateAt(i, c)' /\ CreationAt(j, c)' => j < i
        <4>. SUFFICES ASSUME NEW i \in 1..n, NEW j \in 1..n,
                             UpdateAt(i, c)', CreationAt(j, c)'
                      PROVE  j < i
          OBVIOUS
        <4>1. j # n
          BY <3>1
        <4>2. CASE i = n
          BY <2>4, <4>1, <4>2
        <4>3. CASE i # n
          BY <2>1, <2>4, <2>5, <4>1, <4>3 DEF CreatedFirst
        <4>. QED
          BY <4>2, <4>3
      <3>. QED
        BY <2>2, <2>3, <2>4, <2>6, <3>2, <3>3, <3>4
           DEF NameCarried, CreatedFirst
    <2>. QED
      BY <2>7, <2>8
  <1>. QED
    BY <1>1, <1>2, <1>3, <1>4, <1>5, NameStep DEF Reply

\* A change of c is over when its announcement is heard, and no other way.
LEMMA NameToldStep ==
  ASSUME Inv, Collections, NamesCarried, Undisturbed, OneAtATime,
         mqChannel = "open", NEW c \in Channels, Stored(c)', NameTold(c)'
  PROVE  \/ Stored(c) /\ NameTold(c) /\ docs'[c].text = docs[c].text
         \/ docs[c] = Unborn
         \/ /\ Consume /\ UNCHANGED <<docs, req>>
            /\ \/ NameTold(c)
               \/ ~Renaming(c) /\ LastUpdate(1, c)
  <1>a. queue \in Seq(Events)
    BY DEF Inv, TypeOK
  <1>1. CASE /\ Untouched(c)
             /\ \/ queue' = queue
                \/ \E e \in Events : queue' = Append(queue, e)
    <2>1. \A i \in 1..Len(queue) :
            i \in 1..Len(queue') /\ queue'[i] = queue[i]
      BY <1>1, <1>a
    <2>2. \A i \in 1..Len(queue) : ~UpdateAt(i, c)
      BY <2>1 DEF NameTold, UpdateAt
    <2>3. ~Renaming(c)
      BY <1>1 DEF NameTold, Renaming, Untouched
    <2>. QED
      BY <1>1, <2>2, <2>3 DEF NameTold, Untouched
  <1>2. CASE Consume /\ UNCHANGED <<docs, req>>
    <2>1. ~Renaming(c)
      BY <1>2 DEF NameTold, Renaming, Carries, At
    <2>2. \A i \in 1..Len(queue) :
            i = 1 \/ (i - 1 \in 1..Len(queue') /\ queue'[i - 1] = queue[i])
      BY <1>2, <1>a DEF Consume
    <2>3. \A i \in 1..Len(queue) : UpdateAt(i, c) => i = 1
      BY <2>2 DEF NameTold, UpdateAt
    <2>. QED
      BY <1>2, <2>1, <2>3 DEF NameTold, LastUpdate
  <1>3. ASSUME NEW r \in Requests, req'[r].op = "patchChannel",
               req'[r].id = c, req'[r].pc = "reply"
        PROVE  FALSE
    BY <1>3 DEF NameTold, Renaming, Carries, At, NameOps
  <1>4. ASSUME NEW r \in Requests, At(r, "reply"), Stored(c), docs' = docs,
               Carries(r, c), queue' = Append(queue, EventOf(req[r])),
               \A s \in Requests \ {r} : ~Carries(s, c)
        PROVE  NameTold(c)
    <2>1. NameCarried(c) /\ CreatedFirst(c)
      BY <1>4 DEF NamesCarried
    <2>2. CASE req[r].op = "postChannel"
      <3>1. \A i \in 1..Len(queue) : ~UpdateAt(i, c)
        BY <1>4, <2>1, <2>2 DEF CreatedFirst, Announcing, Carries
      <3>. QED
        BY <1>4, <2>2, <3>1 DEF NameTold, Renaming
    <2>3. CASE req[r].op = "patchChannel"
      <3>1. EventOf(req[r]).type = "channel-update" /\ EventOf(req[r]).id = c
        BY <1>4, <2>1, <2>3 DEF NameCarried, EventOf, Event, Carries
      <3>2. /\ Len(queue) + 1 \in 1..Len(queue')
            /\ queue'[Len(queue) + 1] = EventOf(req[r])
        BY <1>4, <1>a
      <3>3. FALSE
        BY <3>1, <3>2 DEF NameTold, UpdateAt
      <3>. QED
        BY <3>3
    <2>. QED
      BY <1>4, <2>2, <2>3 DEF Carries, NameOps
  <1>. QED
    BY <1>1, <1>2, <1>3, <1>4, NameStep DEF Reply

\* The connection to RabbitMQ stays open.
LEMMA StaysOpen ==
  ASSUME Inv, Undisturbed
  PROVE  mqChannel' = mqChannel
  BY ArriveReq
     DEF Undisturbed, Advance, FindOne, Refuse, Throw, Proceed,
         ProceedDeleteChannel, Insert, Update, Delete, Reply, SendToMQ,
         RunDeletion, DeleteAll, DeleteChannelDoc, Consume, vars, Inv

\* At the beginning nothing is on its way.
LEMMA NamesCarriedInit ==
  ASSUME Init
  PROVE  NamesCarried /\ mqChannel = "open"
  BY DEF Init, NamesCarried, NameCarried, CreatedFirst, Carries, At,
         NoRequest, Announcing

-----------------------------------------------------------------------------
(* The theorems. *)

\* The service starts in a state of the invariant.
LEMMA InvInit == Init => Inv
  <1>. SUFFICES ASSUME Init PROVE Inv
    OBVIOUS
  <1>1. TypeOK
    BY ConstantsDistinct DEF Init, TypeOK, Ids, Doc, DefaultChannel, Reqs,
         Texts, Phases, NoRequest, Deletions
  <1>2. Kinds /\ NewIds /\ Born /\ SeenCreator
    BY DEF Init, Kinds, NewIds, Born, SeenCreator, Inserting, Active,
         NoRequest
  <1>3. OnlyCreatorWrites /\ AnnouncedAfterCommit
    BY DEF Init, OnlyCreatorWrites, AnnouncedAfterCommit, NoRequest
  <1>. QED
    BY <1>1, <1>2, <1>3 DEF Inv

\* Every step keeps the invariant.
LEMMA InvStep == Inv /\ [Next]_vars => Inv'
  BY TypeStep, KindsStep, NewIdsStep, BornStep, SeenCreatorStep,
     OnlyCreatorStep, AnnouncedStep
     DEF Inv

\* Inv is inductive.
THEOREM Invariant == Spec => []Inv
  BY InvInit, InvStep, PTL DEF Spec

\* Documents, requests, deletions and events keep their shape.
THEOREM TypeCorrect == Spec => []TypeOK
  <1>1. Inv => TypeOK
    BY DEF Inv
  <1>. QED
    BY <1>1, Invariant, PTL

\* The creator check is made on a copy read earlier, and is still right when
\* the write is executed, whatever the other handlers did in between.
THEOREM WritesAreTheCreators == Spec => []OnlyCreatorWrites
  <1>1. Inv => OnlyCreatorWrites
    BY DEF Inv
  <1>. QED
    BY <1>1, Invariant, PTL

\* No event of a creation or of a message's deletion runs ahead of MongoDB.
THEOREM AnnouncementsAreTrue == Spec => []AnnouncedAfterCommit
  <1>1. Inv => AnnouncedAfterCommit
    BY DEF Inv
  <1>. QED
    BY <1>1, Invariant, PTL

\* The copies handlers work on and events carry are versions of the documents
\* they are taken for: of the same creator, channel and collection, whatever
\* happens to the document meanwhile.
THEOREM CopiesAreVersions == Spec => []Collections
  BY InvInit, InvStep, CollectionsInit, CollectionsStep, PTL DEF Spec

\* Late edits neither revive a deleted document nor change its owner.
THEOREM DeletionsAreFinal == Spec => DeletionIsFinal
  <1>. DEFINE Final ==
         \A d \in Ids :
           /\ docs[d] = Gone => docs'[d] = Gone
           /\ Stored(d) /\ Stored(d)' =>
                /\ docs'[d].creator = docs[d].creator
                /\ docs'[d].channel = docs[d].channel
  <1>1. Inv /\ [Next]_vars => [Final]_vars
    <2>. SUFFICES ASSUME Inv, [Next]_vars PROVE Final
      OBVIOUS
    <2>. QED
      BY DocsStep DEF Inv, Monotone
  <1>. QED
    BY <1>1, Invariant, PTL DEF Spec, DeletionIsFinal

=============================================================================

------------------------------ MODULE Messaging ------------------------------
(***************************************************************************)
(* The messaging microservice (servers/messaging): the Express handlers    *)
(* that create, edit and delete channels and messages, the MongoDB         *)
(* collections they work on and the RabbitMQ queue they announce changes   *)
(* to.                                                                     *)
(*                                                                         *)
(* A handler is a promise chain: each database call is issued, executed by *)
(* MongoDB at some later moment, and answered to a callback later still.   *)
(* Between these three moments every other handler may run, so they are    *)
(* separate steps here.  The connection pool may execute and answer the    *)
(* calls of different requests in any order.                               *)
(*                                                                         *)
(* Both collections are one function from object identifiers to documents: *)
(* identifiers are globally unique.  A channel's name and a message's body *)
(* are the document's text; description and timestamps are left out.       *)
(***************************************************************************)
EXTENDS Naturals, Sequences, FiniteSets

CONSTANTS
  Users,          \* profiles the gateway forwards in the X-User header
  Nobody,         \* the JSON null it forwards when it finds no session state
  Channels,       \* object identifiers of channel documents
  Messages,       \* object identifiers of message documents
  General,        \* the default channel of a new installation
  Names,          \* channel names
  Bodies,         \* message bodies
  DefaultName,    \* the name "general"
  Requests,       \* concurrent HTTP requests
  Null,           \* no document, no identifier, no text
  Unborn,         \* an identifier no insert has used yet
  Gone,           \* an identifier whose document was deleted
  QueueBound,     \* bound of the model: no request starts beyond it
  DbErrors,       \* whether database calls may fail
  BrokerStops,    \* whether the RabbitMQ server may die
  Crashes         \* whether the service may die and be started again

Ids == Channels \cup Messages

Texts == Names \cup Bodies

Doc == [creator : Users \cup {Nobody},
        text    : Texts,
        channel : Channels \cup {Null}]

ASSUME ConstantsDistinct ==
  /\ Nobody \notin Users
  /\ Channels \cap Messages = {}
  /\ General \in Channels /\ DefaultName \in Names
  /\ Null \notin Ids /\ Null \notin Texts
  /\ {Null, Unborn, Gone} \cap Doc = {}
  /\ Unborn # Gone
  /\ QueueBound \in Nat
  /\ {DbErrors, BrokerStops, Crashes} \subseteq BOOLEAN

VARIABLES
  docs,         \* what MongoDB holds under each identifier
  req,          \* the state of each HTTP request
  background,   \* deletions issued by a handler that does not wait for them
  queue,        \* events published to RabbitMQ, not yet taken by the gateway
  mqChannel     \* the service's connection to RabbitMQ: "open" or "closed"

vars == <<docs, req, background, queue, mqChannel>>

-----------------------------------------------------------------------------
(* Documents. *)

Stored(d) == docs[d] \notin {Unborn, Gone}

\* Mutant of Found: a missing document is not turned into a null.
FoundRaw(d) == docs[d]

\* findOne(): the document, or null.
Found(d) == IF Stored(d) THEN docs[d] ELSE Null

\* new ObjectID(): an identifier nobody else was given.
Fresh(d) == docs[d] = Unborn /\ \A r \in Requests : req[r].id # d

(* Requests. *)

NoRequest == [pc |-> "idle", op |-> "none", user |-> Nobody, id |-> Null,
              channel |-> Null, text |-> Null, seen |-> Null]

\* An answer was sent, or an error ended the chain and none ever will be: the
\* handler is over either way.
Answered == NoRequest

Unanswered == NoRequest

At(r, pc) == req[r].pc = pc

\* r's handler goes on: to its next phase, with what the database returned.
Move(r, pc, seen) ==
  req' = [req EXCEPT ![r] = [@ EXCEPT !.pc = pc, !.seen = seen]]

Active(r) == req[r].pc \in {"find", "check", "write", "reply"}

\* No slot is free for a new request while the queue has no room for the
\* events of the requests already running.
MayStart(r) ==
  /\ ~Active(r)
  /\ Len(queue) + Cardinality({s \in Requests : Active(s)}) < QueueBound

(* Events. *)

EventTypes == {"channel-new", "channel-update", "channel-delete",
               "message-new", "message-update", "message-delete"}

Event(type, id, doc) == [type |-> type, id |-> id, doc |-> doc]

Events == [type : EventTypes, id : Ids \cup {Null}, doc : Doc \cup {Null}]

\* The event a handler sends when its database call is answered.  An update
\* carries whatever findOneAndUpdate() returned, and nothing else.
EventOf(q) ==
  CASE q.op = "postChannel"   -> Event("channel-new", q.id, q.seen)
    [] q.op = "postMessage"   -> Event("message-new", q.id, q.seen)
    [] q.op = "patchChannel"  ->
         Event("channel-update", IF q.seen = Null THEN Null ELSE q.id, q.seen)
    [] q.op = "patchMessage"  ->
         Event("message-update", IF q.seen = Null THEN Null ELSE q.id, q.seen)
    [] q.op = "deleteMessage" -> Event("message-delete", q.id, Null)

\* sendToMQ().  On a closed channel sendToQueue() throws after the answer was
\* sent, and the catch at the end of the chain only logs it.
SendToMQ(event) ==
  /\ queue' = IF mqChannel = "open" THEN Append(queue, event) ELSE queue
  /\ UNCHANGED mqChannel

(* Deletions no handler waits for. *)

Deletion(op, c, u) == [op |-> op, id |-> c, user |-> u]

Deletions == [op : {"deleteAll", "delete"}, id : Channels, user : Users]

-----------------------------------------------------------------------------
(* When the service starts it looks for a channel with the default name    *)
(* and inserts one, which has no creator, if there is none.                *)

DefaultChannel ==
  [creator |-> Nobody, text |-> DefaultName, channel |-> Null]

DefaultFound ==
  \E c \in Channels : Stored(c) /\ docs[c].text = DefaultName

Init ==
  /\ docs = [d \in Ids |-> IF d = General THEN DefaultChannel ELSE Unborn]
  /\ req = [r \in Requests |-> NoRequest]
  /\ background = {}
  /\ queue = <<>>
  /\ mqChannel = "open"

\* The service dies and is started again, with RabbitMQ running and a gateway
\* connected to it.  What was running in the service is lost, except deletions
\* MongoDB has already received.
Restart ==
  /\ Crashes
  /\ req' = [r \in Requests |-> IF Active(r) THEN Unanswered ELSE req[r]]
  /\ background' \in SUBSET background
  /\ \/ DefaultFound /\ UNCHANGED docs
     \/ /\ ~DefaultFound
        /\ \E c \in Channels :
             Fresh(c) /\ docs' = [docs EXCEPT ![c] = DefaultChannel]
  /\ mqChannel' = "open"
  /\ UNCHANGED queue

-----------------------------------------------------------------------------
(* A request arrives.  The handler's synchronous part runs at once and     *)
(* issues the first database call.                                         *)

Begin(r, pc, op, u, id, c, text) ==
  /\ MayStart(r)
  /\ req' = [req EXCEPT ![r] =
       [pc |-> pc, op |-> op, user |-> u, id |-> id, channel |-> c,
        text |-> text, seen |-> Null]]
  /\ UNCHANGED <<docs, background, queue, mqChannel>>

\* POST /v1/channels.  Without a name it is refused at once.
PostChannel(r, u) ==
  \E c \in Channels, name \in Names :
    Fresh(c) /\ Begin(r, "write", "postChannel", u, c, Null, name)

\* POST /v1/channels/:channelID.  The channel itself is never looked up, so
\* that it may be gone.  Nobody guesses identifiers that are still unborn: that
\* is no guard of the code but where identifiers come from.
PostMessage(r, u) ==
  \E m \in Messages, c \in Channels, body \in Bodies :
    /\ docs[c] # Unborn /\ Fresh(m)
    /\ Begin(r, "write", "postMessage", u, m, c, body)

\* PATCH /v1/channels/:channelID.  Without a new name the old one stays.
PatchChannel(r, u) ==
  \E c \in Channels, name \in Names \cup {Null} :
    /\ docs[c] # Unborn
    /\ Begin(r, "find", "patchChannel", u, c, Null, name)

\* DELETE /v1/channels/:channelID
DeleteChannel(r, u) ==
  \E c \in Channels :
    /\ docs[c] # Unborn
    /\ Begin(r, "find", "deleteChannel", u, c, Null, Null)

\* PATCH /v1/messages/:messageID
PatchMessage(r, u) ==
  \E m \in Messages, body \in Bodies :
    /\ docs[m] # Unborn
    /\ Begin(r, "find", "patchMessage", u, m, Null, body)

\* DELETE /v1/messages/:messageID
DeleteMessage(r, u) ==
  \E m \in Messages :
    /\ docs[m] # Unborn
    /\ Begin(r, "find", "deleteMessage", u, m, Null, Null)

-----------------------------------------------------------------------------
(* The lookup and the check of the document it found.                      *)

\* MongoDB executes findOne().
FindOne(r) ==
  /\ At(r, "find")
  /\ Move(r, "check", Found(req[r].id))
  /\ UNCHANGED <<docs, background, queue, mqChannel>>

\* Mutant of PatchChannelVerdict: any signed-in user may edit any channel.
PatchChannelVerdictOfAnyone(doc, u) ==
  CASE doc = Null -> "missing"
    [] doc # Null -> IF u = Nobody THEN "throws" ELSE "proceed"

\* What the callback of the lookup decides.  "throws" is a TypeError on a
\* null: it is logged and the request is never answered.
PatchChannelVerdict(doc, u) ==
  CASE doc = Null           -> "missing"
    [] doc # Null /\ doc.creator = Nobody -> "proceed"
    [] doc # Null /\ doc.creator # Nobody ->
         IF u = Nobody THEN "throws"
         ELSE IF doc.creator # u THEN "forbidden" ELSE "proceed"

DeleteChannelVerdict(doc, u) ==
  IF doc = Null THEN "missing"
  ELSE IF doc.creator = Nobody THEN "forbidden"
  ELSE IF u = Nobody THEN "throws"
  ELSE IF doc.creator # u THEN "forbidden" ELSE "proceed"

MessageVerdict(doc, u) ==
  IF doc = Null \/ u = Nobody THEN "throws"
  ELSE IF doc.creator = Nobody THEN "throws"
  ELSE IF doc.creator # u THEN "forbidden" ELSE "proceed"

Verdict(q) ==
  CASE q.op = "patchChannel"  -> PatchChannelVerdict(q.seen, q.user)
    [] q.op = "deleteChannel" -> DeleteChannelVerdict(q.seen, q.user)
    [] q.op \in {"patchMessage", "deleteMessage"} ->
         MessageVerdict(q.seen, q.user)

\* Mutant of Refuse: the lookup is tried again instead of refusing.
RefuseAndRetry(r) ==
  /\ At(r, "check")
  /\ Verdict(req[r]) \in {"missing", "forbidden"}
  /\ Move(r, "find", Null)
  /\ UNCHANGED <<docs, background, queue, mqChannel>>

\* 400 or 403: the chain is broken before any write.
Refuse(r) ==
  /\ At(r, "check")
  /\ Verdict(req[r]) \in {"missing", "forbidden"}
  /\ req' = [req EXCEPT ![r] = Answered]
  /\ UNCHANGED <<docs, background, queue, mqChannel>>

Throw(r) ==
  /\ At(r, "check")
  /\ Verdict(req[r]) = "throws"
  /\ req' = [req EXCEPT ![r] = Unanswered]
  /\ UNCHANGED <<docs, background, queue, mqChannel>>

\* Mutant of Proceed: the deletion of a message is not waited for.
ProceedWithoutReturn(r) ==
  /\ At(r, "check")
  /\ req[r].op # "deleteChannel"
  /\ Verdict(req[r]) = "proceed"
  /\ Move(r, IF req[r].op = "deleteMessage" THEN "reply" ELSE "write", Null)
  /\ UNCHANGED <<docs, background, queue, mqChannel>>

\* The check passed: issue the write.
Proceed(r) ==
  /\ At(r, "check")
  /\ req[r].op # "deleteChannel"
  /\ Verdict(req[r]) = "proceed"
  /\ Move(r, "write", Null)
  /\ UNCHANGED <<docs, background, queue, mqChannel>>

\* Mutant of ProceedDeleteChannel: the channel itself is forgotten.
ProceedDeleteMessages(r) ==
  LET q == req[r] IN
  /\ At(r, "check")
  /\ q.op = "deleteChannel"
  /\ Verdict(q) = "proceed"
  /\ background' = background \cup {Deletion("deleteAll", q.id, q.user)}
  /\ SendToMQ(Event("channel-delete", q.id, Null))
  /\ req' = [req EXCEPT ![r] = Answered]
  /\ UNCHANGED docs

\* The channel's creator deletes it.  Both deletions are issued, the 200 and
\* the event are sent, and nothing waits for either deletion.
ProceedDeleteChannel(r) ==
  LET q == req[r] IN
  /\ At(r, "check")
  /\ q.op = "deleteChannel"
  /\ Verdict(q) = "proceed"
  /\ background' = background \cup {Deletion("deleteAll", q.id, q.user),
                                    Deletion("delete", q.id, q.user)}
  /\ SendToMQ(Event("channel-delete", q.id, Null))
  /\ req' = [req EXCEPT ![r] = Answered]
  /\ UNCHANGED docs

-----------------------------------------------------------------------------
(* The write, and the callback that answers and announces it.              *)

\* insertOne()
Insert(r) ==
  LET q   == req[r]
      doc == [creator |-> q.user, text |-> q.text, channel |-> q.channel]
  IN
  /\ At(r, "write")
  /\ q.op \in {"postChannel", "postMessage"}
  /\ docs' = [docs EXCEPT ![q.id] = doc]
  /\ Move(r, "reply", doc)
  /\ UNCHANGED <<background, queue, mqChannel>>

\* Mutant of Updated: upsert, which recreates the document.
Upserted(d, text) ==
  IF text = Null THEN docs[d]
  ELSE IF Stored(d) THEN [docs[d] EXCEPT !.text = text]
  ELSE [creator |-> Nobody, text |-> text, channel |-> Null]

\* findOneAndUpdate() without upsert: a document that is gone stays gone, and
\* only the text is set.
Updated(d, text) ==
  IF Stored(d) /\ text # Null THEN [docs[d] EXCEPT !.text = text]
  ELSE docs[d]

Update(r) ==
  LET q == req[r] IN
  /\ At(r, "write")
  /\ q.op \in {"patchChannel", "patchMessage"}
  /\ docs' = [docs EXCEPT ![q.id] = Updated(q.id, q.text)]
  /\ Move(r, "reply", IF Stored(q.id) THEN Updated(q.id, q.text) ELSE Null)
  /\ UNCHANGED <<background, queue, mqChannel>>

\* deleteOne() of a message, which the handler does wait for.
Delete(r) ==
  LET q == req[r] IN
  /\ At(r, "write")
  /\ q.op = "deleteMessage"
  /\ docs' = [docs EXCEPT ![q.id] = Gone]
  /\ Move(r, "reply", Null)
  /\ UNCHANGED <<background, queue, mqChannel>>

\* The callback: answer 200, then publish.
Reply(r) ==
  /\ At(r, "reply")
  /\ SendToMQ(EventOf(req[r]))
  /\ req' = [req EXCEPT ![r] = Answered]
  /\ UNCHANGED <<docs, background>>

\* A database call is rejected, before MongoDB has executed it or (the
\* connection broke) after: the chain's catch logs it and never answers.
CallFails(r) ==
  /\ DbErrors
  /\ Active(r)
  /\ req' = [req EXCEPT ![r] = Unanswered]
  /\ UNCHANGED <<docs, background, queue, mqChannel>>

-----------------------------------------------------------------------------
(* The deletions of a channel's DELETE, executed some time later.          *)

DeleteAll(b) ==
  /\ b \in background /\ b.op = "deleteAll"
  /\ docs' = [d \in Ids |->
       IF d \in Messages /\ Stored(d) /\ docs[d].channel = b.id
       THEN Gone ELSE docs[d]]
  /\ background' = background \ {b}
  /\ UNCHANGED <<req, queue, mqChannel>>

DeleteChannelDoc(b) ==
  /\ b \in background /\ b.op = "delete"
  /\ docs' = [docs EXCEPT ![b.id] = Gone]
  /\ background' = background \ {b}
  /\ UNCHANGED <<req, queue, mqChannel>>

\* A rejected deletion is an unhandled rejection: nobody hears of it.
BackgroundFails(b) ==
  /\ DbErrors
  /\ b \in background
  /\ background' = background \ {b}
  /\ UNCHANGED <<docs, req, queue, mqChannel>>

-----------------------------------------------------------------------------
(* RabbitMQ.                                                               *)

\* The gateway consumes with automatic acknowledgement.
Consume ==
  /\ queue # <<>>
  /\ queue' = Tail(queue)
  /\ UNCHANGED <<docs, req, background, mqChannel>>

\* RabbitMQ is stopped in order.  The queue is declared with durable: false,
\* so it dies with the server, and the service never opens another connection.
\* (A broken connection kills the service: that is a Restart.)
BrokerStop ==
  /\ BrokerStops
  /\ mqChannel = "open"
  /\ mqChannel' = "closed"
  /\ queue' = <<>>
  /\ UNCHANGED <<docs, req, background>>

-----------------------------------------------------------------------------

Arrive(r) ==
  \E u \in Users \cup {Nobody} :
    \/ PostChannel(r, u)
    \/ PostMessage(r, u)
    \/ PatchChannel(r, u)
    \/ DeleteChannel(r, u)
    \/ PatchMessage(r, u)
    \/ DeleteMessage(r, u)

\* What MongoDB and the event loop do for a request that has arrived.
Advance(r) ==
  \/ FindOne(r)
  \/ Refuse(r)
  \/ Throw(r)
  \/ Proceed(r)
  \/ ProceedDeleteChannel(r)
  \/ Insert(r)
  \/ Update(r)
  \/ Delete(r)
  \/ Reply(r)

RunDeletion(b) == DeleteAll(b) \/ DeleteChannelDoc(b)

Next ==
  \/ \E r \in Requests : Arrive(r) \/ Advance(r) \/ CallFails(r)
  \/ \E b \in Deletions : RunDeletion(b) \/ BackgroundFails(b)
  \/ Consume
  \/ BrokerStop
  \/ Restart

Spec == Init /\ [][Next]_vars

\* MongoDB executes every call it is sent, the event loop runs every callback
\* and the gateway keeps taking events.  Clients need not send anything.
Fairness ==
  /\ \A r \in Requests : WF_vars(Advance(r))
  /\ \A b \in Deletions : WF_vars(RunDeletion(b))
  /\ WF_vars(Consume)

FairSpec == Spec /\ Fairness

-----------------------------------------------------------------------------
(* Properties.                                                             *)

Phases == {"idle", "find", "check", "write", "reply"}

Reqs == [pc      : Phases,
         op      : {"none", "postChannel", "postMessage", "patchChannel",
                    "deleteChannel", "patchMessage", "deleteMessage"},
         user    : Users \cup {Nobody},
         id      : Ids \cup {Null},
         channel : Channels \cup {Null},
         text    : Texts \cup {Null},
         seen    : Doc \cup {Null}]

\* Type invariant of the service's state.
TypeOK ==
  /\ docs \in [Ids -> Doc \cup {Unborn, Gone}]
  /\ req \in [Requests -> Reqs]
  /\ background \in SUBSET Deletions
  /\ queue \in Seq(Events)
  /\ mqChannel \in {"open", "closed"}

\* The check that only the creator may modify a document is made on a copy
\* read before an await, and the write happens two interleavings later.  It
\* is still true when the write reaches MongoDB: whatever other handlers did
\* in between, a write about to be executed on a stored document comes from
\* the document's creator, or is an edit of a channel nobody created.
OnlyCreatorWrites ==
  /\ \A r \in Requests :
       LET q == req[r] IN
       (/\ q.pc = "write"
        /\ q.op \in {"patchChannel", "patchMessage", "deleteMessage"}
        /\ Stored(q.id))
       => \/ docs[q.id].creator = q.user
          \/ q.op = "patchChannel" /\ docs[q.id].creator = Nobody
  /\ \A b \in background :
       Stored(b.id) => docs[b.id].creator = b.user

\* A document that was deleted never comes back, though an edit that passed
\* its check before the deletion may be executed after it; and no edit changes
\* who created a document or the channel it belongs to.
DeletionIsFinal ==
  [][\A d \in Ids :
       /\ docs[d] = Gone => docs'[d] = Gone
       /\ Stored(d) /\ Stored(d)' =>
            /\ docs'[d].creator = docs[d].creator
            /\ docs'[d].channel = docs[d].channel]_vars

\* What is announced has happened: an event about a new document is published
\* only once MongoDB stores it (or has stored it and lost it again), and a
\* message is reported deleted only when it is gone.
AnnouncedAfterCommit ==
  \A i \in 1..Len(queue) :
    LET e == queue[i] IN
    /\ e.type \in {"channel-new", "message-new"} =>
         e.id \in Ids /\ docs[e.id] # Unborn
    /\ e.type = "message-delete" => e.id \in Ids /\ docs[e.id] = Gone

\* Every request ends: it is answered, or an error ends its chain.
EveryRequestEnds ==
  \A r \in Requests : Active(r) ~> ~Active(r)

\* A channel whose deletion was announced disappears, although the handler
\* answers and announces before MongoDB has deleted anything.
AnnouncedDeletionHappens ==
  \A c \in Channels :
    (\E i \in 1..Len(queue) :
       queue[i].type = "channel-delete" /\ queue[i].id = c)
    ~> docs[c] = Gone

\* Deleting a channel deletes all messages related to it: once both deletions
\* have been executed no message of the channel is left.
NoOrphanMessages ==
  \A m \in Messages :
    Stored(m) /\ docs[docs[m].channel] = Gone =>
      \E b \in background : b.op = "deleteAll" /\ b.id = docs[m].channel

=============================================================================

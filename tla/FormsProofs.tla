------------------------------ MODULE FormsProofs ------------------------------
(***************************************************************************)
(* Proofs about the forms of the Messages page, for any number of users,   *)
(* documents, requests, events and timers.  First the dialog that creates  *)
(* a channel; then the forms about the channel displayed, in a tab that    *)
(* hears of everything in front of a service that runs undisturbed.        *)
(***************************************************************************)
EXTENDS Forms, MessagingProofs

\* The lemmas about the tab's callbacks.
B == INSTANCE BrowserProofs

\* A record with the fields of a request.
Request(q) ==
  q = [pc |-> q.pc, op |-> q.op, user |-> q.user, id |-> q.id,
       channel |-> q.channel, text |-> q.text, seen |-> q.seen]

\* A slot that is not in use holds no request: what a form sends is told from
\* everything else by where it appears.
Slots ==
  /\ req = [r \in Requests |-> req[r]]
  /\ \A r \in Requests : Request(req[r]) /\ (Active(r) \/ req[r] = NoRequest)

\* The name to be sent is the one submitted by the last press of Create whose
\* second is not over.
Submitted ==
  /\ pressed \in Seq(Names \cup {Null})
  /\ inputName \in Names \cup {Null}
  /\ pressed # <<>> => submittedName = pressed[Len(pressed)]

DialogInv == Slots /\ Submitted

\* The viewer's dialog sends nothing.
NothingCreated ==
  \A r \in Requests : ~Active(r) =>
    \/ req'[r] = NoRequest
    \/ req'[r].user # Viewer
    \/ req'[r].op # "postChannel"

-----------------------------------------------------------------------------
(* What happens to the slots.                                              *)

\* A request arrives.
LEMMA Begun ==
  ASSUME Slots, NEW r \in Requests, NEW pc \in {"find", "write"}, NEW op,
         NEW u, NEW id, NEW c, NEW text, Begin(r, pc, op, u, id, c, text)
  PROVE  /\ Slots'
         /\ ~Active(r)
         /\ req'[r] = [pc |-> pc, op |-> op, user |-> u, id |-> id,
                       channel |-> c, text |-> text, seen |-> Null]
         /\ \A s \in Requests \ {r} : req'[s] = req[s]
<1>1. req' = [req EXCEPT ![r] =
          [pc |-> pc, op |-> op, user |-> u, id |-> id, channel |-> c,
           text |-> text, seen |-> Null]]
  BY DEF Begin
<1>2. /\ req'[r] = [pc |-> pc, op |-> op, user |-> u, id |-> id,
                    channel |-> c, text |-> text, seen |-> Null]
      /\ \A s \in Requests \ {r} : req'[s] = req[s]
      /\ req' = [s \in Requests |-> req'[s]]
  BY <1>1 DEF Slots
<1>3. Request(req'[r]) /\ Active(r)'
  BY <1>2 DEF Request, Active
<1>4. ~Active(r)
  BY DEF Begin, MayStart
<1>. QED
  BY <1>2, <1>3, <1>4 DEF Slots, Active

\* A request goes on.
LEMMA Moved ==
  ASSUME Slots, NEW r \in Requests, Active(r), NEW seen,
         NEW pc \in {"find", "check", "write", "reply"}, Move(r, pc, seen)
  PROVE  Slots' /\ \A s \in Requests : ~Active(s) => req'[s] = req[s]
<1>1. /\ req'[r] = [req[r] EXCEPT !.pc = pc, !.seen = seen]
      /\ \A s \in Requests \ {r} : req'[s] = req[s]
      /\ req' = [s \in Requests |-> req'[s]]
  BY DEF Slots, Move
<1>2. req'[r] = [pc |-> pc, op |-> req[r].op, user |-> req[r].user,
                 id |-> req[r].id, channel |-> req[r].channel,
                 text |-> req[r].text, seen |-> seen]
  BY <1>1 DEF Slots, Request
<1>3. Request(req'[r]) /\ Active(r)'
  BY <1>2 DEF Request, Active
<1>. QED
  BY <1>1, <1>3 DEF Slots, Active

\* A request ends.
LEMMA Ended ==
  ASSUME Slots, NEW r \in Requests, Active(r),
         req' = [req EXCEPT ![r] = NoRequest]
  PROVE  Slots' /\ \A s \in Requests : ~Active(s) => req'[s] = req[s]
<1>1. /\ req'[r] = NoRequest
      /\ \A s \in Requests \ {r} : req'[s] = req[s]
      /\ req' = [s \in Requests |-> req'[s]]
  BY DEF Slots
<1>2. Request(NoRequest)
  BY DEF Request, NoRequest
<1>. QED
  BY <1>1, <1>2 DEF Slots, Active

\* Nothing happens to any.
LEMMA SlotsStay ==
  ASSUME Slots, UNCHANGED req
  PROVE  Slots' /\ \A s \in Requests : ~Active(s) => req'[s] = req[s]
  BY DEF Slots, Active

\* No step of the service fills a free slot.
LEMMA Advanced ==
  ASSUME Slots, NEW r \in Requests, Advance(r)
  PROVE  Slots' /\ \A s \in Requests : ~Active(s) => req'[s] = req[s]
<1>1. CASE FindOne(r)
  BY <1>1, Moved DEF FindOne, At, Active
<1>2. CASE Refuse(r) \/ Throw(r) \/ ProceedDeleteChannel(r) \/ Reply(r)
  BY <1>2, Ended DEF Refuse, Throw, ProceedDeleteChannel, Reply, At, Active,
                     Answered, Unanswered
<1>3. CASE Proceed(r)
  BY <1>3, Moved DEF Proceed, At, Active
<1>4. CASE Insert(r)
  BY <1>4, Moved DEF Insert, At, Active
<1>5. CASE Update(r)
  BY <1>5, Moved DEF Update, At, Active
<1>6. CASE Delete(r)
  BY <1>6, Moved DEF Delete, At, Active
<1>. QED
  BY <1>1, <1>2, <1>3, <1>4, <1>5, <1>6 DEF Advance

\* Others fill slots with requests of their own.
LEMMA OthersArrived ==
  ASSUME Slots, NEW r \in Requests, OthersArrive(r)
  PROVE  Slots' /\ NothingCreated
<1>1. PICK u \in Users \ {Viewer} :
        PostChannel(r, u) \/ PatchChannel(r, u) \/ DeleteChannel(r, u)
  BY DEF OthersArrive
<1>2. PICK pc \in {"find", "write"},
           op \in {"postChannel", "patchChannel", "deleteChannel"},
           id \in Channels, text \in Names \cup {Null} :
        Begin(r, pc, op, u, id, Null, text)
  BY <1>1 DEF PostChannel, PatchChannel, DeleteChannel
<1>3. /\ Slots'
      /\ req'[r] = [pc |-> pc, op |-> op, user |-> u, id |-> id,
                    channel |-> Null, text |-> text, seen |-> Null]
      /\ \A s \in Requests \ {r} : req'[s] = req[s]
  BY <1>2, Begun
<1>4. req'[r].user # Viewer
  BY <1>3
<1>. QED
  BY <1>3, <1>4 DEF NothingCreated, Slots

\* The service as a whole creates no channel for the viewer either.
LEMMA Served ==
  ASSUME Slots, Serve
  PROVE  Slots' /\ NothingCreated
<1>1. ASSUME NEW r \in Requests, OthersArrive(r) PROVE Slots' /\ NothingCreated
  BY <1>1, OthersArrived
<1>2. ASSUME NEW r \in Requests, Advance(r) PROVE Slots' /\ NothingCreated
  BY <1>2, Advanced DEF NothingCreated, Slots
<1>3. ASSUME NEW b \in background, RunDeletion(b)
      PROVE  Slots' /\ NothingCreated
  BY <1>3, SlotsStay DEF RunDeletion, DeleteAll, DeleteChannelDoc,
                         NothingCreated, Slots
<1>. QED
  BY <1>1, <1>2, <1>3 DEF Serve

-----------------------------------------------------------------------------
(* The steps of Forms.                                                     *)

\* A form other than the dialog sends its request.
LEMMA FormSent ==
  ASSUME Slots, NEW r \in Requests, NEW pc \in {"find", "write"},
         NEW op \in {"postMessage", "patchChannel", "deleteChannel"},
         NEW id, NEW c, NEW text, Begin(r, pc, op, Viewer, id, c, text)
  PROVE  Slots' /\ NothingCreated
<1>1. /\ Slots'
      /\ req'[r] = [pc |-> pc, op |-> op, user |-> Viewer, id |-> id,
                    channel |-> c, text |-> text, seen |-> Null]
      /\ \A s \in Requests \ {r} : req'[s] = req[s]
  BY Begun
<1>2. req'[r].op # "postChannel"
  BY <1>1
<1>. QED
  BY <1>1, <1>2 DEF NothingCreated, Slots

\* Every step but those of the dialog's timer and of its button.
LEMMA OtherSteps ==
  ASSUME Slots,
         \/ Serve \/ Receive \/ Open \/ Close \/ Click \/ TypeName
         \/ \E r \in Requests :
              NewMessage(r) \/ EditDescription(r) \/ DeleteDisplayed(r)
  PROVE  Slots' /\ NothingCreated /\ UNCHANGED <<submittedName, pressed>>
<1>1. CASE Serve
  BY <1>1, Served DEF Serve, nameVars
<1>2. CASE Receive
  BY <1>2, SlotsStay DEF Receive, Consume, nameVars, NothingCreated, Slots
<1>3. CASE Open \/ Close \/ Click \/ TypeName
  BY <1>3, SlotsStay DEF Open, Close, Click, TypeName, vars, nameVars,
                         NothingCreated, Slots
<1>4. ASSUME NEW r \in Requests, NewMessage(r)
      PROVE  Slots' /\ NothingCreated /\ UNCHANGED nameVars
  BY <1>4, FormSent DEF NewMessage
<1>5. ASSUME NEW r \in Requests, EditDescription(r)
      PROVE  Slots' /\ NothingCreated /\ UNCHANGED nameVars
  BY <1>5, FormSent DEF EditDescription
<1>6. ASSUME NEW r \in Requests, DeleteDisplayed(r)
      PROVE  Slots' /\ NothingCreated /\ UNCHANGED nameVars
  BY <1>6, FormSent DEF DeleteDisplayed
<1>. QED
  BY <1>1, <1>2, <1>3, <1>4, <1>5, <1>6 DEF nameVars

\* The dialog's request.
LEMMA ChannelSent ==
  ASSUME Slots, NEW r \in Requests, NewChannel(r)
  PROVE  /\ Slots'
         /\ req'[r].text = submittedName
         /\ \A s \in Requests \ {r} : ~Active(s) => req'[s] = NoRequest
         /\ ~Active(r)
<1>1. PICK c \in Channels :
        Begin(r, "write", "postChannel", Viewer, c, Null, submittedName)
  BY DEF NewChannel
<1>2. /\ Slots' /\ ~Active(r)
      /\ req'[r] = [pc |-> "write", op |-> "postChannel", user |-> Viewer,
                    id |-> c, channel |-> Null, text |-> submittedName,
                    seen |-> Null]
      /\ \A s \in Requests \ {r} : req'[s] = req[s]
  BY <1>1, Begun
<1>. QED
  BY <1>2 DEF Slots

\* The name submitted last stays the last of those whose second is not over.
LEMMA TimePasses == Submitted /\ TimeIsUp => Submitted'
<1>. SUFFICES ASSUME Submitted, TimeIsUp PROVE Submitted'
  OBVIOUS
<1>1. /\ pressed \in Seq(Names \cup {Null}) /\ pressed # <<>>
      /\ pressed' = Tail(pressed) /\ submittedName' = submittedName
  BY DEF TimeIsUp, Submitted
<1>2. /\ pressed' \in Seq(Names \cup {Null})
      /\ pressed' # <<>> =>
           pressed'[Len(pressed')] = pressed[Len(pressed)]
  BY <1>1
<1>3. inputName' \in Names \cup {Null}
  BY DEF TimeIsUp
<1>. QED
  BY <1>1, <1>2, <1>3 DEF Submitted

\* Pressing Create remembers the name to be submitted.
LEMMA NamePressed == Submitted /\ PressCreate => Submitted'
  BY DEF Submitted, PressCreate, formVars

\* The dialog starts without a name, and no request of the viewer.
LEMMA DialogInit == FormsInit => DialogInv
  BY DEF FormsInit, Init, DialogInv, Slots, Submitted, Request, NoRequest

\* Every step keeps what the timers will submit.
LEMMA DialogStep == DialogInv /\ [FormsNext]_allVars => DialogInv'
<1>. SUFFICES ASSUME DialogInv, [FormsNext]_allVars PROVE DialogInv'
  OBVIOUS
<1>. USE DEF DialogInv
<1>1. CASE UNCHANGED allVars
  BY <1>1 DEF allVars, vars, nameVars, Slots, Submitted, Active
<1>2. CASE PressCreate
  BY <1>2, SlotsStay, NamePressed DEF PressCreate, vars
<1>3. CASE NewChannelRefused
  BY <1>3, SlotsStay, TimePasses DEF NewChannelRefused, vars
<1>4. ASSUME NEW r \in Requests, NewChannel(r) PROVE DialogInv'
  BY <1>4, ChannelSent, TimePasses DEF NewChannel
<1>5. CASE TypeName
  BY <1>5, OtherSteps, FormsAssumption DEF Submitted, TypeName
<1>6. ASSUME \/ Serve \/ Receive \/ Open \/ Close \/ Click
             \/ \E r \in Requests :
                  NewMessage(r) \/ EditDescription(r) \/ DeleteDisplayed(r)
      PROVE  DialogInv'
  <2>1. Slots' /\ UNCHANGED <<submittedName, pressed>>
    BY <1>6, OtherSteps
  <2>2. UNCHANGED inputName
    BY <1>6 DEF Serve, Receive, Open, Close, Click, NewMessage,
                EditDescription, DeleteDisplayed, nameVars
  <2>. QED
    BY <2>1, <2>2 DEF Submitted
<1>. QED
  BY <1>1, <1>2, <1>3, <1>4, <1>5, <1>6 DEF FormsNext

\* Only the timer's end sends a channel, and what it sends was pressed.
LEMMA StepCreates ==
  ASSUME DialogInv, [FormsNext]_allVars, NEW c \in Channels,
         Sends("postChannel", c)
  PROVE  \E i \in 1..Len(pressed), r \in Requests :
           req'[r].id = c /\ req'[r].text = pressed[i]
<1>1. PICK r \in Requests :
        /\ ~Active(r) /\ req'[r].user = Viewer
        /\ req'[r].op = "postChannel" /\ req'[r].id = c
  BY DEF Sends
<1>2. req'[r] # NoRequest
  BY <1>1 DEF NoRequest
<1>3. ~NothingCreated
  BY <1>1, <1>2 DEF NothingCreated
<1>4. req'[r] # req[r]
  BY <1>1, <1>2 DEF DialogInv, Slots
<1>5. PICK s \in Requests : NewChannel(s)
  BY <1>3, <1>4, OtherSteps
     DEF FormsNext, DialogInv, allVars, vars, PressCreate, NewChannelRefused
<1>6. req'[r].text = submittedName
  BY <1>1, <1>2, <1>5, ChannelSent DEF DialogInv
<1>7. submittedName = pressed[Len(pressed)] /\ Len(pressed) \in 1..Len(pressed)
  BY <1>5 DEF NewChannel, TimeIsUp, DialogInv, Submitted
<1>. QED
  BY <1>1, <1>6, <1>7

-----------------------------------------------------------------------------
(* The tab's callbacks are those the lemmas of BrowserProofs are about.    *)

\* Removing elements during an iteration.
LEMMA SplicedSame ==
  ASSUME NEW entries, NEW id
  PROVE  Tab!Spliced(entries, id) = B!Spliced(entries, id)
  BY DEF Tab!Spliced, B!Spliced, Tab!FoldLeft, B!FoldLeft,
         Tab!MapThenFoldSet, B!MapThenFoldSet, Tab!Max, B!Max,
         Tab!RemoveAt, B!RemoveAt

\* The handler of a deletion.
LEMMA ChannelDeleteSame ==
  ASSUME NEW v, NEW e
  PROVE  Tab!ChannelDelete(v, e) = B!ChannelDelete(v, e)
  BY DEF Tab!ChannelDelete, B!ChannelDelete, Tab!FoldLeft, B!FoldLeft,
         Tab!MapThenFoldSet, B!MapThenFoldSet, Tab!Max, B!Max,
         Tab!RemoveAt, B!RemoveAt, Tab!Displays, B!Displays,
         Tab!Cached, B!Cached

\* The handler of the websocket's messages.
LEMMA HandleSame ==
  ASSUME NEW v, NEW e, NEW me
  PROVE  Tab!Handle(v, e, me) = B!Handle(v, e, me)
  BY SplicedSame, ChannelDeleteSame
     DEF Tab!Handle, B!Handle, Tab!ChannelNew, B!ChannelNew,
         Tab!MessageNew, B!MessageNew, Tab!MessageUpdate, B!MessageUpdate,
         Tab!ChannelUpdate, B!ChannelUpdate, Tab!MessageDelete,
         B!MessageDelete, Tab!Replaced, B!Replaced, Tab!Cache, B!Cache,
         Tab!Cached, B!Cached, Tab!Displays, B!Displays, Tab!Entry, B!Entry,
         Tab!Shown, B!Shown

-----------------------------------------------------------------------------
(* The invariant of the forms about the channel displayed.                 *)

ChannelEntries == [id : Channels, doc : ChannelDocs]

Views == B!TabViews(Channels, ChannelDocs, Messages, MessageDocs)

\* The types, with names for what channels are called.
TabTypes ==
  /\ view \in Views /\ Current \in ChannelEntries
  /\ form \in FormKinds \cup {"none"} /\ aim \in Channels \cup {Null}
  /\ submittedName \in Names \cup {Null}
  /\ Len(pressed) <= MaxTimers

\* The tab has heard of channel c.
Known(c) == c = Current.id \/ c \in B!IdsOf(view.channels)

\* Every channel is listed once, as it is announced once.
KnownOnce ==
  /\ B!ListedOnce(view.channels)
  /\ \A c \in Channels : Known(c) =>
       /\ docs[c] # Unborn
       /\ \A u \in Users \cup {Nobody} : ~Upcoming(c, u)

\* The viewer does not delete a channel before he has heard of it.
OwnKept ==
  \A c \in Channels : Upcoming(c, Viewer) => Keeps(Viewer, c)

\* What is displayed under a form is what was displayed when the user turned
\* to it, unless that is deleted, or the user has created it meanwhile.
Aimed ==
  /\ form \in FormKinds \ {"create"} <=> aim # Null
  /\ aim # Null =>
       \/ Current.id = aim
       \/ GoneOrGoing(aim)
       \/ Keeps(Viewer, Current.id)

Service == Inv /\ Collections /\ AnnouncedGoing /\ AnnouncedOnce

FormsInv ==
  /\ Service
  /\ DialogInv
  /\ TabTypes
  /\ KnownOnce
  /\ OwnKept
  /\ Aimed

-----------------------------------------------------------------------------
(* What the forms ask for.                                                 *)

\* A form about the channel displayed is sent.
Asks(r) == NewMessage(r) \/ EditDescription(r) \/ DeleteDisplayed(r)

\* What it sends is a request of the viewer about that channel.
LEMMA Asked ==
  ASSUME FormsInv, NEW r \in Requests, Asks(r)
  PROVE  /\ Arrive(r)
         /\ form \in FormKinds \ {"create"}
         /\ req'[r].user = Viewer
         /\ Current.id = IF req'[r].op = "postMessage" THEN req'[r].channel
                         ELSE req'[r].id
         /\ \A s \in Requests \ {r} : req'[s] = req[s]
         /\ req'[r].op # "postChannel"
         /\ req'[r].op = "deleteChannel" => aim' = Null
         /\ view' = view /\ aim' \in {aim, Null}
         /\ UNCHANGED nameVars
<1>a. /\ TypeOK /\ Current.id \in Channels /\ Current.doc.text \in Names
      /\ docs[Current.id] # Unborn /\ Viewer \in Users \cup {Nobody}
  BY FormsAssumption DEF FormsInv, Service, Inv, TabTypes, ChannelEntries,
                         ChannelDocs, KnownOnce, Known
<1>1. CASE NewMessage(r)
  <2>1. PICK m \in Messages, body \in Bodies :
          /\ Fresh(m)
          /\ Begin(r, "write", "postMessage", Viewer, m, Current.id, body)
    BY <1>1 DEF NewMessage
  <2>2. PostMessage(r, Viewer)
    BY <1>a, <2>1 DEF PostMessage
  <2>3. Arrive(r)
    BY <1>a, <2>2 DEF Arrive
  <2>. QED
    BY <1>a, <1>1, <2>1, <2>3, BeginReq DEF NewMessage, FormKinds, formVars
<1>2. CASE EditDescription(r)
  <2>1. Begin(r, "find", "patchChannel", Viewer, Current.id, Null,
              Current.doc.text)
    BY <1>2 DEF EditDescription
  <2>2. PatchChannel(r, Viewer)
    BY <1>a, <2>1 DEF PatchChannel
  <2>3. Arrive(r)
    BY <1>a, <2>2 DEF Arrive
  <2>. QED
    BY <1>a, <1>2, <2>1, <2>3, BeginReq
       DEF EditDescription, FormKinds, formVars
<1>3. CASE DeleteDisplayed(r)
  <2>1. Begin(r, "find", "deleteChannel", Viewer, Current.id, Null, Null)
    BY <1>3 DEF DeleteDisplayed
  <2>2. DeleteChannel(r, Viewer)
    BY <1>a, <2>1 DEF DeleteChannel
  <2>3. Arrive(r)
    BY <1>a, <2>2 DEF Arrive
  <2>. QED
    BY <1>a, <1>3, <2>1, <2>3, BeginReq
       DEF DeleteDisplayed, FormKinds, TurnTo
<1>. QED
  BY <1>1, <1>2, <1>3 DEF Asks

\* The dialog's request is one the service knows.
LEMMA Created ==
  ASSUME FormsInv, NEW r \in Requests, NewChannel(r)
  PROVE  /\ Arrive(r)
         /\ req'[r].op = "postChannel"
         /\ \A s \in Requests \ {r} : req'[s] = req[s]
<1>1. PICK c \in Channels :
        /\ Fresh(c)
        /\ Begin(r, "write", "postChannel", Viewer, c, Null, submittedName)
  BY DEF NewChannel
<1>2. submittedName \in Names /\ Viewer \in Users /\ TypeOK
  BY FormsAssumption DEF NewChannel, FormsInv, TabTypes, Service, Inv
<1>3. PostChannel(r, Viewer)
  BY <1>1, <1>2 DEF PostChannel
<1>. QED
  BY <1>1, <1>2, <1>3, BeginReq DEF Arrive

\* Others ask the service for what it knows.
LEMMA OthersAsked ==
  ASSUME TypeOK, NEW r \in Requests, OthersArrive(r)
  PROVE  /\ Arrive(r) /\ req'[r].user # Viewer
         /\ \A s \in Requests \ {r} : req'[s] = req[s]
<1>1. PICK u \in Users \ {Viewer} :
        PostChannel(r, u) \/ PatchChannel(r, u) \/ DeleteChannel(r, u)
  BY DEF OthersArrive
<1>2. PICK pc \in {"find", "write"},
           op \in {"postChannel", "patchChannel", "deleteChannel"},
           id \in Channels, text \in Names \cup {Null} :
        Begin(r, pc, op, u, id, Null, text)
  BY <1>1 DEF PostChannel, PatchChannel, DeleteChannel
<1>. QED
  BY <1>1, <1>2, BeginReq DEF Arrive

\* In front of the tab the service runs undisturbed.
LEMMA FormsUndisturbed ==
  ASSUME FormsInv, [FormsNext]_allVars
  PROVE  Undisturbed
<1>1. TypeOK
  BY DEF FormsInv, Service, Inv
<1>2. ASSUME NEW r \in Requests, Asks(r) \/ NewChannel(r) PROVE Undisturbed
  BY <1>2, Asked, Created DEF Undisturbed
<1>3. CASE Serve
  BY <1>1, <1>3, OthersAsked DEF Serve, Undisturbed
<1>4. CASE \/ Receive \/ Open \/ Close \/ Click \/ TypeName \/ PressCreate
           \/ NewChannelRefused \/ UNCHANGED allVars
  BY <1>4 DEF Receive, Open, Close, Click, TypeName, PressCreate,
              NewChannelRefused, allVars, Undisturbed
<1>. QED
  BY <1>2, <1>3, <1>4 DEF FormsNext, Asks

\* The service keeps its side of the invariant.
LEMMA ServiceStep ==
  ASSUME FormsInv, [FormsNext]_allVars
  PROVE  Service'
<1>1. Undisturbed /\ [Next]_vars
  BY FormsUndisturbed, UndisturbedNext DEF FormsInv, Service, Inv
<1>. QED
  BY <1>1, InvStep, CollectionsStep, AnnouncedGoingStep, AnnouncedOnceStep
     DEF FormsInv, Service

\* An event the tab is given is about the documents its type says.
LEMMA EventFits ==
  ASSUME Service, NEW e \in Events, Announced(e)
  PROVE  /\ e.type \in B!Types
         /\ B!Fits(e, Channels, ChannelDocs, Messages, MessageDocs)
<1>1. /\ \A d \in Channels : \A doc : Version(d, doc) => doc \in ChannelDocs
      /\ \A d \in Messages : \A doc : Version(d, doc) => doc \in MessageDocs
  BY ConstantsDistinct DEF Version, DocsOf
<1>. QED
  BY <1>1 DEF B!Types, Events, EventTypes, B!Fits, Announced

\* The event the tab hears of, and what it does with it.
LEMMA Hears ==
  ASSUME FormsInv, Receive, NEW e, e = queue[1]
  PROVE  /\ Announced(e) /\ e \in Events /\ 1 \in 1..Len(queue)
         /\ view' = B!Handle(view, e, Viewer)
         /\ e.type \in B!Types
         /\ B!Fits(e, Channels, ChannelDocs, Messages, MessageDocs)
         /\ e.type = "channel-new" =>
              /\ e.id \in Channels /\ e.doc \in ChannelDocs
              /\ e.id \notin B!IdsOf(view.channels)
<1>1. /\ queue \in Seq(Events) /\ queue # <<>>
      /\ \A i \in 1..Len(queue) : Announced(queue[i])
  BY DEF FormsInv, Service, Inv, TypeOK, Collections, AnnouncedAsStored,
         Receive, Consume
<1>2. 1 \in 1..Len(queue) /\ e \in Events /\ Announced(e) /\ e = Head(queue)
  BY <1>1
<1>3. view' = B!Handle(view, e, Viewer)
  BY <1>2, HandleSame DEF Receive
<1>4. /\ e.type \in B!Types
      /\ B!Fits(e, Channels, ChannelDocs, Messages, MessageDocs)
  BY <1>2, EventFits DEF FormsInv
<1>5. ASSUME e.type = "channel-new"
      PROVE  /\ e.id \in Channels /\ e.doc \in ChannelDocs
             /\ e.id \notin B!IdsOf(view.channels)
  <2>1. e.id \in Channels /\ e.doc \in ChannelDocs
    BY <1>4, <1>5 DEF B!Fits
  <2>2. e.doc.creator \in Users \cup {Nobody} /\ Upcoming(e.id, e.doc.creator)
    BY <1>2, <1>5, <2>1 DEF ChannelDocs, Upcoming, NewAt
  <2>. QED
    BY <2>1, <2>2 DEF FormsInv, KnownOnce, Known
<1>. QED
  BY <1>2, <1>3, <1>4, <1>5

\* What the tab has when it has heard of an event.
LEMMA Heard ==
  ASSUME FormsInv, Receive, NEW e, e = queue[1]
  PROVE  /\ Announced(e) /\ e \in Events /\ 1 \in 1..Len(queue)
         /\ view' \in Views /\ Current' \in ChannelEntries
         /\ B!ListedOnce(view'.channels)
         /\ \A c : Known(c)' =>
              Known(c) \/ (e.type = "channel-new" /\ c = e.id)
         /\ \A c \in B!IdsOf(view.channels) :
              \/ c \in B!IdsOf(view'.channels)
              \/ e.type = "channel-delete" /\ c = e.id
         /\ \/ Current'.id = Current.id
            \/ /\ e.type = "channel-new" /\ e.doc.creator = Viewer
               /\ Current'.id = e.id
            \/ e.type = "channel-delete" /\ e.id = Current.id
<1>. DEFINE w == B!Handle(view, e, Viewer)
<1>2. 1 \in 1..Len(queue) /\ e \in Events /\ Announced(e)
  BY Hears
<1>3. view' = w
  BY Hears
<1>4. /\ e.type \in B!Types
      /\ B!Fits(e, Channels, ChannelDocs, Messages, MessageDocs)
  BY Hears
<1>5. /\ \A d, n \in ChannelDocs : [d EXCEPT !.text = n.text] \in ChannelDocs
      /\ \A k \in ChannelEntries, n \in ChannelDocs :
           /\ [k EXCEPT !.doc.text = n.text] \in ChannelEntries
           /\ [k EXCEPT !.doc.text = n.text].id = k.id
  BY DEF ChannelDocs, ChannelEntries
<1>6. e.type = "channel-new" =>
        /\ e.id \in Channels /\ e.doc \in ChannelDocs
        /\ e.id \notin B!IdsOf(view.channels)
  BY Hears
<1>7. view \in Views /\ Current \in ChannelEntries
      /\ B!ListedOnce(view.channels)
  BY DEF FormsInv, TabTypes, KnownOnce
<1>8. w \in Views
  BY <1>4, <1>5, <1>7, B!HandledViews DEF Views
<1>9. B!Relists(w, view, e, Viewer)
  <2>. HIDE DEF w
  <2>1. w = B!Handle(view, e, Viewer)
    BY DEF w
  <2>. QED
    BY <1>4, <1>6, <1>7, <2>1, B!HandledIds DEF Views, Current
<1>. HIDE DEF w
<1>10. \A c : c \in B!IdsOf(w.channels) =>
         Known(c) \/ (e.type = "channel-new" /\ c = e.id)
  BY <1>9 DEF Known, B!Relists
<1>11. \A c \in B!IdsOf(view.channels) :
         \/ c \in B!IdsOf(w.channels)
         \/ e.type = "channel-delete" /\ c = e.id
  BY <1>9 DEF B!Relists
<1>12. view.channels \in Seq(ChannelEntries)
  BY <1>7, B!InViews DEF Views, B!TabViews, ChannelEntries
<1>13. \A k \in B!ElementsOf(view.channels) :
         k \in ChannelEntries /\ k.id \in B!IdsOf(view.channels)
  BY <1>12 DEF B!ElementsOf, B!IdsOf
<1>14. /\ w.current \in ChannelEntries
       /\ \/ w.current.id = Current.id
          \/ /\ e.type = "channel-new" /\ e.doc.creator = Viewer
             /\ w.current.id = e.id
          \/ /\ e.type = "channel-delete" /\ e.id = Current.id
             /\ w.current.id \in B!IdsOf(view.channels)
  <2>1. CASE w.current = Current
    BY <1>7, <2>1
  <2>2. CASE /\ e.type = "channel-new" /\ e.doc.creator = Viewer
             /\ w.current = B!Entry(e.id, e.doc)
    BY <1>6, <2>2 DEF B!Entry, ChannelEntries
  <2>3. CASE /\ e.type = "channel-delete" /\ B!Displays(view, e.id)
             /\ w.current \in B!ElementsOf(view.channels)
    BY <1>13, <2>3 DEF B!Displays, Current
  <2>4. CASE /\ e.type = "channel-update" /\ e.doc # Null
             /\ w.current = [Current EXCEPT !.doc.text = e.doc.text]
    <3>1. e.doc \in ChannelDocs
      BY <1>4, <2>4 DEF B!Fits
    <3>. HIDE DEF ChannelEntries, ChannelDocs
    <3>. QED
      BY <1>5, <1>7, <2>4, <3>1
  <2>. QED
    BY <1>9, <2>1, <2>2, <2>3, <2>4 DEF B!Relists, Current
<1>15. \A c : Known(c)' => Known(c) \/ (e.type = "channel-new" /\ c = e.id)
  BY <1>3, <1>10, <1>14 DEF Known, Current
<1>. QED
  BY <1>2, <1>3, <1>8, <1>9, <1>11, <1>14, <1>15 DEF Current, B!Relists

\* What a click displays was listed.
LEMMA Clicked ==
  ASSUME FormsInv, Click
  PROVE  /\ view' \in Views /\ Current' \in ChannelEntries
         /\ B!IdsOf(view'.channels) = B!IdsOf(view.channels)
         /\ B!ElementsOf(view'.channels) = B!ElementsOf(view.channels)
         /\ B!ListedOnce(view'.channels)
         /\ Current' \in B!ElementsOf(view.channels)
         /\ Current'.id \in B!IdsOf(view.channels)
         /\ \/ form' = "message" /\ aim' = Current'.id
            \/ form' = "none" /\ aim' = Null
         /\ UNCHANGED <<vars, nameVars>>
<1>1. view \in Views /\ view.channels \in Seq(ChannelEntries)
  BY B!InViews DEF FormsInv, TabTypes, Views, B!TabViews, ChannelEntries
<1>2. PICK i \in 1..Len(view.channels) :
        /\ view' = [view EXCEPT !.current = view.channels[i]]
        /\ \/ form' = "message" /\ aim' = view.channels[i].id
           \/ form' = "none" /\ aim' = Null
  BY DEF Click, Tab!Click, TurnTo
<1>3. view.channels[i] \in ChannelEntries
  BY <1>1
<1>4. view' \in Views
  <2>. DEFINE L == Seq([id : Messages, doc : MessageDocs])
  <2>1. view \in B!Views(ChannelEntries, Channels, L)
    BY <1>1 DEF Views, B!TabViews, ChannelEntries
  <2>. HIDE DEF L
  <2>2. view' \in B!Views(ChannelEntries, Channels, L)
    BY <1>1, <1>2, <1>3, <2>1, B!WithChannels
  <2>. QED
    BY <2>2 DEF Views, B!TabViews, ChannelEntries, L
<1>5. view'.channels = view.channels /\ Current' = view.channels[i]
  BY <1>1, <1>2 DEF Current, Views, B!TabViews, B!Views
<1>6. /\ Current' \in B!ElementsOf(view.channels)
      /\ Current'.id \in B!IdsOf(view.channels)
  BY <1>5 DEF B!IdsOf, B!ElementsOf
<1>. QED
  BY <1>2, <1>3, <1>4, <1>5, <1>6 DEF Click, FormsInv, KnownOnce

\* The tab's view changes when it hears of an event or is clicked.
LEMMA ViewSteps ==
  ASSUME FormsInv, [FormsNext]_allVars
  PROVE  Receive \/ Click \/ view' = view
BY DEF FormsNext, Serve, Open, Close, TypeName, PressCreate,
       NewChannelRefused, TimeIsUp, NewMessage, EditDescription,
       DeleteDisplayed, NewChannel, allVars

\* What happens to the names and the form.
LEMMA FormSteps ==
  ASSUME FormsInv, [FormsNext]_allVars
  PROVE  /\ submittedName' \in Names \cup {Null}
         /\ Len(pressed') <= MaxTimers
         /\ \/ UNCHANGED formVars
            \/ form' = "none" /\ aim' = Null
            \/ form' = "create" /\ aim' = Null
            \/ /\ form' \in FormKinds \ {"create"}
               /\ aim' = Current.id /\ UNCHANGED <<vars, view>>
            \/ Click
<1>a. /\ submittedName \in Names \cup {Null} /\ Len(pressed) <= MaxTimers
      /\ inputName \in Names \cup {Null}
      /\ pressed \in Seq(Names \cup {Null}) /\ MaxTimers \in Nat
  BY FormsAssumption DEF FormsInv, TabTypes, DialogInv, Submitted
<1>1. CASE TimeIsUp
  <2>1. Len(pressed') <= MaxTimers
    BY <1>a, <1>1 DEF TimeIsUp
  <2>. QED
    BY <1>a, <1>1, <2>1 DEF TimeIsUp, TurnTo
<1>2. CASE PressCreate
  BY <1>a, <1>2 DEF PressCreate
<1>3. CASE UNCHANGED <<nameVars, formVars>>
  BY <1>a, <1>3 DEF nameVars
<1>4. CASE Open \/ Close \/ TypeName
  BY <1>a, <1>4 DEF Open, Close, TypeName, TurnTo, nameVars, FormKinds
<1>5. CASE Click
  BY <1>a, <1>5 DEF Click, nameVars
<1>6. ASSUME NEW r \in Requests, DeleteDisplayed(r)
      PROVE  UNCHANGED nameVars /\ form' = "none" /\ aim' = Null
  BY <1>6 DEF DeleteDisplayed, TurnTo
<1>7. ASSUME NEW r \in Requests, NewMessage(r) \/ EditDescription(r)
      PROVE  UNCHANGED <<nameVars, formVars>>
  BY <1>7 DEF NewMessage, EditDescription
<1>8. Serve \/ Receive \/ UNCHANGED allVars =>
        UNCHANGED <<nameVars, formVars>>
  BY DEF Serve, Receive, allVars
<1>9. NewChannelRefused \/ (\E r \in Requests : NewChannel(r)) => TimeIsUp
  BY DEF NewChannelRefused, NewChannel
<1>10. UNCHANGED nameVars => submittedName' = submittedName
                             /\ pressed' = pressed
  BY DEF nameVars
<1>. QED
  BY <1>a, <1>1, <1>2, <1>3, <1>4, <1>5, <1>6, <1>7, <1>8, <1>9, <1>10
     DEF FormsNext

\* Every step keeps the types of the tab.
LEMMA TabTypesStep ==
  ASSUME FormsInv, [FormsNext]_allVars
  PROVE  TabTypes'
<1>a. TabTypes
  BY DEF FormsInv
<1>1. view' \in Views /\ Current' \in ChannelEntries
  <2>1. CASE Receive
    <3>1. PICK e : e = queue[1]
      OBVIOUS
    <3>. QED
      BY <2>1, <3>1, Heard
  <2>2. CASE Click
    BY <2>2, Clicked
  <2>3. CASE view' = view
    BY <1>a, <2>3 DEF TabTypes, Current
  <2>. QED
    BY <2>1, <2>2, <2>3, ViewSteps
<1>2. form' \in FormKinds \cup {"none"} /\ aim' \in Channels \cup {Null}
  <2>1. Current.id \in Channels
    BY <1>a DEF TabTypes, ChannelEntries
  <2>2. Click => Current'.id \in Channels
    BY <1>1 DEF ChannelEntries
  <2>3. Click => /\ form' \in {"message", "none"}
                 /\ aim' \in {Current'.id, Null}
    BY Clicked
  <2>. QED
    BY <1>a, <2>1, <2>2, <2>3, FormSteps DEF TabTypes, FormKinds, formVars
<1>. QED
  BY <1>1, <1>2, FormSteps DEF TabTypes, Current

\* What the tab knows of has been announced, and is not announced again.
LEMMA KnownOnceStep ==
  ASSUME FormsInv, [FormsNext]_allVars
  PROVE  KnownOnce'
<1>a. Inv /\ AnnouncedOnce /\ KnownOnce /\ Undisturbed
  BY FormsUndisturbed DEF FormsInv, Service
<1>b. Monotone
  BY <1>a, UndisturbedNext, DocsStep DEF Inv
<1>c. \A c \in Channels : docs[c] # Unborn => docs'[c] # Unborn
  BY <1>b DEF Monotone, Ids
<1>d. ASSUME NEW c \in Channels, Known(c), NEW u \in Users \cup {Nobody}
      PROVE  ~Upcoming(c, u)'
  <2>1. ~Upcoming(c, u) /\ docs[c] # Unborn
    BY <1>a, <1>d DEF KnownOnce
  <2>2. \A r \in Requests :
          Insert(r) /\ req[r].op = "postChannel" => req[r].id # c
    BY <1>a, <2>1 DEF Inv, NewIds, Insert, Inserting, At, Posts
  <2>. QED
    BY <1>a, <2>1, <2>2, UpcomingStep
<1>1. B!ListedOnce(view'.channels)
  <2>1. CASE Receive
    <3>1. PICK e : e = queue[1]
      OBVIOUS
    <3>. QED
      BY <2>1, <3>1, Heard
  <2>. QED
    BY <1>a, <2>1, Clicked, ViewSteps DEF KnownOnce
<1>2. ASSUME NEW c \in Channels, Known(c)',
             NEW u \in Users \cup {Nobody}
      PROVE  docs'[c] # Unborn /\ ~Upcoming(c, u)'
  <2>1. CASE Known(c)
    BY <1>a, <1>c, <1>d, <2>1 DEF KnownOnce
  <2>2. CASE ~Known(c) /\ Receive
    <3>1. PICK e : e = queue[1]
      OBVIOUS
    <3>2. /\ e.type = "channel-new" /\ c = e.id /\ 1 \in 1..Len(queue)
          /\ Consume
      BY <1>2, <2>2, <3>1, Heard DEF Receive
    <3>3. docs[c] # Unborn
      BY <1>a, <3>1, <3>2 DEF Inv, AnnouncedAfterCommit
    <3>4. ~Upcoming(c, u)'
      BY <1>a, <3>1, <3>2, HeardOf DEF NewAt
    <3>. QED
      BY <1>c, <3>3, <3>4
  <2>3. CASE Click
    BY <1>2, <2>1, <2>3, Clicked DEF Known
  <2>4. CASE view' = view
    BY <1>2, <2>1, <2>4 DEF Known, Current
  <2>. QED
    BY <2>1, <2>2, <2>3, <2>4, ViewSteps
<1>3. \A c \in Channels : Known(c)' => docs'[c] # Unborn
  BY <1>2
<1>. QED
  BY <1>1, <1>2, <1>3 DEF KnownOnce

\* A request of the viewer comes from a form.
LEMMA Sender ==
  ASSUME FormsInv, [FormsNext]_allVars, NEW r \in Requests, ~Active(r),
         req'[r] # req[r], req'[r].user = Viewer
  PROVE  Asks(r) \/ NewChannel(r)
<1>a. Slots /\ TypeOK
  BY DEF FormsInv, DialogInv, Service, Inv
<1>1. ASSUME NEW s \in Requests, OthersArrive(s) PROVE FALSE
  BY <1>a, <1>1, OthersAsked
<1>2. ASSUME NEW s \in Requests, Advance(s) PROVE FALSE
  BY <1>a, <1>2, Advanced
<1>3. ASSUME NEW s \in Requests, Asks(s) \/ NewChannel(s)
      PROVE  Asks(r) \/ NewChannel(r)
  BY <1>3, Asked, Created
<1>4. req' # req
  OBVIOUS
<1>5. ~(\/ Receive \/ Open \/ Close \/ Click \/ TypeName \/ PressCreate
        \/ NewChannelRefused \/ UNCHANGED allVars)
  BY <1>4 DEF Receive, Consume, Open, Close, Click, TypeName, PressCreate,
              NewChannelRefused, allVars, vars
<1>6. \A b : ~RunDeletion(b)
  BY <1>4 DEF RunDeletion, DeleteAll, DeleteChannelDoc
<1>. QED
  BY <1>1, <1>2, <1>3, <1>5, <1>6 DEF FormsNext, Serve, Asks

\* A deletion the viewer asks for is one of the channel displayed.
LEMMA ViewerDeletes ==
  ASSUME FormsInv, [FormsNext]_allVars, NEW r \in Requests, ~Active(r),
         Active(r)', req'[r].op = "deleteChannel", req'[r].user = Viewer
  PROVE  req'[r].id = Current.id /\ aim' = Null
<1>1. req'[r] # req[r]
  BY DEF Active
<1>2. Asks(r)
  BY <1>1, Sender, Created
<1>. QED
  BY <1>2, Asked

\* No step takes away a channel the viewer has created and not deleted.
LEMMA OwnKeptStep ==
  ASSUME FormsInv, [FormsNext]_allVars
  PROVE  OwnKept'
<1>a. Inv /\ Undisturbed /\ OwnKept /\ KnownOnce /\ Viewer \in Users
  BY FormsUndisturbed, FormsAssumption DEF FormsInv, Service
<1>. SUFFICES ASSUME NEW c \in Channels, Upcoming(c, Viewer)'
              PROVE  Keeps(Viewer, c)'
  BY DEF OwnKept
<1>1. CASE Upcoming(c, Viewer)
  <2>1. Keeps(Viewer, c) /\ c # Current.id
    BY <1>a, <1>1 DEF OwnKept, KnownOnce, Known
  <2>. QED
    BY <1>a, <2>1, KeepsStep, ViewerDeletes
<1>2. ASSUME NEW r \in Requests, Insert(r), req[r].op = "postChannel",
             req[r].id = c, req[r].user = Viewer
      PROVE  Keeps(Viewer, c)'
  BY <1>a, <1>2, InsertedIsKept
<1>. QED
  BY <1>a, <1>1, <1>2, UpcomingStep

\* The form stays aimed at what is displayed, or at what is gone.
LEMMA AimedStep ==
  ASSUME FormsInv, [FormsNext]_allVars
  PROVE  Aimed'
<1>a. /\ Inv /\ Undisturbed /\ OwnKept /\ KnownOnce /\ Aimed
      /\ Current.id \in Channels /\ aim \in Channels \cup {Null}
      /\ Null \notin Channels
  BY FormsUndisturbed, FormsAssumption, ConstantsDistinct
     DEF FormsInv, Service, TabTypes, ChannelEntries, Ids
<1>b. ASSUME NEW a, NEW c, a = aim', c = Current'.id,
             form' \in FormKinds \ {"create"} <=> a # Null,
             a # Null => c = a \/ GoneOrGoing(a)' \/ Keeps(Viewer, c)'
      PROVE  Aimed'
  BY <1>b DEF Aimed, GoneOrGoing, Deleting, Keeps, Stored, Active
<1>. PICK a : a = aim'
  OBVIOUS
<1>. PICK c : c = Current'.id
  OBVIOUS
<1>1. CASE a = Null /\ form' \in {"none", "create"}
  BY <1>b, <1>1 DEF FormKinds
<1>2. CASE /\ form' \in FormKinds \ {"create"} /\ aim' = Current.id
           /\ UNCHANGED <<vars, view>>
  <2>1. c = a /\ a # Null
    BY <1>a, <1>2 DEF Current
  <2>. QED
    BY <1>b, <1>2, <2>1
<1>3. CASE Click
  <2>1. /\ \/ form' = "message" /\ a = c
           \/ form' = "none" /\ a = Null
        /\ c \in Channels
    BY <1>3, Clicked DEF ChannelEntries
  <2>. QED
    BY <1>a, <1>b, <2>1 DEF FormKinds
<1>4. CASE UNCHANGED formVars /\ ~Click
  <2>1. a = aim /\ form' = form
    BY <1>4 DEF formVars
  <2>2. ASSUME a # Null PROVE c = a \/ GoneOrGoing(a)' \/ Keeps(Viewer, c)'
    <3>1. GoneOrGoing(a) => GoneOrGoing(a)'
      BY <1>a, <2>1, <2>2, GoingStays
    <3>2. ASSUME NEW k \in Channels, Keeps(Viewer, k) PROVE Keeps(Viewer, k)'
      <4>1. \A r \in Requests :
              ~(/\ ~Active(r) /\ Active(r)' /\ req'[r].op = "deleteChannel"
                /\ req'[r].user = Viewer /\ req'[r].id = k)
        BY <2>1, <2>2, ViewerDeletes
      <4>. QED
        BY <1>a, <3>2, <4>1, KeepsStep
    <3>3. Current.id = a \/ GoneOrGoing(a) \/ Keeps(Viewer, Current.id)
      BY <1>a, <2>1, <2>2 DEF Aimed
    <3>4. CASE c = Current.id
      BY <1>a, <3>1, <3>2, <3>3, <3>4
    <3>5. CASE Receive /\ c # Current.id
      <4>. PICK e : e = queue[1]
        OBVIOUS
      <4>1. /\ e \in Events /\ Announced(e) /\ 1 \in 1..Len(queue)
            /\ \/ /\ e.type = "channel-new" /\ e.doc.creator = Viewer
                  /\ c = e.id
               \/ e.type = "channel-delete" /\ e.id = Current.id
        BY <3>5, Heard
      <4>2. CASE /\ e.type = "channel-new" /\ e.doc.creator = Viewer
                 /\ c = e.id
        <5>1. c \in Channels
          BY <4>1, <4>2 DEF Announced
        <5>2. Upcoming(c, Viewer)
          BY <4>1, <4>2 DEF Upcoming, NewAt
        <5>. QED
          BY <1>a, <3>2, <5>1, <5>2 DEF OwnKept
      <4>3. CASE e.type = "channel-delete" /\ e.id = Current.id
        <5>1. GoneOrGoing(e.id)
          BY <4>1, <4>3 DEF FormsInv, Service, AnnouncedGoing
        <5>2. GoneOrGoing(Current.id)
          BY <4>3, <5>1
        <5>3. ~Keeps(Viewer, Current.id)
          BY <5>2 DEF Keeps, GoneOrGoing, Stored
        <5>. QED
          BY <3>1, <3>3, <5>2, <5>3
      <4>. QED
        BY <4>1, <4>2, <4>3
    <3>6. Receive \/ c = Current.id
      BY <1>4, ViewSteps DEF Current
    <3>. QED
      BY <3>4, <3>5, <3>6
  <2>. QED
    BY <1>a, <1>b, <2>1, <2>2 DEF Aimed
<1>. QED
  BY <1>1, <1>2, <1>3, <1>4, FormSteps

-----------------------------------------------------------------------------
(* The forms about the channel displayed.                                  *)

\* At the beginning the default channel is displayed and nothing is sent.
LEMMA FormsStart == FormsInit => FormsInv
<1>. SUFFICES ASSUME FormsInit PROVE FormsInv
  OBVIOUS
<1>1. Init /\ DialogInv
  BY DialogInit DEF FormsInit
<1>2. Service
  BY <1>1, InvInit, CollectionsInit, UndisturbedInit DEF Service
<1>. DEFINE k == B!Entry(General, DefaultChannel)
<1>3. k \in ChannelEntries /\ k.id = General
  BY ConstantsDistinct
     DEF B!Entry, ChannelEntries, ChannelDocs, DefaultChannel
<1>4. view = [channels |-> <<k>>, current |-> k, messages |-> <<>>]
  BY DEF FormsInit, LoadedView, Tab!ShowChannels, Tab!EmptyView, Tab!Entry,
         B!Entry
<1>. HIDE DEF k
<1>5. view \in Views
  <2>1. <<>> \in [{} -> Seq([id : Messages, doc : MessageDocs])]
    OBVIOUS
  <2>2. <<k>> \in Seq(ChannelEntries)
    BY <1>3
  <2>. QED
    BY <1>3, <1>4, <2>1, <2>2
       DEF Views, B!TabViews, B!Views, ChannelEntries
<1>6. TabTypes
  BY <1>3, <1>4, <1>5, FormsAssumption DEF TabTypes, FormsInit, Current
<1>7. ~\E c, u : Upcoming(c, u)
  BY <1>1 DEF Init, Upcoming, NewAt, Announcing, At, NoRequest
<1>8. KnownOnce
  <2>1. B!IdsOf(view.channels) = {General} /\ Current.id = General
    BY <1>3, <1>4 DEF B!IdsOf, Current
  <2>2. B!ListedOnce(view.channels)
    BY <1>4 DEF B!ListedOnce
  <2>3. docs[General] # Unborn
    BY <1>1, UndisturbedInit DEF GeneralStays, Stored
  <2>. QED
    BY <1>7, <2>1, <2>2, <2>3 DEF KnownOnce, Known
<1>9. OwnKept /\ Aimed
  BY <1>7 DEF OwnKept, Aimed, FormsInit, FormKinds
<1>. QED
  BY <1>1, <1>2, <1>6, <1>8, <1>9 DEF FormsInv

\* Every step keeps the invariant.
LEMMA FormsStep == FormsInv /\ [FormsNext]_allVars => FormsInv'
BY ServiceStep, DialogStep, TabTypesStep, KnownOnceStep, OwnKeptStep,
   AimedStep DEF FormsInv

\* The types as the runs check them.
LEMMA FormsTypes == FormsInv => FormsTypeOK
<1>. SUFFICES ASSUME FormsInv PROVE FormsTypeOK
  OBVIOUS
<1>1. view.channels \in Seq(ChannelEntries)
  BY B!InViews DEF FormsInv, TabTypes, Views, B!TabViews, ChannelEntries
<1>2. ChannelEntries \subseteq [id : Channels, doc : Doc]
  BY DEF ChannelEntries, ChannelDocs, Doc, Texts
<1>3. view.channels \in Seq([id : Channels, doc : Doc])
  <2>. DEFINE T == [id : Channels, doc : Doc]
              s == view.channels
  <2>1. s \in Seq(ChannelEntries) /\ ChannelEntries \subseteq T
    BY <1>1, <1>2
  <2>. HIDE DEF T, s
  <2>2. s \in [1..Len(s) -> T]
    BY <2>1
  <2>3. s \in Seq(T)
    BY <2>1, <2>2
  <2>. QED
    BY <2>3 DEF T, s
<1>. HIDE DEF ChannelEntries
<1>. QED
  BY <1>2, <1>3 DEF FormsTypeOK, FormsInv, TabTypes, DialogInv, Submitted

\* A form that sends was aimed, and sends for what is displayed.
LEMMA StepActs ==
  ASSUME FormsInv, [FormsNext]_allVars,
         NEW op \in {"postMessage", "patchChannel", "deleteChannel"},
         NEW c \in Channels, Sends(op, c)
  PROVE  \/ c = aim
         \/ ~Stored(aim)
         \/ \E b \in background : b.op = "delete" /\ b.id = aim
         \/ Stored(c) /\ docs[c].creator = Viewer
<1>1. PICK r \in Requests :
        /\ ~Active(r) /\ req'[r].user = Viewer /\ req'[r].op = op
        /\ c = IF op = "postMessage" THEN req'[r].channel ELSE req'[r].id
  BY DEF Sends
<1>2. req'[r] # req[r]
  BY <1>1 DEF FormsInv, DialogInv, Slots, NoRequest
<1>3. Asks(r)
  BY <1>1, <1>2, Sender, Created
<1>4. c = Current.id /\ form \in FormKinds \ {"create"}
  BY <1>1, <1>3, Asked
<1>. QED
  BY <1>4 DEF FormsInv, Aimed, GoneOrGoing, Deleting, Keeps, Stored

-----------------------------------------------------------------------------
(* The names the tab knows, while no two requests are changing one channel   *)
(* at the same time.                                                         *)

\* The tab has the name a channel has, once it has heard of every change.
NamesShown ==
  \A c \in Channels : Stored(c) /\ NameTold(c) =>
    \A x \in B!ElementsOf(view.channels) \cup {Current} :
      x.id = c => x.doc.text = docs[c].text

NamesInv ==
  /\ mqChannel = "open"
  /\ GeneralStays /\ General \in B!IdsOf(view.channels)
  /\ NamesCarried
  /\ NamesShown

\* An event changes the entries of its own channel only, and an update all of
\* them.
LEMMA HeardNames ==
  ASSUME FormsInv, Receive, NEW e, e = queue[1],
         B!IdsOf(view.channels) # {}
  PROVE  \A x \in B!ElementsOf(view'.channels) \cup {Current'} :
           \/ /\ x \in B!ElementsOf(view.channels) \cup {Current}
              /\ e.type = "channel-update" /\ e.doc # Null => x.id # e.id
           \/ /\ e.type \in {"channel-new", "channel-update"}
              /\ x.id = e.id /\ x.doc.text = e.doc.text
<1>. DEFINE w == B!Handle(view, e, Viewer)
<1>0. view' = w
  BY Hears
<1>1. /\ e.type \in B!Types
      /\ B!Fits(e, Channels, ChannelDocs, Messages, MessageDocs)
      /\ e.type = "channel-new" =>
           /\ e.id \in Channels /\ e.doc \in ChannelDocs
           /\ e.id \notin B!IdsOf(view.channels)
  BY Hears
<1>a. view \in Views /\ B!ListedOnce(view.channels)
  BY DEF FormsInv, TabTypes, KnownOnce
<1>2. Current \in ChannelEntries /\ Current # Null
  <2>1. ChannelEntries \subseteq [id : Channels, doc : Doc]
    BY DEF ChannelEntries, ChannelDocs, Doc, Texts
  <2>. QED
    BY <2>1, FormsAssumption DEF FormsInv, TabTypes
<1>3. view.channels # <<>>
  BY DEF B!IdsOf
<1>4. B!Renames(w, view, e)
  <2>. HIDE DEF w
  <2>1. w = B!Handle(view, e, Viewer)
    BY DEF w
  <2>. QED
    BY <1>a, <1>1, <2>1, B!HandledEntries DEF Views
<1>5. B!Relists(w, view, e, Viewer)
  <2>. HIDE DEF w
  <2>1. w = B!Handle(view, e, Viewer)
    BY DEF w
  <2>. QED
    BY <1>a, <1>1, <2>1, B!HandledIds DEF Views, Current
<1>. HIDE DEF w
<1>6. B!Entry(e.id, e.doc).id = e.id
      /\ B!Entry(e.id, e.doc).doc.text = e.doc.text
  BY DEF B!Entry
<1>7. ASSUME e.type = "channel-update", e.doc # Null
      PROVE  \/ w.current = Current /\ Current.id # e.id
             \/ w.current.id = e.id /\ w.current.doc.text = e.doc.text
  <2>1. w.current = IF B!Displays(view, e.id)
                    THEN [view.current EXCEPT !.doc.text = e.doc.text]
                    ELSE view.current
    BY <1>3, <1>4, <1>7 DEF B!Renames, B!Updates
  <2>2. B!Displays(view, e.id) <=> Current.id = e.id
    BY <1>2 DEF B!Displays, Current
  <2>3. [Current EXCEPT !.doc.text = e.doc.text].id = Current.id
        /\ [Current EXCEPT !.doc.text = e.doc.text].doc.text = e.doc.text
    BY <1>2 DEF ChannelEntries, ChannelDocs
  <2>. QED
    BY <2>1, <2>2, <2>3 DEF Current
<1>8. \A x \in B!ElementsOf(w.channels) :
        \/ /\ x \in B!ElementsOf(view.channels)
           /\ e.type = "channel-update" /\ e.doc # Null => x.id # e.id
        \/ /\ e.type \in {"channel-new", "channel-update"}
           /\ x.id = e.id /\ x.doc.text = e.doc.text
  BY <1>4, <1>6 DEF B!Renames, B!Updates
<1>9. \/ /\ w.current \in B!ElementsOf(view.channels) \cup {Current}
         /\ e.type = "channel-update" /\ e.doc # Null => w.current.id # e.id
      \/ /\ e.type \in {"channel-new", "channel-update"}
         /\ w.current.id = e.id /\ w.current.doc.text = e.doc.text
  BY <1>5, <1>6, <1>7 DEF Current, B!Relists
<1>10. Current' = w.current /\ view'.channels = w.channels
  BY <1>0 DEF Current
<1>. QED
  BY <1>8, <1>9, <1>10

\* The tab's names stay those of the channels when it hears of an event: the
\* last announcement of a change has the name the channel is left with.
LEMMA HeardShown ==
  ASSUME FormsInv, NamesInv, Receive, OneAtATime
  PROVE  NamesShown'
<1>. PICK e : e = queue[1]
  OBVIOUS
<1>a. /\ Inv /\ Collections /\ Undisturbed
      /\ Consume /\ UNCHANGED <<docs, req>>
  BY DEF FormsInv, Service, Receive, Consume, Undisturbed
<1>1. Announced(e) /\ 1 \in 1..Len(queue)
  BY Heard
<1>2. \A x \in B!ElementsOf(view'.channels) \cup {Current'} :
        \/ /\ x \in B!ElementsOf(view.channels) \cup {Current}
           /\ e.type = "channel-update" /\ e.doc # Null => x.id # e.id
        \/ /\ e.type \in {"channel-new", "channel-update"}
           /\ x.id = e.id /\ x.doc.text = e.doc.text
  BY HeardNames DEF NamesInv
<1>3. ASSUME NEW c \in Channels, Stored(c)', NameTold(c)',
             NEW x \in B!ElementsOf(view'.channels) \cup {Current'}, x.id = c
      PROVE  x.doc.text = docs'[c].text
  <2>1. Stored(c) /\ docs'[c] = docs[c] /\ NameCarried(c) /\ c # Null
    BY <1>a, <1>3, ConstantsDistinct DEF Stored, NamesInv, NamesCarried, Ids
  <2>2. NameTold(c) \/ (~Renaming(c) /\ LastUpdate(1, c))
    BY <1>a, <1>3, <2>1, NameToldStep DEF NamesInv, Stored
  <2>3. LastUpdate(1, c) => /\ e.type = "channel-update" /\ e.id = c
                            /\ e.doc # Null
    BY <1>1, <2>1 DEF LastUpdate, UpdateAt, Announced
  <2>4. CASE /\ x \in B!ElementsOf(view.channels) \cup {Current}
             /\ e.type = "channel-update" /\ e.doc # Null => x.id # e.id
    <3>1. NameTold(c)
      BY <1>3, <2>2, <2>3, <2>4
    <3>. QED
      BY <1>3, <2>1, <2>4, <3>1 DEF NamesInv, NamesShown
  <2>5. CASE /\ e.type = "channel-new"
             /\ x.id = e.id /\ x.doc.text = e.doc.text
    <3>1. CreationAt(1, c) /\ NameTold(c)
      BY <1>3, <2>2, <2>3, <2>5 DEF CreationAt, NewAt
    <3>. QED
      BY <1>1, <2>1, <2>5, <3>1 DEF NameCarried
  <2>6. CASE /\ e.type = "channel-update"
             /\ x.id = e.id /\ x.doc.text = e.doc.text
    <3>1. UpdateAt(1, c)
      BY <1>3, <2>6 DEF UpdateAt
    <3>2. ~Renaming(c) /\ LastUpdate(1, c)
      BY <1>1, <2>2, <3>1 DEF NameTold
    <3>. QED
      BY <1>1, <2>1, <2>6, <3>2 DEF NameCarried
  <2>. QED
    BY <1>2, <1>3, <2>4, <2>5, <2>6
<1>. QED
  BY <1>3 DEF NamesShown, Current

\* The events are for the tab alone.
LEMMA NotConsumed ==
  ASSUME FormsInv, [FormsNext]_allVars, Consume
  PROVE  Receive
<1>a. Inv /\ queue \in Seq(Events)
  BY DEF FormsInv, Service, Inv, TypeOK
<1>. SUFFICES ASSUME ~Receive PROVE FALSE
  OBVIOUS
<1>1. \/ \E r \in Requests : Arrive(r) \/ Advance(r)
      \/ \E b \in background : RunDeletion(b)
      \/ UNCHANGED vars
  <2>1. ASSUME NEW r \in Requests, Asks(r) \/ NewChannel(r) PROVE Arrive(r)
    BY <2>1, Asked, Created
  <2>2. CASE Serve
    BY <1>a, <2>2, OthersAsked DEF Serve, Inv
  <2>3. CASE \/ Open \/ Close \/ Click \/ TypeName \/ PressCreate
             \/ NewChannelRefused \/ UNCHANGED allVars
    BY <2>3 DEF Open, Close, Click, TypeName, PressCreate, NewChannelRefused,
                allVars
  <2>. QED
    BY <2>1, <2>2, <2>3 DEF FormsNext, Asks
<1>2. queue' = queue \/ \E e : queue' = Append(queue, e)
  BY <1>a, <1>1, ArriveReq
     DEF Advance, FindOne, Refuse, Throw, Proceed, ProceedDeleteChannel,
         Insert, Update, Delete, Reply, SendToMQ, RunDeletion, DeleteAll,
         DeleteChannelDoc, vars, Inv
<1>3. Len(queue') = Len(queue) - 1 /\ Len(queue) \in Nat
  BY <1>a DEF Consume
<1>4. ASSUME NEW e, queue' = Append(queue, e)
      PROVE  Len(queue') = Len(queue) + 1
  BY <1>a, <1>4
<1>. QED
  BY <1>2, <1>3, <1>4

\* A name does not go stale while the tab hears of nothing.
LEMMA UnheardShown ==
  ASSUME FormsInv, NamesInv, [FormsNext]_allVars, ~Receive, OneAtATime
  PROVE  NamesShown'
<1>a. Inv /\ Collections /\ Undisturbed /\ KnownOnce
  BY FormsUndisturbed DEF FormsInv, Service
<1>1. ~(Consume /\ UNCHANGED <<docs, req>>)
  <2>1. ASSUME Consume PROVE Receive
    BY <2>1, NotConsumed
  <2>. QED
    BY <2>1
<1>2. ASSUME NEW x,
             x \in B!ElementsOf(view'.channels) \cup {Current'}
      PROVE  x \in B!ElementsOf(view.channels) \cup {Current}
  BY <1>2, ViewSteps, Clicked DEF Current
<1>3. ASSUME NEW x \in B!ElementsOf(view.channels) \cup {Current}
      PROVE  Known(x.id)
  BY DEF Known, B!ElementsOf, B!IdsOf
<1>4. ASSUME NEW c \in Channels, Stored(c)', NameTold(c)',
             NEW x \in B!ElementsOf(view'.channels) \cup {Current'}, x.id = c
      PROVE  x.doc.text = docs'[c].text
  <2>1. x \in B!ElementsOf(view.channels) \cup {Current} /\ Known(c)
    BY <1>2, <1>3, <1>4
  <2>2. docs[c] # Unborn
    BY <1>a, <2>1 DEF KnownOnce
  <2>3. Stored(c) /\ NameTold(c) /\ docs'[c].text = docs[c].text
    BY <1>a, <1>1, <1>4, <2>2, NameToldStep DEF NamesInv
  <2>. QED
    BY <1>4, <2>1, <2>3 DEF NamesInv, NamesShown
<1>. QED
  BY <1>4 DEF NamesShown, Current

\* The default channel stays in the list: it is never deleted.
LEMMA GeneralListed ==
  ASSUME FormsInv, NamesInv, [FormsNext]_allVars
  PROVE  General \in B!IdsOf(view'.channels)
<1>1. CASE Receive
  <2>. PICK e : e = queue[1]
    OBVIOUS
  <2>1. /\ 1 \in 1..Len(queue)
        /\ \/ General \in B!IdsOf(view'.channels)
           \/ e.type = "channel-delete" /\ General = e.id
    BY <1>1, Heard DEF NamesInv
  <2>2. ~(e.type = "channel-delete" /\ General = e.id)
    BY <2>1 DEF FormsInv, Service, AnnouncedGoing, GoneOrGoing, NamesInv,
                GeneralStays, Stored
  <2>. QED
    BY <2>1, <2>2
<1>2. CASE Click \/ view' = view
  BY <1>2, Clicked DEF NamesInv
<1>. QED
  BY <1>1, <1>2, ViewSteps

\* Every step keeps the names.
LEMMA NamesStep ==
  FormsInv /\ NamesInv /\ OneAtATime /\ [FormsNext]_allVars => NamesInv'
<1>. SUFFICES ASSUME FormsInv, NamesInv, OneAtATime, [FormsNext]_allVars
              PROVE  NamesInv'
  OBVIOUS
<1>1. Inv /\ Collections /\ Undisturbed
  BY FormsUndisturbed DEF FormsInv, Service
<1>2. mqChannel' = "open" /\ GeneralStays' /\ NamesCarried'
  BY <1>1, StaysOpen, GeneralStep, NamesCarriedStep DEF NamesInv
<1>3. NamesShown'
  BY HeardShown, UnheardShown
<1>. QED
  BY <1>2, <1>3, GeneralListed DEF NamesInv

\* At the beginning the one channel is listed under its name.
LEMMA NamesStart == FormsInit => NamesInv
<1>. SUFFICES ASSUME FormsInit PROVE NamesInv
  OBVIOUS
<1>1. mqChannel = "open" /\ GeneralStays /\ NamesCarried
  BY UndisturbedInit, NamesCarriedInit DEF FormsInit
<1>. DEFINE k == B!Entry(General, DefaultChannel)
<1>2. k.id = General /\ k.doc.text = DefaultName /\ k.doc = DefaultChannel
  BY DEF B!Entry, DefaultChannel
<1>3. view.channels = <<k>> /\ Current = k
  BY DEF FormsInit, LoadedView, Tab!ShowChannels, Tab!EmptyView, Tab!Entry,
         B!Entry, Current
<1>. HIDE DEF k
<1>4. General \in B!IdsOf(view.channels) /\ B!ElementsOf(view.channels) = {k}
  BY <1>2, <1>3 DEF B!IdsOf, B!ElementsOf
<1>5. docs[General] = DefaultChannel
  BY ConstantsDistinct DEF FormsInit, Init, Ids
<1>6. NamesShown
  BY <1>2, <1>3, <1>4, <1>5 DEF NamesShown
<1>. QED
  BY <1>1, <1>4, <1>6 DEF NamesInv

\* The edit of a topic sends the name the channel has.
LEMMA StepKeepsName ==
  ASSUME FormsInv, NamesInv, [FormsNext]_allVars,
         NEW c \in Channels, NEW r \in Requests,
         Sends("patchChannel", c), req'[r].id = c, req'[r] # req[r],
         Stored(c), ~Unheard(c)
  PROVE  req'[r].text = docs[c].text
<1>1. PICK s \in Requests :
        /\ ~Active(s) /\ req'[s].user = Viewer
        /\ req'[s].op = "patchChannel"
  BY DEF Sends
<1>2. req'[s] # req[s]
  BY <1>1 DEF FormsInv, DialogInv, Slots, NoRequest
<1>3. Asks(s) /\ r = s
  BY <1>1, <1>2, Sender, Created, Asked
<1>4. EditDescription(r) /\ c = Current.id /\ TypeOK
  <2>1. c = Current.id
    BY <1>1, <1>3, Asked
  <2>. QED
    BY <1>1, <1>3, <2>1, BeginReq
       DEF Asks, NewMessage, DeleteDisplayed, FormsInv, Service, Inv
<1>5. req'[r].text = Current.doc.text
  BY <1>4, BeginReq DEF EditDescription
<1>6. NameTold(c)
  BY DEF Unheard, NameTold, Renaming, Carries, UpdateAt
<1>. QED
  BY <1>4, <1>5, <1>6 DEF NamesInv, NamesShown

-----------------------------------------------------------------------------
(* Theorems.                                                               *)

\* The last press of Create decides the name until its second is over,
\* whatever is typed, closed and opened meanwhile and whatever events arrive.
THEOREM DialogInvariant == FormsSpec => []DialogInv
<1>1. FormsInit => DialogInv
  BY DialogInit
<1>2. DialogInv /\ [FormsNext]_allVars => DialogInv'
  BY DialogStep
<1>. QED
  BY <1>1, <1>2, PTL DEF FormsSpec

\* Channels are created under names the user has pressed Create for, though
\* the name is read a second later.
THEOREM ChannelsAreCreatedAsPressed == FormsSpec => CreatedAsPressed
<1>1. DialogInv /\ [FormsNext]_allVars =>
        [\A c \in Channels :
           Sends("postChannel", c) =>
             \E i \in 1..Len(pressed), r \in Requests :
               req'[r].id = c /\ req'[r].text = pressed[i]]_allVars
  BY StepCreates
<1>2. FormsSpec => []DialogInv
  BY DialogInvariant
<1>. QED
  BY <1>1, <1>2, PTL DEF FormsSpec, CreatedAsPressed

\* FormsInv is inductive.
THEOREM FormsInvariant == FormsSpec => []FormsInv
BY FormsStart, FormsStep, PTL DEF FormsSpec

\* View, forms and names keep their types, however documents, requests and
\* events come and go.
THEOREM FormsTypesHold == FormsSpec => []FormsTypeOK
BY FormsInvariant, FormsTypes, PTL

\* The service in front of which the tab stands is the service of Messaging:
\* all that is proved about it holds with the forms in front.
THEOREM FormsUseTheService == FormsSpec => Spec
<1>1. FormsInit => Init
  BY DEF FormsInit
<1>2. FormsInv /\ [FormsNext]_allVars => [Next]_vars
  BY FormsUndisturbed, UndisturbedNext DEF FormsInv, Service, Inv
<1>. QED
  BY <1>1, <1>2, FormsInvariant, PTL DEF FormsSpec, Spec

\* A form used on one channel acts on another only when the first is deleted
\* or being deleted, or when the other is one the user has created.
THEOREM FormsActOnWhatWasShown == FormsSpec => ActsOnWhatWasShown
<1>1. FormsInv /\ [FormsNext]_allVars =>
        [\A op \in {"postMessage", "patchChannel", "deleteChannel"},
            c \in Channels :
           Sends(op, c) =>
             \/ c = aim
             \/ ~Stored(aim)
             \/ \E b \in background : b.op = "delete" /\ b.id = aim
             \/ Stored(c) /\ docs[c].creator = Viewer]_allVars
  BY StepActs
<1>. QED
  BY <1>1, FormsInvariant, PTL DEF FormsSpec, ActsOnWhatWasShown

\* Editing a topic does not undo a change of name the tab could have heard of,
\* as long as nobody changes one channel twice at the same time.
THEOREM EditsKeepNames == FormsSpec /\ []OneAtATime => EditsKeepTheName
<1>1. FormsInv /\ NamesInv /\ [FormsNext]_allVars =>
        [\A c \in Channels, r \in Requests :
           /\ Sends("patchChannel", c) /\ req'[r].id = c /\ req'[r] # req[r]
           /\ Stored(c) /\ ~Unheard(c)
           => req'[r].text = docs[c].text]_allVars
  BY StepKeepsName
<1>2. FormsSpec /\ []OneAtATime => []NamesInv
  BY NamesStart, NamesStep, FormsInvariant, PTL DEF FormsSpec
<1>. QED
  BY <1>1, <1>2, FormsInvariant, PTL DEF FormsSpec, EditsKeepTheName

=============================================================================

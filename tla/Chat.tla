--------------------------------- MODULE Chat ---------------------------------
(***************************************************************************)
(* One browser tab (Browser) in front of the messaging service             *)
(* (Messaging).  The gateway's notifier lies between the two: by           *)
(* NotifierProofs a client whose connection lives receives the events of   *)
(* the queue in order and without a gap from the moment it is registered,  *)
(* so the queue is received here directly.                                 *)
(*                                                                         *)
(* The tab fetches the list of channels when it is created, opens the      *)
(* websocket, and fetches a channel's messages when the user clicks on it. *)
(* A fetch is three steps: sent, executed by MongoDB, and shown.           *)
(*                                                                         *)
(* What the user sees is what was rendered last.  That is behind the state *)
(* of the tab when its handler has thrown, and nothing at all once         *)
(* render() has.                                                           *)
(***************************************************************************)
EXTENDS Messaging

CONSTANTS
  Viewer,          \* the user of the tab
  ChannelLimit,    \* find({}).limit(100): the bound, scaled down or not
  MessageLimit,    \* find({channelID}).limit(50)
  MaxFetches,      \* bound of the model: fetches under way at a time
  Overlaps         \* whether changes may happen while a fetch is under way

ASSUME ChatAssumption ==
  /\ Viewer \in Users
  /\ {ChannelLimit, MessageLimit, MaxFetches} \subseteq Nat \ {0}
  /\ Overlaps \in BOOLEAN
  /\ Null \notin [id : Channels, doc : Doc] /\ Null # Nobody

VARIABLES
  order,           \* the documents in MongoDB's natural order
  view,            \* the state of the tab
  screen,          \* what was rendered last, Null once render() has thrown
  me,              \* this.state.user.id, Null until the profile is fetched
  joined,          \* whether the gateway has registered the websocket
  fetches,         \* fetches under way
  unheard          \* messages of a channel not displayed when they were deleted

tabVars  == <<view, screen, me, joined, fetches, unheard>>
chatVars == <<vars, order, tabVars>>

Tab == INSTANCE Browser

\* setState().  A page that is gone does not come back; what its callbacks
\* still do to the state is then of no consequence.
Render == screen' = IF screen = Null THEN Null ELSE Tab!Screen(view')

-----------------------------------------------------------------------------
(* Fetches. *)

Fetch(kind, c) == [kind |-> kind, channel |-> c, data |-> Null]

\* The elements of s that are in S, in their order.
Those(s, S) ==
  LET keep(found, x) == IF x \in S THEN Append(found, x) ELSE found
  IN Tab!FoldLeft(keep, <<>>, s)

\* find() for the documents S: in natural order, and no more than limit.
Page(S, limit) ==
  LET found == Those(order, S)
      size  == IF Len(found) < limit THEN Len(found) ELSE limit
  IN [i \in 1..size |-> Tab!Entry(found[i], docs[found[i]])]

\* ChannelStore.getAll()
AllChannels == Page({c \in Channels : Stored(c)}, ChannelLimit)

\* MessageStore.getAll()
AllMessages(c) ==
  Page({m \in Messages : Stored(m) /\ docs[m].channel = c}, MessageLimit)

Quiet ==
  /\ \A r \in Requests : ~Active(r)
  /\ queue = <<>> /\ background = {}

Settled == Quiet /\ fetches = {} /\ joined /\ me # Null

-----------------------------------------------------------------------------

ChatInit ==
  /\ Init
  /\ order = <<General>>
  /\ view = Tab!EmptyView
  /\ screen = Tab!Screen(Tab!EmptyView)
  /\ me = Null
  /\ joined = FALSE
  /\ fetches = {Fetch("channels", Null)}
  /\ unheard = {}

\* A step of the service and of MongoDB.  A new document is the last in
\* natural order.
Serve ==
  /\ \/ \E r \in Requests :
          \/ (~Overlaps => fetches = {} /\ joined /\ me # Null) /\ Arrive(r)
          \/ Advance(r)
     \/ \E b \in background : RunDeletion(b)
  /\ LET new == {d \in Ids : ~Stored(d) /\ Stored(d)'} IN
     \/ new = {} /\ order' = order
     \/ \E d \in new : order' = Append(order, d)
  /\ UNCHANGED tabVars

\* fetchUser() is answered.
ShowUser ==
  /\ me = Null
  /\ me' = Viewer
  /\ UNCHANGED <<vars, order, view, joined, fetches, unheard>>
  /\ Render

\* The websocket is open and the notifier has registered it.
Join ==
  /\ ~joined
  /\ joined' = TRUE
  /\ UNCHANGED <<vars, order, view, screen, me, fetches, unheard>>

\* MongoDB has executed the fetch's find().
Return(f, data) ==
  /\ f.data = Null
  /\ fetches' = (fetches \ {f}) \cup {[f EXCEPT !.data = data]}
  /\ UNCHANGED <<vars, order, view, screen, me, joined, unheard>>

\* GET /v1/channels
FindChannels(f) == f.kind = "channels" /\ Return(f, AllChannels)

\* GET /v1/channels/:channelID
FindMessages(f) == f.kind = "messages" /\ Return(f, AllMessages(f.channel))

\* fetchChannels() is answered; it goes on with the first channel's messages.
ShowChannels(f) ==
  /\ f.kind = "channels" /\ f.data # Null
  /\ view' = Tab!ShowChannels(view, f.data)
  /\ Render
  /\ fetches' = (fetches \ {f}) \cup {Fetch("messages", f.data[1].id)}
  /\ UNCHANGED <<vars, order, me, joined, unheard>>

\* fetchMessages() is answered.
ShowMessages(f) ==
  /\ f.kind = "messages" /\ f.data # Null
  /\ view' = Tab!ShowMessages(view, f.channel, f.data)
  /\ Render
  /\ fetches' = fetches \ {f}
  /\ UNCHANGED <<vars, order, me, joined, unheard>>

\* The user clicks on a channel he sees.
Click ==
  /\ ~Overlaps => Quiet
  /\ Cardinality(fetches) < MaxFetches
  /\ screen # Null
  /\ \E i \in 1..Len(screen.channels) :
       /\ view' = Tab!Click(view, screen.channels[i])
       /\ fetches' = fetches \cup {Fetch("messages", screen.channels[i].id)}
  /\ Render
  /\ UNCHANGED <<vars, order, me, joined, unheard>>

\* Whatever else is typed, opened or closed on the page renders it again.
Touch ==
  /\ UNCHANGED <<vars, order, view, me, joined, fetches, unheard>>
  /\ Render

\* The next event of the queue reaches the tab, if it is registered.
Receive ==
  LET e == Head(queue) IN
  /\ Consume
  /\ view' = IF joined THEN Tab!Handle(view, e, me) ELSE view
  /\ IF joined /\ ~Tab!Throws(view, e) THEN Render ELSE UNCHANGED screen
  /\ unheard' = unheard \cup
       {m \in Messages : /\ e.type = "message-delete" /\ e.id = m
                         /\ \E c \in Tab!Cached(view) :
                              /\ ~Tab!Displays(view, c)
                              /\ m \in Tab!IdsOf(view.messages[c])}
  /\ UNCHANGED <<order, me, joined, fetches>>

ChatNext ==
  \/ Serve
  \/ ShowUser
  \/ Join
  \/ \E f \in fetches :
       \/ FindChannels(f) \/ FindMessages(f)
       \/ ShowChannels(f) \/ ShowMessages(f)
  \/ Click
  \/ Touch
  \/ Receive

ChatSpec == ChatInit /\ [][ChatNext]_chatVars

-----------------------------------------------------------------------------
(* Properties. *)

Entries(S) == [id : S, doc : Doc]

\* Type invariant of the tab's state and of its page.
ChatTypeOK ==
  /\ order \in Seq(Ids)
  /\ view.channels \in Seq(Entries(Channels))
  /\ view.current \in Entries(Channels) \cup {Null}
  /\ Tab!Cached(view) \subseteq Channels
  /\ \A c \in Tab!Cached(view) : view.messages[c] \in Seq(Entries(Messages))
  /\ screen # Null =>
       screen \in [channels : Seq(Entries(Channels)),
                   current  : Entries(Channels) \cup {Null},
                   messages : Seq(Entries(Messages))]
  /\ me \in {Null, Viewer} /\ joined \in BOOLEAN
  /\ unheard \subseteq Messages

\* The list shown is the list all, but for channels at its end that have no
\* creator.
ShownOf(all, shown) ==
  /\ Len(shown) <= Len(all)
  /\ \A i \in 1..Len(all) :
       IF i <= Len(shown) THEN shown[i] = all[i]
       ELSE all[i].doc.creator = Nobody

\* A page that follows the events shows the list of channels a reload would
\* show, with the names they have now, and displays one of them, though the
\* handler edits the list while it iterates over it.  Missing are only channels
\* without a creator that came last: the handler throws at those, and they
\* are seen when the page is next rendered.
ChannelsConverge ==
  Settled /\ screen # Null =>
    /\ ShownOf(AllChannels, screen.channels)
    /\ \E i \in 1..Len(screen.channels) : screen.channels[i] = screen.current

\* And it shows the messages a reload would show, once each, in their order
\* and with the bodies they have now, apart from messages that are gone.
MessagesConverge ==
  Settled /\ screen # Null =>
    Those(screen.messages, {x \in Entries(Messages) : Stored(x.id)}) =
      AllMessages(screen.current.id)

\* A message that was deleted is not shown, unless another channel was
\* displayed when the tab was told.
NoGhosts ==
  Settled /\ screen # Null =>
    \A m \in Tab!IdsOf(screen.messages) : Stored(m) \/ m \in unheard

\* Messages are posted in real time: when everything has settled, every
\* message of the channel displayed is on the screen of a page that is there.
PostsAppear ==
  Settled /\ screen # Null =>
    \A m \in Messages :
      Stored(m) /\ docs[m].channel = screen.current.id =>
        m \in Tab!IdsOf(screen.messages)

=============================================================================

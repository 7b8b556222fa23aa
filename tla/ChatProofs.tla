------------------------------ MODULE ChatProofs ------------------------------
(***************************************************************************)
(* Proofs about the tab that fetches and follows the events (Chat), for    *)
(* any number of users, documents, requests, events and fetches.  First    *)
(* the types, whatever happens while a fetch is under way; then, when      *)
(* nothing changes meanwhile and requests are served one at a time, that   *)
(* the lists of channels and messages are those a reload would show.       *)
(***************************************************************************)
EXTENDS Chat, MessagingProofs

\* The lemmas about the tab's callbacks.
B == INSTANCE BrowserProofs

-----------------------------------------------------------------------------
(* The invariant of every behaviour.                                         *)

ChannelEntries == [id : Channels, doc : ChannelDocs]

MessageEntries == [id : Messages, doc : MessageDocs]

Views == B!TabViews(Channels, ChannelDocs, Messages, MessageDocs)

\* The documents in the order of their insertion, the default channel first.
Natural ==
  /\ order \in Seq(Ids) /\ B!Distinct(order)
  /\ order # <<>> /\ order[1] = General
  /\ \A d \in Ids : d \in B!ElementsOf(order) <=> docs[d] # Unborn

\* A fetch and what it has returned.
FetchOf(f) ==
  /\ f = [kind |-> f.kind, channel |-> f.channel, data |-> f.data]
  /\ \/ /\ f.kind = "channels"
        /\ f.data = Null \/ f.data \in Seq(ChannelEntries) \ {<<>>}
     \/ /\ f.kind = "messages" /\ f.channel \in Channels
        /\ f.data = Null \/ f.data \in Seq(MessageEntries)

ChatTypes ==
  /\ view \in Views
  /\ me \in {Null, Viewer} /\ joined \in BOOLEAN
  /\ unheard \subseteq Messages
  /\ \A f \in fetches : FetchOf(f)

Pages ==
  [channels : Seq(ChannelEntries), current : ChannelEntries \cup {Null},
   messages : Seq(MessageEntries)]

\* A page that is there displays the channel the tab does, and its list lacks
\* no channels but those at which the handler threw.
Rendered ==
  screen # Null =>
    /\ screen \in Pages
    /\ ShownOf(view.channels, screen.channels)
    /\ screen.current = view.current

ChatInv ==
  Inv /\ Collections /\ GeneralStays /\ Natural /\ ChatTypes /\ Rendered

-----------------------------------------------------------------------------
(* The service under the tab.                                                *)

\* In front of the tab the service runs undisturbed.
LEMMA ChatUndisturbed == ChatNext => Undisturbed
  BY DEF ChatNext, Serve, ShowUser, Join, FindChannels, FindMessages, Return,
         ShowChannels, ShowMessages, Click, Touch, Receive, Undisturbed

\* Only a step of the service changes the documents and their order.
LEMMA OrderStays ==
  ASSUME ChatNext, ~Serve
  PROVE  UNCHANGED <<docs, order>>
  BY DEF ChatNext, ShowUser, Join, FindChannels, FindMessages, Return,
         ShowChannels, ShowMessages, Click, Touch, Receive, Consume, vars

\* A new document is appended to those that were there.
LEMMA NaturalStep ==
  ASSUME Inv, Undisturbed, Natural, Serve \/ UNCHANGED <<docs, order>>
  PROVE  /\ Natural'
         /\ \/ order' = order
            \/ \E d \in Ids : order' = Append(order, d)
<1>a. /\ order \in Seq(Ids) /\ B!Distinct(order)
      /\ order # <<>> /\ order[1] = General
      /\ \A d \in Ids : d \in B!ElementsOf(order) <=> docs[d] # Unborn
  BY DEF Natural
<1>b. B!ElementsOf(order) \subseteq Ids
  BY <1>a DEF B!ElementsOf
<1>c. \A d \in Ids : docs[d] # Unborn => docs'[d] # Unborn
  BY UndisturbedNext, DocsStep DEF Inv, Monotone
<1>. DEFINE new == {d \in Ids : ~Stored(d) /\ Stored(d)'}
<1>1. CASE order' = order /\ (new = {} \/ UNCHANGED docs)
  <2>1. \A d \in Ids : docs[d] = Unborn => docs'[d] = Unborn
    BY <1>1, StoredAnew DEF Stored
  <2>. QED
    BY <1>a, <1>b, <1>c, <1>1, <2>1 DEF Natural, B!ElementsOf, B!Distinct
<1>2. ASSUME NEW d \in Ids, ~Stored(d), Stored(d)', order' = Append(order, d)
      PROVE  Natural'
  <2>1. docs[d] = Unborn /\ \A c \in Ids \ {d} : docs'[c] = docs[c]
    BY <1>2, StoredAnew
  <2>2. d \notin B!ElementsOf(order)
    BY <1>a, <2>1
  <2>3. PICK n \in Nat : n = Len(order)
    BY <1>a
  <2>4. /\ order' \in Seq(Ids) /\ Len(order') = n + 1 /\ order'[n + 1] = d
        /\ \A i \in 1..n : order'[i] = order[i]
        /\ 1 \in 1..n
    BY <1>a, <1>2, <2>3
  <2>5. 1..n + 1 = 1..n \cup {n + 1} /\ n + 1 \notin 1..n
    BY <2>3
  <2>6. B!ElementsOf(order)' = B!ElementsOf(order) \cup {d}
    BY <2>3, <2>4, <2>5 DEF B!ElementsOf
  <2>7. \A i \in 1..n : order[i] # d
    BY <2>2, <2>3 DEF B!ElementsOf
  <2>8. B!Distinct(order)'
    BY <1>a, <2>3, <2>4, <2>5, <2>7 DEF B!Distinct
  <2>9. order' # <<>> /\ order'[1] = General
    BY <1>a, <2>4, <2>3
  <2>10. docs'[d] # Unborn
    BY <1>2 DEF Stored
  <2>11. \A c \in Ids : c \in B!ElementsOf(order)' <=> docs'[c] # Unborn
    BY <1>a, <1>b, <1>c, <2>1, <2>6, <2>10
  <2>. QED
    BY <2>4, <2>8, <2>9, <2>11 DEF Natural
<1>. QED
  BY <1>1, <1>2 DEF Serve

-----------------------------------------------------------------------------
(* The fetches and the callbacks.                                            *)

\* The selection of elements is the one the lemmas of BrowserProofs are about.
LEMMA ThoseSame ==
  ASSUME NEW s, NEW S
  PROVE  Those(s, S) = B!Those(s, S)
  BY DEF Those, B!Those, Tab!FoldLeft, B!FoldLeft,
         Tab!MapThenFoldSet, B!MapThenFoldSet, Tab!Max, B!Max

\* What find() returns has the documents of S there is room for.
LEMMA PageOf ==
  ASSUME Natural, NEW S \in SUBSET Ids, NEW limit \in Nat,
         NEW C, NEW D, S \subseteq C, \A d \in S : docs[d] \in D
  PROVE  /\ Page(S, limit) \in Seq([id : C, doc : D])
         /\ Len(Page(S, limit)) =
              IF Len(Those(order, S)) < limit THEN Len(Those(order, S))
              ELSE limit
         /\ \A i \in 1..Len(Page(S, limit)) :
              Page(S, limit)[i] =
                Tab!Entry(Those(order, S)[i], docs[Those(order, S)[i]])
<1>. DEFINE found == Those(order, S)
            size  == IF Len(found) < limit THEN Len(found) ELSE limit
            E     == [id : C, doc : D]
<1>1. found \in Seq(Ids) /\ B!ElementsOf(found) \subseteq S
  BY ThoseSame, B!ThoseAre DEF Natural
<1>2. Page(S, limit) = [i \in 1..size |-> Tab!Entry(found[i], docs[found[i]])]
  BY DEF Page
<1>. HIDE DEF found
<1>3. size \in Nat /\ 1..size \subseteq 1..Len(found)
  BY <1>1
<1>4. \A i \in 1..size : found[i] \in S
  BY <1>1, <1>3 DEF B!ElementsOf
<1>5. \A i \in 1..size : Tab!Entry(found[i], docs[found[i]]) \in E
  BY <1>4 DEF Tab!Entry
<1>. HIDE DEF size, E
<1>6. /\ Page(S, limit) \in Seq(E) /\ Len(Page(S, limit)) = size
      /\ \A i \in 1..size :
           Page(S, limit)[i] = Tab!Entry(found[i], docs[found[i]])
  BY <1>2, <1>3, <1>5
<1>. QED
  BY <1>6 DEF found, size, E

\* The default channel is always among the channels found.
LEMMA ChannelsFound ==
  ASSUME Inv, Collections, GeneralStays, Natural
  PROVE  AllChannels \in Seq(ChannelEntries) \ {<<>>}
<1>. DEFINE S == {c \in Channels : Stored(c)}
<1>1. /\ S \in SUBSET Ids /\ S \subseteq Channels
      /\ \A d \in S : docs[d] \in ChannelDocs
  BY DEF Collections, StoredWhereItBelongs, DocsOf, Ids
<1>2. ChannelLimit \in Nat \ {0}
  BY ChatAssumption
<1>3. /\ AllChannels \in Seq(ChannelEntries)
      /\ Len(AllChannels) =
           IF Len(Those(order, S)) < ChannelLimit THEN Len(Those(order, S))
           ELSE ChannelLimit
  <2>. HIDE DEF S
  <2>1. /\ Page(S, ChannelLimit) \in Seq(ChannelEntries)
        /\ Len(Page(S, ChannelLimit)) =
             IF Len(Those(order, S)) < ChannelLimit THEN Len(Those(order, S))
             ELSE ChannelLimit
    BY <1>1, <1>2, PageOf DEF ChannelEntries
  <2>. QED
    BY <2>1 DEF AllChannels, S
<1>4. Those(order, S) \in Seq(Ids) /\ General \in B!ElementsOf(Those(order, S))
  <2>1. General \in S /\ General \in B!ElementsOf(order)
    BY ConstantsDistinct DEF GeneralStays, Natural, Ids, Stored
  <2>. HIDE DEF S
  <2>. QED
    BY <2>1, ThoseSame, B!ThoseAre DEF Natural
<1>5. Len(Those(order, S)) \in Nat /\ Len(Those(order, S)) # 0
  <2>. HIDE DEF S
  <2>. QED
    BY <1>4 DEF B!ElementsOf
<1>. QED
  BY <1>2, <1>3, <1>5

\* Messages are fetched with the documents they have.
LEMMA MessagesFound ==
  ASSUME Inv, Collections, Natural, NEW c
  PROVE  AllMessages(c) \in Seq(MessageEntries)
<1>. DEFINE S == {m \in Messages : Stored(m) /\ docs[m].channel = c}
<1>1. /\ S \in SUBSET Ids /\ S \subseteq Messages
      /\ \A d \in S : docs[d] \in MessageDocs
  BY ConstantsDistinct DEF Collections, StoredWhereItBelongs, DocsOf, Ids
<1>2. MessageLimit \in Nat
  BY ChatAssumption
<1>. HIDE DEF S
<1>3. Page(S, MessageLimit) \in Seq(MessageEntries)
  BY <1>1, <1>2, PageOf DEF MessageEntries
<1>. QED
  BY <1>3 DEF AllMessages, S

\* The tab's callbacks are those the lemmas of BrowserProofs are about.
LEMMA SplicedSame ==
  ASSUME NEW entries, NEW id
  PROVE  Tab!Spliced(entries, id) = B!Spliced(entries, id)
  BY DEF Tab!Spliced, B!Spliced, Tab!FoldLeft, B!FoldLeft,
         Tab!MapThenFoldSet, B!MapThenFoldSet, Tab!Max, B!Max,
         Tab!RemoveAt, B!RemoveAt

\* So is the removal of a channel ...
LEMMA ChannelDeleteSame ==
  ASSUME NEW v, NEW e
  PROVE  Tab!ChannelDelete(v, e) = B!ChannelDelete(v, e)
  BY DEF Tab!ChannelDelete, B!ChannelDelete, Tab!FoldLeft, B!FoldLeft,
         Tab!MapThenFoldSet, B!MapThenFoldSet, Tab!Max, B!Max,
         Tab!RemoveAt, B!RemoveAt, Tab!Displays, B!Displays,
         Tab!Cached, B!Cached

\* ... and the handler of events as a whole.
LEMMA HandleSame ==
  ASSUME NEW v, NEW e, NEW u
  PROVE  Tab!Handle(v, e, u) = B!Handle(v, e, u)
  BY SplicedSame, ChannelDeleteSame
     DEF Tab!Handle, B!Handle, Tab!ChannelNew, B!ChannelNew,
         Tab!MessageNew, B!MessageNew, Tab!MessageUpdate, B!MessageUpdate,
         Tab!ChannelUpdate, B!ChannelUpdate, Tab!MessageDelete,
         B!MessageDelete, Tab!Replaced, B!Replaced, Tab!Cache, B!Cache,
         Tab!Cached, B!Cached, Tab!Displays, B!Displays, Tab!Entry, B!Entry,
         Tab!Shown, B!Shown

\* An event the tab is given is about the documents its type says.
LEMMA EventFits ==
  ASSUME NEW e \in Events, Announced(e)
  PROVE  /\ e.type \in B!Types
         /\ B!Fits(e, Channels, ChannelDocs, Messages, MessageDocs)
<1>1. /\ \A d \in Channels : \A doc : Version(d, doc) => doc \in ChannelDocs
      /\ \A d \in Messages : \A doc : Version(d, doc) => doc \in MessageDocs
  BY ConstantsDistinct DEF Version, DocsOf
<1>. QED
  BY <1>1 DEF B!Types, Events, EventTypes, B!Fits, Announced

\* The event the tab hears of.
LEMMA NextEvent ==
  ASSUME Inv, Collections, Consume, NEW e, e = Head(queue)
  PROVE  /\ e \in Events /\ Announced(e)
         /\ 1 \in 1..Len(queue) /\ e = queue[1]
         /\ e.type \in B!Types
         /\ B!Fits(e, Channels, ChannelDocs, Messages, MessageDocs)
<1>1. /\ queue \in Seq(Events) /\ queue # <<>>
      /\ \A i \in 1..Len(queue) : Announced(queue[i])
  BY DEF Inv, TypeOK, Collections, AnnouncedAsStored, Consume
<1>2. /\ 1 \in 1..Len(queue) /\ e = queue[1] /\ e \in Events
      /\ Announced(e)
  BY <1>1
<1>. QED
  BY <1>2, EventFits

-----------------------------------------------------------------------------
(* The types.                                                                *)

\* What the tab makes of an event is a view again.
LEMMA HandledView ==
  ASSUME view \in Views, NEW e, e.type \in B!Types,
         B!Fits(e, Channels, ChannelDocs, Messages, MessageDocs)
  PROVE  Tab!Handle(view, e, me) \in Views
<1>1. \A d, n \in ChannelDocs : [d EXCEPT !.text = n.text] \in ChannelDocs
  BY DEF ChannelDocs
<1>. HIDE DEF ChannelDocs, MessageDocs
<1>2. B!Handle(view, e, me) \in Views
  BY <1>1, B!HandledViews DEF Views
<1>. QED
  BY <1>2, HandleSame

\* What the other callbacks make of a view.
LEMMA OtherViews ==
  ASSUME view \in Views
  PROVE  /\ view.channels \in Seq(ChannelEntries)
         /\ view.current \in ChannelEntries \cup {Null}
         /\ Tab!Cached(view) \subseteq Channels
         /\ \A c \in Tab!Cached(view) : view.messages[c] \in Seq(MessageEntries)
         /\ \A data \in Seq(ChannelEntries) \ {<<>>} :
              /\ Tab!ShowChannels(view, data) \in Views
              /\ data[1].id \in Channels
         /\ \A c \in Channels, data \in Seq(MessageEntries) :
              Tab!ShowMessages(view, c, data) \in Views
         /\ \A i \in 1..Len(view.channels) :
              /\ Tab!Click(view, view.channels[i]) \in Views
              /\ view.channels[i].id \in Channels
<1>. DEFINE L == Seq(MessageEntries)
<1>1. Views = B!Views(ChannelEntries, Channels, L)
  BY DEF Views, B!TabViews, ChannelEntries, MessageEntries
<1>2. \A x \in ChannelEntries : x.id \in Channels
  BY DEF ChannelEntries
<1>. HIDE DEF ChannelEntries, L
<1>3. /\ view.channels \in Seq(ChannelEntries)
      /\ view.current \in ChannelEntries \cup {Null}
      /\ Tab!Cached(view) \subseteq Channels
      /\ \A c \in Tab!Cached(view) : view.messages[c] \in L
  BY <1>1, B!InViews DEF Tab!Cached, B!Cached
<1>4. ASSUME NEW data \in Seq(ChannelEntries) \ {<<>>}
      PROVE  /\ Tab!ShowChannels(view, data) \in Views
             /\ data[1].id \in Channels
  <2>1. data[1] \in ChannelEntries
    BY <1>4
  <2>2. [view EXCEPT !.channels = data, !.current = data[1]]
          \in B!Views(ChannelEntries, Channels, L)
    BY <1>1, <1>4, <2>1, B!WithChannels
  <2>. QED
    BY <1>1, <1>2, <2>1, <2>2 DEF Tab!ShowChannels
<1>5. ASSUME NEW c \in Channels, NEW data \in L
      PROVE  Tab!ShowMessages(view, c, data) \in Views
  <2>1. B!Cache(view, c, data) \in B!Views(ChannelEntries, Channels, L)
    BY <1>1, B!CachedView
  <2>. QED
    BY <1>1, <2>1
       DEF Tab!ShowMessages, Tab!Cache, B!Cache, Tab!Cached, B!Cached
<1>6. ASSUME NEW i \in 1..Len(view.channels)
      PROVE  /\ Tab!Click(view, view.channels[i]) \in Views
             /\ view.channels[i].id \in Channels
  <2>1. view.channels[i] \in ChannelEntries
    BY <1>3
  <2>2. [view EXCEPT !.current = view.channels[i]]
          \in B!Views(ChannelEntries, Channels, L)
    BY <1>1, <1>3, <2>1, B!WithChannels
  <2>. QED
    BY <1>1, <1>2, <2>1, <2>2 DEF Tab!Click
<1>. QED
  BY <1>3, <1>4, <1>5, <1>6 DEF L

\* A fetch is sent with no data, and gets it once.
LEMMA FetchSteps ==
  /\ FetchOf(Fetch("channels", Null))
  /\ \A c \in Channels : FetchOf(Fetch("messages", c))
  /\ \A f : FetchOf(f) /\ f.kind = "channels" =>
       \A data \in Seq(ChannelEntries) \ {<<>>} :
         FetchOf([f EXCEPT !.data = data])
  /\ \A f : FetchOf(f) /\ f.kind = "messages" =>
       \A data \in Seq(MessageEntries) : FetchOf([f EXCEPT !.data = data])
<1>1. /\ FetchOf(Fetch("channels", Null))
      /\ \A c \in Channels : FetchOf(Fetch("messages", c))
  BY DEF FetchOf, Fetch
<1>2. ASSUME NEW f, FetchOf(f), NEW data
      PROVE  /\ [f EXCEPT !.data = data].kind = f.kind
             /\ [f EXCEPT !.data = data].channel = f.channel
             /\ [f EXCEPT !.data = data].data = data
             /\ [f EXCEPT !.data = data] =
                  [kind |-> f.kind, channel |-> f.channel, data |-> data]
  BY <1>2 DEF FetchOf
<1>3. ASSUME NEW f, FetchOf(f), f.kind = "channels",
             NEW data \in Seq(ChannelEntries) \ {<<>>}
      PROVE  FetchOf([f EXCEPT !.data = data])
  BY <1>2, <1>3 DEF FetchOf
<1>4. ASSUME NEW f, FetchOf(f), f.kind = "messages",
             NEW data \in Seq(MessageEntries)
      PROVE  FetchOf([f EXCEPT !.data = data])
  BY <1>2, <1>4 DEF FetchOf
<1>. QED
  BY <1>1, <1>3, <1>4

\* The user clicks on a channel the tab has in its list.
LEMMA Clicked ==
  ASSUME ChatTypes, Rendered, Click
  PROVE  \E i \in 1..Len(view.channels) :
           /\ view' = Tab!Click(view, view.channels[i])
           /\ fetches' = fetches \cup {Fetch("messages", view.channels[i].id)}
<1>1. /\ screen # Null
      /\ \E i \in 1..Len(screen.channels) :
           /\ view' = Tab!Click(view, screen.channels[i])
           /\ fetches' = fetches \cup
                           {Fetch("messages", screen.channels[i].id)}
  BY DEF Click
<1>2. PICK i \in 1..Len(screen.channels) :
        /\ view' = Tab!Click(view, screen.channels[i])
        /\ fetches' = fetches \cup {Fetch("messages", screen.channels[i].id)}
  BY <1>1
<1>3. Len(screen.channels) \in Nat /\ Len(view.channels) \in Nat
  BY <1>1, OtherViews DEF Rendered, Pages, ChatTypes
<1>4. i \in 1..Len(view.channels) /\ screen.channels[i] = view.channels[i]
  BY <1>1, <1>3 DEF Rendered, ShownOf
<1>. QED
  BY <1>2, <1>4

\* Whatever is answered or announced meanwhile, the tab keeps its types.
LEMMA ChatTypesStep ==
  ASSUME Inv, Collections, GeneralStays, Natural, ChatTypes, Rendered,
         ChatNext
  PROVE  ChatTypes'
<1>a. /\ view \in Views
      /\ me \in {Null, Viewer} /\ joined \in BOOLEAN
      /\ unheard \subseteq Messages
      /\ \A f \in fetches : FetchOf(f)
  BY DEF ChatTypes
<1>b. ASSUME NEW fs, fetches' = fs, \A f \in fs : FetchOf(f),
             view' \in Views, me' \in {Null, Viewer}, joined' \in BOOLEAN,
             unheard' \subseteq Messages
      PROVE  ChatTypes'
  BY <1>b DEF ChatTypes
<1>1. CASE Serve
  BY <1>a, <1>b, <1>1 DEF Serve, tabVars
<1>2. CASE ShowUser \/ Join \/ Touch
  BY <1>a, <1>b, <1>2 DEF ShowUser, Join, Touch
<1>3. ASSUME NEW f \in fetches, FindChannels(f) PROVE ChatTypes'
  <2>1. FetchOf([f EXCEPT !.data = AllChannels])
    BY <1>a, <1>3, ChannelsFound, FetchSteps DEF FindChannels
  <2>. QED
    BY <1>a, <1>b, <1>3, <2>1 DEF FindChannels, Return
<1>4. ASSUME NEW f \in fetches, FindMessages(f) PROVE ChatTypes'
  <2>1. FetchOf([f EXCEPT !.data = AllMessages(f.channel)])
    BY <1>a, <1>4, MessagesFound, FetchSteps DEF FindMessages
  <2>. QED
    BY <1>a, <1>b, <1>4, <2>1 DEF FindMessages, Return
<1>5. ASSUME NEW f \in fetches, ShowChannels(f) PROVE ChatTypes'
  <2>1. f.data \in Seq(ChannelEntries) \ {<<>>}
    BY <1>a, <1>5 DEF ShowChannels, FetchOf
  <2>2. view' \in Views /\ FetchOf(Fetch("messages", f.data[1].id))
    BY <1>a, <1>5, <2>1, OtherViews, FetchSteps DEF ShowChannels
  <2>. QED
    BY <1>a, <1>b, <1>5, <2>2 DEF ShowChannels
<1>6. ASSUME NEW f \in fetches, ShowMessages(f) PROVE ChatTypes'
  <2>1. f.channel \in Channels /\ f.data \in Seq(MessageEntries)
    BY <1>a, <1>6 DEF ShowMessages, FetchOf
  <2>2. view' \in Views
    BY <1>a, <1>6, <2>1, OtherViews DEF ShowMessages
  <2>. QED
    BY <1>a, <1>b, <1>6, <2>2 DEF ShowMessages
<1>7. CASE Click
  <2>1. PICK i \in 1..Len(view.channels) :
          /\ view' = Tab!Click(view, view.channels[i])
          /\ fetches' = fetches \cup {Fetch("messages", view.channels[i].id)}
    BY <1>7, Clicked
  <2>2. view' \in Views /\ FetchOf(Fetch("messages", view.channels[i].id))
    BY <1>a, <2>1, OtherViews, FetchSteps
  <2>. QED
    BY <1>a, <1>b, <1>7, <2>1, <2>2 DEF Click
<1>8. CASE Receive
  <2>. PICK e : e = Head(queue)
    OBVIOUS
  <2>1. /\ Consume
        /\ view' = IF joined THEN Tab!Handle(view, e, me) ELSE view
    BY <1>8 DEF Receive
  <2>2. view' \in Views
    BY <1>a, <2>1, NextEvent, HandledView
  <2>3. unheard' \subseteq Messages /\ UNCHANGED <<me, joined, fetches>>
    BY <1>a, <1>8 DEF Receive
  <2>. QED
    BY <1>a, <1>b, <2>2, <2>3
<1>. QED
  BY <1>1, <1>2, <1>3, <1>4, <1>5, <1>6, <1>7, <1>8 DEF ChatNext

\* A page that has just been rendered shows everything the tab has.
LEMMA Painted ==
  ChatTypes /\ screen = Tab!Screen(view) => Rendered
<1>. SUFFICES ASSUME ChatTypes, screen = Tab!Screen(view), screen # Null
              PROVE  Rendered
  BY DEF Rendered
<1>1. screen = [channels |-> view.channels, current |-> view.current,
                messages |-> Tab!Shown(view)]
  BY DEF Tab!Screen
<1>2. /\ view.channels \in Seq(ChannelEntries)
      /\ view.current \in ChannelEntries \cup {Null}
      /\ \A c \in Tab!Cached(view) : view.messages[c] \in Seq(MessageEntries)
  BY OtherViews DEF ChatTypes
<1>3. Tab!Shown(view) \in Seq(MessageEntries)
  BY <1>2 DEF Tab!Shown
<1>4. screen \in Pages
  BY <1>1, <1>2, <1>3 DEF Pages
<1>5. /\ screen.channels = view.channels /\ screen.current = view.current
      /\ Len(view.channels) \in Nat
  BY <1>1, <1>2
<1>6. ShownOf(view.channels, screen.channels)
  BY <1>5 DEF ShownOf
<1>. QED
  BY <1>4, <1>5, <1>6 DEF Rendered

\* When the handler throws, it has changed nothing, or has added a channel
\* without a creator to the lists.
Thrown(w, v, e) ==
  \/ w = v
  \/ /\ e.type = "channel-new"
     /\ w.channels = Append(v.channels, Tab!Entry(e.id, e.doc))
     /\ w.current = v.current /\ e.doc.creator = Nobody
     /\ \A c : c # e.id =>
          /\ c \in Tab!Cached(w) <=> c \in Tab!Cached(v)
          /\ c \in Tab!Cached(v) => w.messages[c] = v.messages[c]

LEMMA ThrownView ==
  ASSUME NEW v \in Views, NEW e, Tab!Throws(v, e), me \in {Null, Viewer}
  PROVE  Thrown(Tab!Handle(v, e, me), v, e)
<1>. DEFINE w == Tab!Handle(v, e, me)
<1>a. /\ v = [channels |-> v.channels, current |-> v.current,
              messages |-> v.messages]
      /\ DOMAIN v.messages = Tab!Cached(v)
  BY DEF Views, B!TabViews, B!Views, Tab!Cached
<1>1. CASE e.type = "channel-new" /\ e.doc.creator = Nobody
  <2>1. me # Nobody
    BY ConstantsDistinct, ChatAssumption
  <2>2. w = Tab!ChannelNew(v, e, me)
    BY <1>1 DEF Tab!Handle
  <2>. DEFINE k == [v EXCEPT !.channels = Append(@, Tab!Entry(e.id, e.doc))]
              ms == [c \in Tab!Cached(v) \cup {e.id} |->
                       IF c = e.id THEN <<>> ELSE v.messages[c]]
  <2>3. w = [k EXCEPT !.messages = ms]
    BY <1>1, <1>a, <2>1, <2>2 DEF Tab!ChannelNew, Tab!Cache, Tab!Cached
  <2>4. /\ w.channels = Append(v.channels, Tab!Entry(e.id, e.doc))
        /\ w.current = v.current /\ w.messages = ms
    <3>. HIDE DEF ms
    <3>. QED
      BY <1>a, <2>3
  <2>5. DOMAIN ms = Tab!Cached(v) \cup {e.id}
    OBVIOUS
  <2>6. \A c : c # e.id =>
          /\ c \in Tab!Cached(w) <=> c \in Tab!Cached(v)
          /\ c \in Tab!Cached(v) => w.messages[c] = v.messages[c]
    BY <2>4, <2>5 DEF Tab!Cached
  <2>. QED
    BY <1>1, <2>4, <2>6 DEF Thrown
<1>2. CASE e.type = "channel-update" /\ e.doc = Null
  BY <1>2 DEF Tab!Handle, Tab!ChannelUpdate, Thrown
<1>3. CASE e.type = "message-update" /\ e.doc = Null
  BY <1>3 DEF Tab!Handle, Tab!MessageUpdate, Thrown
<1>4. CASE /\ e.type = "message-delete"
           /\ v.current = Null \/ v.current.id \notin Tab!Cached(v)
  BY <1>4 DEF Tab!Handle, Tab!MessageDelete, Thrown
<1>. QED
  BY <1>1, <1>2, <1>3, <1>4 DEF Tab!Throws

\* A step renders the page, or leaves it and the tab's state alone, or its
\* handler throws.
LEMMA Renders ==
  ASSUME ChatTypes, ChatNext
  PROVE  \/ Render
         \/ UNCHANGED <<screen, view>>
         \/ /\ Receive /\ joined /\ screen' = screen
            /\ Thrown(view', view, Head(queue))
<1>1. CASE Receive
  <2>. PICK e : e = Head(queue)
    OBVIOUS
  <2>1. /\ view' = IF joined THEN Tab!Handle(view, e, me) ELSE view
        /\ IF joined /\ ~Tab!Throws(view, e) THEN Render
           ELSE UNCHANGED screen
    BY <1>1 DEF Receive
  <2>2. joined /\ Tab!Throws(view, e) => Thrown(view', view, e)
    BY <2>1, ThrownView DEF ChatTypes
  <2>. QED
    BY <1>1, <2>1, <2>2
<1>2. CASE ~Receive
  BY <1>2 DEF ChatNext, Serve, ShowUser, Join, FindChannels, FindMessages,
              Return, ShowChannels, ShowMessages, Click, Touch, tabVars
<1>. QED
  BY <1>1, <1>2

\* The page stays what was rendered.
LEMMA RenderedStep ==
  ASSUME ChatTypes, ChatTypes', Rendered, ChatNext
  PROVE  Rendered'
<1>1. CASE Render
  <2>1. (ChatTypes /\ screen = Tab!Screen(view) => Rendered)'
    BY Painted, PTL
  <2>2. screen' = Null \/ screen' = Tab!Screen(view')
    BY <1>1 DEF Render
  <2>3. screen' = Null => Rendered'
    BY DEF Rendered
  <2>. QED
    BY <2>1, <2>2, <2>3
<1>2. CASE UNCHANGED <<screen, view>>
  BY <1>2 DEF Rendered, ShownOf
<1>3. CASE screen' = screen /\ Thrown(view', view, Head(queue))
  <2>. SUFFICES ASSUME screen # Null, view' # view PROVE Rendered'
    BY <1>2, <1>3 DEF Rendered
  <2>. PICK x, c, d, s :
         /\ c = view.channels /\ d = view'.channels /\ s = screen.channels
         /\ x = Tab!Entry(Head(queue).id, Head(queue).doc)
    OBVIOUS
  <2>1. /\ d = Append(c, x) /\ x.doc.creator = Nobody
        /\ view'.current = view.current
    BY <1>3 DEF Thrown, Tab!Entry
  <2>2. c \in Seq(ChannelEntries) /\ s \in Seq(ChannelEntries)
    BY OtherViews DEF ChatTypes, Rendered, Pages
  <2>3. ShownOf(c, s) /\ screen \in Pages /\ screen.current = view.current
    BY DEF Rendered
  <2>4. /\ Len(d) = Len(c) + 1 /\ d[Len(c) + 1] = x
        /\ \A i \in 1..Len(c) : d[i] = c[i]
        /\ Len(c) \in Nat /\ Len(s) \in Nat
    <3>1. d \in Seq(ChannelEntries \cup {x})
      BY <2>1, <2>2
    <3>. QED
      BY <2>1, <2>2, <3>1
  <2>5. ShownOf(d, s)
    BY <2>1, <2>3, <2>4 DEF ShownOf
  <2>. QED
    BY <1>3, <2>1, <2>3, <2>5 DEF Rendered
<1>. QED
  BY <1>1, <1>2, <1>3, Renders

\* The tab begins empty, before a service that has just started.
LEMMA ChatStart == ChatInit => ChatInv
<1>. SUFFICES ASSUME ChatInit PROVE ChatInv
  OBVIOUS
<1>1. Inv /\ Collections /\ GeneralStays
  BY InvInit, CollectionsInit, UndisturbedInit DEF ChatInit
<1>2. Natural
  <2>1. order = <<General>> /\ General \in Ids
    BY ConstantsDistinct DEF ChatInit, Ids
  <2>2. /\ order \in Seq(Ids) /\ Len(order) = 1 /\ order[1] = General
        /\ order # <<>>
    BY <2>1
  <2>3. \A d \in Ids \ {General} : docs[d] = Unborn
    BY ConstantsDistinct DEF ChatInit, Init
  <2>4. B!ElementsOf(order) = {General}
    BY <2>2 DEF B!ElementsOf
  <2>5. docs[General] # Unborn
    BY <1>1 DEF GeneralStays, Stored, Inv, TypeOK, Doc
  <2>. QED
    BY <2>2, <2>3, <2>4, <2>5 DEF Natural, B!Distinct
<1>3. ChatTypes
  <2>1. view = [channels |-> <<>>, current |-> Null, messages |-> <<>>]
    BY DEF ChatInit, Tab!EmptyView
  <2>2. view \in Views
    <3>. DEFINE L == Seq(MessageEntries)
                E == ChannelEntries
    <3>1. Views = B!Views(E, Channels, L)
      BY DEF Views, B!TabViews, ChannelEntries, MessageEntries
    <3>. HIDE DEF L, E
    <3>2. <<>> \in [{} -> L] /\ {} \in SUBSET Channels
      OBVIOUS
    <3>3. <<>> \in UNION {[S -> L] : S \in SUBSET Channels}
      BY <3>2
    <3>4. <<>> \in Seq(E)
      OBVIOUS
    <3>. QED
      BY <2>1, <3>1, <3>3, <3>4 DEF B!Views
  <2>. QED
    BY <2>2, FetchSteps DEF ChatInit, ChatTypes
<1>4. Rendered
  BY <1>3, Painted DEF ChatInit
<1>. QED
  BY <1>1, <1>2, <1>3, <1>4 DEF ChatInv

\* Every step keeps the invariant.
LEMMA ChatStep == ChatInv /\ [ChatNext]_chatVars => ChatInv'
<1>. SUFFICES ASSUME ChatInv, [ChatNext]_chatVars PROVE ChatInv'
  OBVIOUS
<1>a. Undisturbed /\ [Next]_vars
  <2>1. Undisturbed
    BY ChatUndisturbed DEF chatVars, Undisturbed
  <2>. QED
    BY <2>1, UndisturbedNext DEF ChatInv, Inv
<1>1. Inv' /\ Collections' /\ GeneralStays'
  BY <1>a, InvStep, CollectionsStep, GeneralStep DEF ChatInv
<1>2. Natural'
  <2>1. Serve \/ UNCHANGED <<docs, order>>
    BY OrderStays DEF chatVars, vars
  <2>. QED
    BY <1>a, <2>1, NaturalStep DEF ChatInv
<1>3. ChatTypes'
  <2>1. CASE ChatNext
    BY <2>1, ChatTypesStep DEF ChatInv
  <2>2. CASE UNCHANGED chatVars
    BY <2>2 DEF chatVars, tabVars, ChatTypes, ChatInv
  <2>. QED
    BY <2>1, <2>2
<1>4. Rendered'
  <2>1. CASE ChatNext
    BY <1>3, <2>1, RenderedStep DEF ChatInv
  <2>2. CASE UNCHANGED chatVars
    BY <2>2 DEF chatVars, tabVars, Rendered, ShownOf, ChatInv
  <2>. QED
    BY <2>1, <2>2
<1>. QED
  BY <1>1, <1>2, <1>3, <1>4 DEF ChatInv

-----------------------------------------------------------------------------
(* The list of channels, while nothing changes under a fetch, requests about *)
(* channels are served one at a time, and the list is not cut off.           *)

ChannelOps == {"postChannel", "patchChannel", "deleteChannel"}

OneByOne ==
  \A r, s \in Requests :
    Active(r) /\ Active(s) /\ {req[r].op, req[s].op} \subseteq ChannelOps
    => r = s

Uncut == Len(Those(order, {c \in Channels : Stored(c)})) <= ChannelLimit

Calm == ~Overlaps /\ OneByOne /\ Uncut

Loaded == view.channels # <<>>

\* Nothing happens while the tab is loading or fetching.
LoadsInPeace ==
  /\ fetches # {} \/ ~joined \/ me = Null => Quiet
  /\ ~Loaded => \E f \in fetches : f.kind = "channels"
  /\ \A f \in fetches :
       f.kind = "channels" /\ f.data # Null => f.data = AllChannels

\* Channel c is neither deleted nor being deleted.
Kept(c) == Stored(c) /\ ~Deleting(c)

Listed(c) == c \in B!IdsOf(view.channels)

Creating(r, c) == Announcing(r) /\ req[r].id = c

\* The tab has still to hear that c is created.
Ahead(c) ==
  \/ \E i \in 1..Len(queue) : CreationAt(i, c)
  \/ \E r \in Requests : Creating(r, c)

DeletionAt(i, c) == queue[i].type = "channel-delete" /\ queue[i].id = c

\* The tab has still to hear that c is deleted.
Ending(c) == \E j \in 1..Len(queue) : DeletionAt(j, c)

\* The channels a loaded tab lists, and those it is still to hear of, are the
\* ones that are kept, and those whose deletion it is still to hear of.
ListedRight ==
  /\ \A c \in Channels : Kept(c) => Listed(c) \/ Ahead(c)
  /\ \A c \in Channels : Listed(c) => Kept(c) \/ Ending(c)
  /\ \A i \in 1..Len(queue), c \in Channels :
       CreationAt(i, c) => Kept(c) \/ Ending(c)
  /\ \A i, j \in 1..Len(queue), c \in Channels :
       CreationAt(i, c) /\ DeletionAt(j, c) => i < j
  /\ \A r \in Requests, c \in Channels : Creating(r, c) => Kept(c)

\* They are listed, announced and created in the order of their insertion.
InOrder ==
  /\ \A i, j \in 1..Len(view.channels) : i < j =>
       B!Before(view.channels[i].id, view.channels[j].id, order)
  /\ \A c \in Channels, j \in 1..Len(queue) :
       Listed(c) /\ NewAt(j) => B!Before(c, queue[j].id, order)
  /\ \A i, j \in 1..Len(queue) :
       i < j /\ NewAt(i) /\ NewAt(j) =>
         B!Before(queue[i].id, queue[j].id, order)
  /\ \A r \in Requests : Announcing(r) =>
       /\ \A c \in Channels : Listed(c) => B!Before(c, req[r].id, order)
       /\ \A j \in 1..Len(queue) :
            NewAt(j) => B!Before(queue[j].id, req[r].id, order)

\* What the tab shows of a channel is a version of its document, with the name
\* it has once every change of it was heard.
ShownRight ==
  \A x \in B!ElementsOf(view.channels) \cup {view.current} :
    /\ x # Null /\ Version(x.id, x.doc)
    /\ Stored(x.id) /\ NameTold(x.id) => x.doc.text = docs[x.id].text

CurrentListed == Listed(view.current.id)

CalmInv ==
  /\ mqChannel = "open" /\ AnnouncedGoing /\ NamesCarried
  /\ LoadsInPeace
  /\ Loaded => ListedRight /\ InOrder /\ ShownRight /\ CurrentListed

-----------------------------------------------------------------------------
(* What happens to the channels announced and to those kept.                 *)

\* A channel that is kept stays so until its deletion is announced.
LEMMA KeptStep ==
  ASSUME Inv, Undisturbed, mqChannel = "open", NEW c \in Channels, Kept(c)
  PROVE  \/ Kept(c)'
         \/ /\ Ending(c)'
            /\ \E r \in Requests : ProceedDeleteChannel(r) /\ req[r].id = c
<1>1. Stored(c)'
  BY StoredStays DEF Kept
<1>2. CASE Deleting(c)'
  <2>1. PICK r \in Requests : ProceedDeleteChannel(r) /\ req[r].id = c
    BY <1>2, DeletingStep DEF Kept
  <2>2. queue' = Append(queue, Event("channel-delete", c, Null))
    BY <2>1 DEF ProceedDeleteChannel, SendToMQ
  <2>3. queue \in Seq(Events)
    BY DEF Inv, TypeOK
  <2>4. /\ Len(queue) + 1 \in 1..Len(queue')
        /\ queue'[Len(queue) + 1] = Event("channel-delete", c, Null)
    BY <2>2, <2>3
  <2>5. Ending(c)'
    BY <2>4 DEF Ending, DeletionAt, Event
  <2>. QED
    BY <2>1, <2>5
<1>. QED
  BY <1>1, <1>2 DEF Kept

\* A channel that is kept now and was not has just been created.
LEMMA NewlyKept ==
  ASSUME Inv, Undisturbed, NEW c \in Channels, ~Kept(c), Kept(c)'
  PROVE  \E r \in Requests : Creating(r, c)'
<1>1. ~Stored(c)
  <2>1. ASSUME Stored(c) PROVE FALSE
    BY <2>1, DeletingStep DEF Kept, GoneOrGoing, Stored
  <2>. QED
    BY <2>1
<1>2. PICK r \in Requests : Insert(r) /\ req[r].id = c
  BY <1>1, StoredAnew DEF Kept, Ids
<1>3. req[r].op = "postChannel"
  BY <1>2, ConstantsDistinct DEF Insert, At, Inv, Kinds, Active
<1>4. Creating(r, c)'
  <2>1. PICK seen \in Doc \cup {Null} : Move(r, "reply", seen)
    BY <1>2, WriteReturns DEF Inv
  <2>2. req'[r].pc = "reply" /\ req'[r].op = req[r].op /\ req'[r].id = c
    BY <1>2, <2>1, MoveReq DEF Phases, Inv
  <2>. QED
    BY <1>3, <2>2 DEF Creating, Announcing, At
<1>. QED
  BY <1>4

\* Events are added at the end of the queue and taken from its head.
LEMMA QueueSteps ==
  ASSUME Inv, Undisturbed
  PROVE  \/ /\ ~Consume /\ Len(queue') \in {Len(queue), Len(queue) + 1}
            /\ \A i \in 1..Len(queue) : queue'[i] = queue[i]
         \/ /\ Consume /\ Len(queue') = Len(queue) - 1
            /\ 1 \in 1..Len(queue) /\ UNCHANGED <<docs, req, background>>
            /\ \A i \in 1..Len(queue') : queue'[i] = queue[i + 1]
<1>a. queue \in Seq(Events)
  BY DEF Inv, TypeOK
<1>1. CASE Consume
  BY <1>a, <1>1 DEF Consume
<1>2. CASE queue' = queue
  BY <1>a, <1>2 DEF Consume
<1>3. ASSUME NEW e, queue' = Append(queue, e)
      PROVE  /\ ~Consume /\ Len(queue') = Len(queue) + 1
             /\ \A i \in 1..Len(queue) : queue'[i] = queue[i]
  BY <1>a, <1>3 DEF Consume
<1>. QED
  BY <1>1, <1>2, <1>3, QueueOf

\* The announcement of a deletion is lost from the queue only by being heard.
LEMMA EndingStep ==
  ASSUME Inv, Undisturbed, NEW c, Ending(c)
  PROVE  Ending(c)' \/ (Consume /\ DeletionAt(1, c))
<1>a. Len(queue) \in Nat
  BY DEF Inv, TypeOK
<1>1. PICK j \in 1..Len(queue) : DeletionAt(j, c)
  BY DEF Ending
<1>2. CASE /\ Len(queue') \in {Len(queue), Len(queue) + 1}
           /\ \A i \in 1..Len(queue) : queue'[i] = queue[i]
  BY <1>a, <1>1, <1>2 DEF Ending, DeletionAt
<1>3. CASE /\ Consume /\ Len(queue') = Len(queue) - 1 /\ j # 1
           /\ \A i \in 1..Len(queue') : queue'[i] = queue[i + 1]
  <2>1. j - 1 \in 1..Len(queue') /\ queue'[j - 1] = queue[j]
    BY <1>a, <1>3
  <2>. QED
    BY <1>1, <2>1 DEF Ending, DeletionAt
<1>. QED
  BY <1>1, <1>2, <1>3, QueueSteps

\* The i-th event of the new queue was in the queue, one place further back if
\* one was taken.
Old(i) ==
  LET k == IF Consume THEN i + 1 ELSE i
  IN k \in 1..Len(queue) /\ queue'[i] = queue[k]

\* One event at most is added, at the end.
LEMMA OldEvents ==
  ASSUME Inv, Undisturbed, NEW i \in 1..Len(queue')
  PROVE  Old(i) \/ (~Consume /\ i = Len(queue) + 1)
<1>1. Len(queue) \in Nat
  BY DEF Inv, TypeOK
<1>. QED
  BY <1>1, QueueSteps DEF Old

\* Requests about channels do not rename one channel at the same time.
LEMMA OneByOneNames == OneByOne => OneAtATime
  BY DEF OneByOne, OneAtATime, ChannelOps, NameOps

\* A channel is announced as new when its creation was answered, and then no
\* other is created.
LEMMA CreationSteps ==
  ASSUME Inv, Undisturbed, OneByOne
  PROVE  /\ \A i \in 1..Len(queue') : NewAt(i)' =>
              \/ Old(i)
              \/ /\ ~Consume /\ i = Len(queue) + 1
                 /\ \E r \in Requests :
                      Announcing(r) /\ queue'[i].id = req[r].id
                 /\ \A s \in Requests : ~Announcing(s)'
         /\ \A s \in Requests : Announcing(s)' =>
              \/ Announcing(s) /\ req'[s].id = req[s].id
              \/ /\ Insert(s) /\ req[s].op = "postChannel"
                 /\ req'[s].id = req[s].id /\ queue' = queue
                 /\ \A t \in Requests : ~Announcing(t)
<1>a. queue \in Seq(Events)
  BY DEF Inv, TypeOK
<1>b. \A i \in 1..Len(queue') : Old(i) \/ (~Consume /\ i = Len(queue) + 1)
  BY OldEvents
<1>. DEFINE Same == \A s \in Requests :
                      Announcing(s)' => Announcing(s) /\ req'[s].id = req[s].id
            Is(i) == ~Consume /\ i = Len(queue) + 1
            Right == /\ \A i \in 1..Len(queue') : NewAt(i)' =>
                          \/ Old(i)
                          \/ /\ Is(i)
                             /\ \E r \in Requests :
                                  Announcing(r) /\ queue'[i].id = req[r].id
                             /\ \A s \in Requests : ~Announcing(s)'
                     /\ \A s \in Requests : Announcing(s)' =>
                          \/ Announcing(s) /\ req'[s].id = req[s].id
                          \/ /\ Insert(s) /\ req[s].op = "postChannel"
                             /\ req'[s].id = req[s].id /\ queue' = queue
                             /\ \A t \in Requests : ~Announcing(t)
<1>c. queue' = queue => \A i \in 1..Len(queue') : Old(i)
  BY <1>a, <1>b
<1>1. ASSUME queue' = queue, Same PROVE Right
  BY <1>c, <1>1
<1>2. ASSUME NEW e \in Events, queue' = Append(queue, e),
             e.type # "channel-new", Same
      PROVE  Right
  <2>1. \A i \in 1..Len(queue') : NewAt(i)' => i # Len(queue) + 1
    BY <1>a, <1>2 DEF NewAt
  <2>. QED
    BY <1>b, <1>2, <2>1
<1>3. ASSUME Consume, req' = req PROVE Right
  BY <1>b, <1>3 DEF Announcing, At
<1>4. ASSUME NEW r \in Requests, Insert(r), req[r].op = "postChannel",
             queue' = queue, req'[r].id = req[r].id,
             \A s \in Requests \ {r} : req'[s] = req[s]
      PROVE  Right
  <2>1. \A t \in Requests : ~Announcing(t)
    <3>. SUFFICES ASSUME NEW t \in Requests, Announcing(t) PROVE FALSE
      OBVIOUS
    <3>1. t = r
      BY <1>4 DEF OneByOne, ChannelOps, Announcing, At, Active, Insert
    <3>. QED
      BY <1>4, <3>1 DEF Announcing, At, Insert
  <2>2. \A s \in Requests : Announcing(s)' => s = r
    BY <1>4, <2>1 DEF Announcing, At
  <2>. QED
    BY <1>c, <1>4, <2>1, <2>2
<1>5. ASSUME NEW r \in Requests, Announcing(r), ~Announcing(r)',
             \/ queue' = queue
             \/ queue' = Append(queue,
                  Event("channel-new", req[r].id, req[r].seen)),
             \A s \in Requests \ {r} : req'[s] = req[s]
      PROVE  Right
  <2>1. \A t \in Requests : Announcing(t) => t = r
    BY <1>5 DEF OneByOne, ChannelOps, Announcing, At, Active
  <2>2. \A s \in Requests : ~Announcing(s)'
    BY <1>5, <2>1 DEF Announcing, At
  <2>3. \A i \in 1..Len(queue') : ~Old(i) => queue'[i].id = req[r].id
    <3>1. CASE queue' = queue
      BY <1>c, <3>1
    <3>2. CASE queue' = Append(queue,
                  Event("channel-new", req[r].id, req[r].seen))
      <4>1. queue'[Len(queue) + 1].id = req[r].id
        BY <1>a, <3>2 DEF Event
      <4>. QED
        BY <1>b, <4>1
    <3>. QED
      BY <1>5, <3>1, <3>2
  <2>. QED
    BY <1>b, <1>5, <2>2, <2>3
<1>d. (\A s \in Requests : Announcing(s)' => Announcing(s) /\ req'[s] = req[s])
        => Same
  OBVIOUS
<1>. HIDE DEF Right, Same
<1>6. Right
  BY <1>d, <1>1, <1>2, <1>3, <1>4, <1>5, AnnouncingStep
<1>. QED
  BY <1>6 DEF Right

\* The creation of a channel stays ahead until the tab hears of it.
LEMMA AheadStep ==
  ASSUME Inv, Undisturbed, OneAtATime, mqChannel = "open",
         NEW c \in Channels, Stored(c), Stored(c)', Ahead(c)
  PROVE  Ahead(c)' \/ (Consume /\ CreationAt(1, c))
<1>a. queue \in Seq(Events)
  BY DEF Inv, TypeOK
<1>1. ASSUME NEW i \in 1..Len(queue), CreationAt(i, c)
      PROVE  Ahead(c)' \/ (Consume /\ CreationAt(1, c))
  <2>1. CASE /\ Len(queue') \in {Len(queue), Len(queue) + 1}
             /\ \A j \in 1..Len(queue) : queue'[j] = queue[j]
    <3>1. i \in 1..Len(queue') /\ queue'[i] = queue[i]
      BY <1>a, <2>1
    <3>. QED
      BY <1>1, <3>1 DEF Ahead, CreationAt, NewAt
  <2>2. CASE /\ Len(queue') = Len(queue) - 1 /\ i # 1
             /\ \A j \in 1..Len(queue') : queue'[j] = queue[j + 1]
    <3>1. i - 1 \in 1..Len(queue') /\ queue'[i - 1] = queue[i]
      BY <1>a, <2>2
    <3>. QED
      BY <1>1, <3>1 DEF Ahead, CreationAt, NewAt
  <2>. QED
    BY <1>1, <2>1, <2>2, QueueSteps
<1>2. ASSUME NEW r \in Requests, Creating(r, c) PROVE Ahead(c)'
  <2>a. Carries(r, c) /\ At(r, "reply") /\ req[r].op = "postChannel"
    BY <1>2 DEF Creating, Announcing, Carries, NameOps
  <2>b. req'[r] = req[r] => Ahead(c)'
    BY <1>2 DEF Ahead, Creating, Announcing, At
  <2>1. CASE Untouched(c)
    BY <2>a, <2>b, <2>1 DEF Untouched
  <2>2. CASE UNCHANGED req
    BY <2>b, <2>2
  <2>3. CASE docs[c] = Unborn
    BY <2>3 DEF Stored
  <2>4. ASSUME NEW s \in Requests, Update(s),
               \A t \in Requests \ {s} : ~Carries(t, c)
        PROVE  FALSE
    BY <2>a, <2>4 DEF Update, At
  <2>5. ASSUME NEW s \in Requests, Reply(s), Carries(s, c),
               queue' = Append(queue, EventOf(req[s])),
               \A t \in Requests \ {s} : ~Carries(t, c)
        PROVE  Ahead(c)'
    <3>1. s = r
      BY <2>a, <2>5
    <3>2. EventOf(req[r]).type = "channel-new" /\ EventOf(req[r]).id = c
      BY <1>2, <2>a DEF EventOf, Event, Creating
    <3>3. /\ Len(queue) + 1 \in 1..Len(queue')
          /\ queue'[Len(queue) + 1] = EventOf(req[r])
      BY <1>a, <2>5, <3>1
    <3>4. \E i \in 1..Len(queue') : queue'[i].type = "channel-new"
                                   /\ queue'[i].id = c
      BY <3>2, <3>3
    <3>. QED
      BY <3>4 DEF Ahead, CreationAt, NewAt
  <2>. QED
    BY <2>1, <2>2, <2>3, <2>4, <2>5, NameStep
<1>. QED
  BY <1>1, <1>2 DEF Ahead

-----------------------------------------------------------------------------
(* The list of channels stays the right one.                                 *)

\* What hearing of an event does to the list.
Heeded ==
  \A c \in Channels : Listed(c)' <=>
    IF Consume THEN CreationAt(1, c) \/ (Listed(c) /\ ~DeletionAt(1, c))
    ELSE Listed(c)

\* The tab lists what is kept, and what it is still to hear the end of.
LEMMA ListedRightStep ==
  ASSUME Inv, Undisturbed, OneByOne, mqChannel = "open", AnnouncedGoing,
         ListedRight, Heeded
  PROVE  ListedRight'
<1>a. Len(queue) \in Nat /\ OneAtATime
  BY OneByOneNames DEF Inv, TypeOK
<1>b. \A j \in 1..Len(queue), c \in Channels : DeletionAt(j, c) => ~Kept(c)
  BY DEF AnnouncedGoing, DeletionAt, GoneOrGoing, Kept, Stored
<1>c. \A c \in Channels : Kept(c) => Kept(c)' \/ Ending(c)'
  BY KeptStep
<1>d. \A c \in Channels :
        Ending(c) => Ending(c)' \/ (Consume /\ DeletionAt(1, c))
  BY EndingStep
<1>e. \A i, c : ~(CreationAt(i, c) /\ DeletionAt(i, c))
  BY DEF CreationAt, NewAt, DeletionAt
<1>f. Consume => 1 \in 1..Len(queue)
  BY QueueSteps
<1>g. Consume => \A c \in Channels : Kept(c)' <=> Kept(c)
  BY DEF Consume, Kept, Stored, Deleting
<1>h. ASSUME NEW i \in 1..Len(queue'), NEW c \in Channels, CreationAt(i, c)'
      PROVE  \/ ~Consume /\ i \in 1..Len(queue) /\ CreationAt(i, c)
             \/ Consume /\ i + 1 \in 1..Len(queue) /\ CreationAt(i + 1, c)
             \/ /\ ~Consume /\ i = Len(queue) + 1
                /\ \E r \in Requests : Creating(r, c)
  BY <1>h, CreationSteps DEF CreationAt, NewAt, Old, Creating
<1>i. ASSUME NEW j \in 1..Len(queue'), NEW c \in Channels, DeletionAt(j, c)'
      PROVE  \/ ~Consume /\ j \in 1..Len(queue) /\ DeletionAt(j, c)
             \/ Consume /\ j + 1 \in 1..Len(queue) /\ DeletionAt(j + 1, c)
             \/ ~Consume /\ j = Len(queue) + 1
  BY <1>i, OldEvents DEF DeletionAt, Old
<1>1. ASSUME NEW c \in Channels, Kept(c)' PROVE Listed(c)' \/ Ahead(c)'
  <2>1. CASE ~Kept(c)
    BY <1>1, <2>1, NewlyKept DEF Ahead
  <2>2. CASE Kept(c) /\ Listed(c)
    BY <1>b, <1>f, <2>2 DEF Heeded
  <2>3. CASE Kept(c) /\ Ahead(c)
    <3>1. Ahead(c)' \/ (Consume /\ CreationAt(1, c))
      BY <1>a, <1>1, <2>3, AheadStep DEF Kept
    <3>. QED
      BY <3>1 DEF Heeded
  <2>. QED
    BY <2>1, <2>2, <2>3 DEF ListedRight
<1>2. ASSUME NEW c \in Channels, Listed(c)' PROVE Kept(c)' \/ Ending(c)'
  <2>1. CASE Listed(c) /\ ~(Consume /\ DeletionAt(1, c))
    BY <1>c, <1>d, <2>1 DEF ListedRight
  <2>2. CASE Consume /\ CreationAt(1, c)
    <3>1. Kept(c) \/ Ending(c)
      BY <1>f, <2>2 DEF ListedRight
    <3>. QED
      BY <1>d, <1>e, <1>g, <2>2, <3>1
  <2>. QED
    BY <1>2, <2>1, <2>2 DEF Heeded
<1>3. ASSUME NEW i \in 1..Len(queue'), NEW c \in Channels, CreationAt(i, c)'
      PROVE  Kept(c)' \/ Ending(c)'
  <2>1. CASE ~Consume /\ i \in 1..Len(queue) /\ CreationAt(i, c)
    BY <1>c, <1>d, <2>1 DEF ListedRight
  <2>2. CASE Consume /\ i + 1 \in 1..Len(queue) /\ CreationAt(i + 1, c)
    <3>1. ~DeletionAt(1, c)
      <4>1. DeletionAt(1, c) => i + 1 < 1
        BY <1>f, <2>2 DEF ListedRight
      <4>. QED
        BY <1>a, <4>1
    <3>2. Kept(c) \/ Ending(c)
      BY <2>2 DEF ListedRight
    <3>. QED
      BY <1>d, <1>g, <2>2, <3>1, <3>2
  <2>3. CASE \E r \in Requests : Creating(r, c)
    BY <1>c, <2>3 DEF ListedRight
  <2>. QED
    BY <1>h, <1>3, <2>1, <2>2, <2>3
<1>4. ASSUME NEW i \in 1..Len(queue'), NEW j \in 1..Len(queue'),
             NEW c \in Channels, CreationAt(i, c)', DeletionAt(j, c)'
      PROVE  i < j
  <2>1. CASE Consume
    <3>1. /\ i + 1 \in 1..Len(queue) /\ CreationAt(i + 1, c)
          /\ j + 1 \in 1..Len(queue) /\ DeletionAt(j + 1, c)
      BY <1>h, <1>i, <1>4, <2>1
    <3>2. i + 1 < j + 1
      BY <3>1 DEF ListedRight
    <3>. QED
      BY <1>a, <3>2
  <2>2. CASE ~Consume /\ i \in 1..Len(queue) /\ CreationAt(i, c)
    <3>1. CASE j \in 1..Len(queue) /\ DeletionAt(j, c)
      BY <2>2, <3>1 DEF ListedRight
    <3>2. CASE j = Len(queue) + 1
      BY <1>a, <2>2, <3>2
    <3>. QED
      BY <1>i, <1>4, <2>2, <3>1, <3>2
  <2>3. ASSUME ~Consume, i = Len(queue) + 1,
               NEW r \in Requests, Creating(r, c)
        PROVE  i < j
    <3>1. Kept(c)
      BY <2>3 DEF ListedRight
    <3>2. j # i
      BY <1>4 DEF CreationAt, NewAt, DeletionAt
    <3>. QED
      BY <1>b, <1>i, <1>4, <2>3, <3>1, <3>2
  <2>. QED
    BY <1>h, <1>4, <2>1, <2>2, <2>3
<1>5. ASSUME NEW r \in Requests, NEW c \in Channels, Creating(r, c)'
      PROVE  Kept(c)'
  <2>1. CASE Creating(r, c)
    <3>1. Kept(c)
      BY <2>1 DEF ListedRight
    <3>2. ASSUME NEW s \in Requests, ProceedDeleteChannel(s) PROVE FALSE
      <4>1. s = r
        BY <2>1, <3>2
           DEF OneByOne, ChannelOps, Creating, Announcing, At, Active,
               ProceedDeleteChannel
      <4>. QED
        BY <2>1, <3>2, <4>1
           DEF Creating, Announcing, At, ProceedDeleteChannel
    <3>. QED
      BY <3>1, <3>2, KeptStep
  <2>2. CASE Insert(r) /\ req[r].op = "postChannel" /\ req[r].id = c
    <3>. PICK u : u = req[r].user
      OBVIOUS
    <3>1. Keeps(u, c)'
      BY <2>2, InsertedIsKept
    <3>. QED
      BY <3>1 DEF Keeps, Kept, Stored, Deleting
  <2>. QED
    BY <1>5, <2>1, <2>2, CreationSteps DEF Creating
<1>. QED
  BY <1>1, <1>2, <1>3, <1>4, <1>5 DEF ListedRight

\* What a step does to the order of the list.
Arranged ==
  /\ Consume => B!Follows(view', view, Head(queue))
  /\ ~Consume => view'.channels = view.channels

\* What came before stays before.
LEMMA BeforeStays ==
  ASSUME NEW E, NEW s \in Seq(E), NEW t, NEW d \in E,
         t = s \/ t = Append(s, d), NEW a, NEW b
  PROVE  B!Before(a, b, s) => B!Before(a, b, t)
<1>1. /\ Len(s) \in Nat /\ Len(t) \in {Len(s), Len(s) + 1}
      /\ \A i \in 1..Len(s) : t[i] = s[i]
  OBVIOUS
<1>2. \A i \in 1..Len(s) : i \in 1..Len(t)
  BY <1>1
<1>. QED
  BY <1>1, <1>2 DEF B!Before

\* What is added comes after what was there.
LEMMA BeforeLast ==
  ASSUME NEW E, NEW s \in Seq(E), NEW d \in E, NEW a \in B!ElementsOf(s)
  PROVE  B!Before(a, d, Append(s, d))
<1>1. PICK n \in Nat : n = Len(s)
  OBVIOUS
<1>2. /\ Len(Append(s, d)) = n + 1 /\ Append(s, d)[n + 1] = d
      /\ \A i \in 1..n : Append(s, d)[i] = s[i]
  BY <1>1
<1>3. PICK i \in 1..n : s[i] = a
  BY <1>1 DEF B!ElementsOf
<1>. DEFINE t == Append(s, d)
<1>4. i \in 1..Len(t) /\ n + 1 \in 1..Len(t) /\ i < n + 1 /\ t[i] = a
      /\ t[n + 1] = d
  BY <1>2, <1>3
<1>. HIDE DEF t
<1>5. B!Before(a, d, t)
  BY <1>4 DEF B!Before
<1>. QED
  BY <1>5 DEF t

\* Channels are listed, announced and created in the order of insertion.
LEMMA InOrderStep ==
  ASSUME Inv, Undisturbed, OneByOne, Natural, InOrder, ListedRight,
         AnnouncedGoing, Serve \/ UNCHANGED <<docs, order>>,
         Heeded, Arranged,
         \A i \in 1..Len(queue) : NewAt(i) => queue[i].id \in Channels,
         \A i \in 1..Len(view.channels) : view.channels[i].id \in Channels
  PROVE  InOrder'
<1>a. Len(queue) \in Nat /\ order \in Seq(Ids) /\ queue \in Seq(Events)
  BY DEF Inv, TypeOK, Natural
<1>b. order' = order \/ \E d \in Ids : order' = Append(order, d)
  BY NaturalStep
<1>c. \A a, b : B!Before(a, b, order) => B!Before(a, b, order')
  <2>1. CASE order' = order
    BY <2>1
  <2>2. ASSUME NEW d \in Ids, order' = Append(order, d)
        PROVE  \A a, b : B!Before(a, b, order) => B!Before(a, b, order')
    BY <1>a, <2>2, BeforeStays
  <2>. QED
    BY <1>b, <2>1, <2>2
<1>f. Consume => 1 \in 1..Len(queue) /\ Head(queue) = queue[1]
  BY <1>a, QueueSteps
<1>1. ASSUME NEW i \in 1..Len(view'.channels),
             NEW j \in 1..Len(view'.channels), i < j
      PROVE  B!Before(view'.channels[i].id, view'.channels[j].id, order)
  <2>1. CASE ~Consume
    BY <1>1, <2>1 DEF Arranged, InOrder
  <2>2. CASE Consume
    <3>1. \/ \E a, b \in 1..Len(view.channels) :
               /\ a < b /\ view'.channels[i].id = view.channels[a].id
               /\ view'.channels[j].id = view.channels[b].id
          \/ /\ NewAt(1) /\ view'.channels[j].id = queue[1].id
             /\ view'.channels[i].id \in B!IdsOf(view.channels)
      BY <1>1, <1>f, <2>2 DEF Arranged, B!Follows, NewAt
    <3>2. B!IdsOf(view.channels) \subseteq Channels
      BY DEF B!IdsOf
    <3>. QED
      BY <1>f, <2>2, <3>1, <3>2 DEF InOrder, Listed
  <2>. QED
    BY <2>1, <2>2
<1>2. ASSUME NEW c \in Channels, Listed(c)'
      PROVE  Listed(c) \/ (Consume /\ CreationAt(1, c))
  BY <1>2 DEF Heeded
<1>3. ASSUME NEW j \in 1..Len(queue'), NewAt(j)'
      PROVE  \/ ~Consume /\ j \in 1..Len(queue) /\ NewAt(j)
                /\ queue'[j] = queue[j]
             \/ Consume /\ j + 1 \in 1..Len(queue) /\ NewAt(j + 1)
                /\ queue'[j] = queue[j + 1]
             \/ /\ ~Consume /\ j = Len(queue) + 1
                /\ \E r \in Requests :
                     Announcing(r) /\ queue'[j].id = req[r].id
                /\ \A s \in Requests : ~Announcing(s)'
  BY <1>3, CreationSteps DEF NewAt, Old
<1>4. ASSUME NEW c \in Channels, Listed(c)', NEW j \in 1..Len(queue'), NewAt(j)'
      PROVE  B!Before(c, queue'[j].id, order)
  <2>1. CASE ~Consume
    BY <1>2, <1>3, <1>4, <2>1 DEF InOrder
  <2>2. CASE Consume
    <3>1. /\ j + 1 \in 1..Len(queue) /\ NewAt(j + 1) /\ 1 < j + 1
          /\ queue'[j] = queue[j + 1]
      BY <1>a, <1>3, <1>4, <2>2
    <3>2. CASE Listed(c)
      BY <3>1, <3>2 DEF InOrder
    <3>3. CASE CreationAt(1, c)
      BY <1>f, <2>2, <3>1, <3>3 DEF InOrder, CreationAt
    <3>. QED
      BY <1>2, <1>4, <3>2, <3>3
  <2>. QED
    BY <2>1, <2>2
<1>5. ASSUME NEW i \in 1..Len(queue'), NEW j \in 1..Len(queue'), i < j,
             NewAt(i)', NewAt(j)'
      PROVE  B!Before(queue'[i].id, queue'[j].id, order)
  <2>1. CASE Consume
    <3>1. /\ i + 1 \in 1..Len(queue) /\ NewAt(i + 1)
          /\ queue'[i] = queue[i + 1]
          /\ j + 1 \in 1..Len(queue) /\ NewAt(j + 1)
          /\ queue'[j] = queue[j + 1] /\ i + 1 < j + 1
      BY <1>a, <1>3, <1>5, <2>1
    <3>. QED
      BY <3>1 DEF InOrder
  <2>2. CASE ~Consume /\ j \in 1..Len(queue)
    <3>1. /\ i \in 1..Len(queue) /\ NewAt(i) /\ queue'[i] = queue[i]
          /\ NewAt(j) /\ queue'[j] = queue[j]
      BY <1>a, <1>3, <1>5, <2>2
    <3>. QED
      BY <1>5, <2>2, <3>1 DEF InOrder
  <2>3. CASE ~Consume /\ j = Len(queue) + 1
    <3>1. /\ i \in 1..Len(queue) /\ NewAt(i) /\ queue'[i] = queue[i]
          /\ \E r \in Requests : Announcing(r) /\ queue'[j].id = req[r].id
      BY <1>a, <1>3, <1>5, <2>3
    <3>. QED
      BY <3>1 DEF InOrder
  <2>. QED
    BY <1>3, <1>5, <2>1, <2>2, <2>3
<1>6. ASSUME NEW r \in Requests, Announcing(r)'
      PROVE  /\ \A c \in Channels :
                  Listed(c)' => B!Before(c, req'[r].id, order')
             /\ \A j \in 1..Len(queue') : NewAt(j)' =>
                  B!Before(queue'[j].id, req'[r].id, order')
  <2>1. CASE Announcing(r) /\ req'[r].id = req[r].id
    <3>1. ASSUME NEW c \in Channels, Listed(c)'
          PROVE  B!Before(c, req[r].id, order)
      BY <1>2, <1>f, <2>1, <3>1 DEF InOrder, CreationAt
    <3>2. ASSUME NEW j \in 1..Len(queue'), NewAt(j)'
          PROVE  B!Before(queue'[j].id, req[r].id, order)
      BY <1>3, <1>6, <2>1, <3>2 DEF InOrder
    <3>. QED
      BY <1>c, <2>1, <3>1, <3>2
  <2>2. CASE /\ Insert(r) /\ req[r].op = "postChannel"
             /\ req'[r].id = req[r].id /\ queue' = queue
    <3>. PICK d : d = req[r].id
      OBVIOUS
    <3>1. docs[d] = Unborn /\ d \in Channels
      BY <2>2 DEF Insert, Inv, NewIds, Inserting, At, Posts, Kinds, Active
    <3>. PICK u : u = req[r].user
      OBVIOUS
    <3>2. Stored(d)' /\ ~Stored(d) /\ d \in Ids
      <4>1. Keeps(u, d)'
        BY <2>2, <3>1, InsertedIsKept
      <4>. QED
        BY <3>1, <4>1 DEF Keeps, Stored, Ids
    <3>3. \A c \in Ids \ {d} : docs'[c] = docs[c]
      BY <3>2, StoredAnew
    <3>4. order' = Append(order, d)
      BY <3>2, <3>3 DEF Serve, Stored
    <3>5. \A c \in Channels : docs[c] # Unborn => B!Before(c, d, order')
      BY <1>a, <3>2, <3>4, BeforeLast DEF Natural, Ids
    <3>6. \A c \in Channels : Kept(c) \/ Ending(c) => docs[c] # Unborn
      BY ConstantsDistinct
         DEF Kept, Stored, Ending, DeletionAt, AnnouncedGoing, GoneOrGoing,
             Deleting, Inv, Born
    <3>7. ~Consume
      BY <1>a, <2>2, QueueSteps
    <3>8. ASSUME NEW c \in Channels, Listed(c)'
          PROVE  B!Before(c, req'[r].id, order')
      <4>1. Listed(c)
        BY <1>2, <3>7, <3>8
      <4>. QED
        BY <2>2, <3>5, <3>6, <4>1 DEF ListedRight
    <3>9. ASSUME NEW j \in 1..Len(queue'), NewAt(j)'
          PROVE  B!Before(queue'[j].id, req'[r].id, order')
      <4>1. j \in 1..Len(queue) /\ NewAt(j) /\ queue'[j] = queue[j]
        BY <2>2, <3>9 DEF NewAt
      <4>2. CreationAt(j, queue[j].id) /\ queue[j].id \in Channels
        BY <4>1 DEF CreationAt
      <4>. QED
        BY <2>2, <3>5, <3>6, <4>1, <4>2 DEF ListedRight
    <3>. QED
      BY <3>8, <3>9
  <2>. QED
    BY <1>6, <2>1, <2>2, CreationSteps
<1>. QED
  BY <1>c, <1>1, <1>4, <1>5, <1>6 DEF InOrder

-----------------------------------------------------------------------------
(* A loaded tab hears of an event.                                           *)

\* What is in the order of insertion is listed once, and not announced again.
LEMMA OnceOnly ==
  ASSUME Natural, InOrder, NEW E, view.channels \in Seq(E)
  PROVE  /\ B!ListedOnce(view.channels)
         /\ \A j \in 1..Len(queue), c \in Channels :
              CreationAt(j, c) => ~Listed(c)
<1>1. \A a : ~B!Before(a, a, order)
  BY DEF B!Before, Natural, B!Distinct
<1>2. ASSUME NEW i \in 1..Len(view.channels), NEW j \in 1..Len(view.channels),
             view.channels[i].id = view.channels[j].id
      PROVE  i = j
  <2>1. ~(i < j) /\ ~(j < i)
    BY <1>1, <1>2 DEF InOrder
  <2>. QED
    BY <2>1
<1>3. ASSUME NEW j \in 1..Len(queue), NEW c \in Channels, CreationAt(j, c),
             Listed(c)
      PROVE  FALSE
  BY <1>1, <1>3 DEF InOrder, CreationAt
<1>. QED
  BY <1>2, <1>3 DEF B!ListedOnce

\* The default channel is the first of the list.
LEMMA GeneralFirst ==
  ASSUME Natural, GeneralStays, ListedRight, InOrder, Loaded,
         view.channels \in Seq(ChannelEntries)
  PROVE  view.channels[1].id = General /\ Listed(General)
<1>1. \A a : ~B!Before(a, General, order)
  <2>. SUFFICES ASSUME NEW i \in 1..Len(order), NEW j \in 1..Len(order),
                       i < j, order[j] = General
                PROVE  FALSE
    BY DEF B!Before
  <2>1. 1 \in 1..Len(order) /\ order[1] = General
    BY DEF Natural
  <2>2. j = 1
    BY <2>1 DEF Natural, B!Distinct
  <2>. QED
    BY <2>2
<1>2. /\ 1 \in 1..Len(view.channels) /\ view.channels[1].id \in Channels
      /\ Listed(view.channels[1].id)
  <2>1. 1 \in 1..Len(view.channels)
    BY DEF Loaded
  <2>2. view.channels[1] \in ChannelEntries
    BY <2>1
  <2>3. view.channels[1].id \in Channels
    BY <2>2 DEF ChannelEntries
  <2>. QED
    BY <2>1, <2>3 DEF Listed, B!IdsOf
<1>3. Listed(General)
  <2>1. General \in Channels /\ Kept(General)
    BY ConstantsDistinct DEF GeneralStays, Kept
  <2>2. ~Ahead(General)
    BY <1>1, <1>2 DEF Ahead, CreationAt, Creating, InOrder
  <2>. QED
    BY <2>1, <2>2 DEF ListedRight
<1>4. PICK k \in 1..Len(view.channels) : view.channels[k].id = General
  BY <1>3 DEF Listed, B!IdsOf
<1>5. ~(1 < k)
  BY <1>1, <1>2, <1>4 DEF InOrder
<1>6. k = 1
  BY <1>5
<1>. QED
  BY <1>3, <1>4, <1>6

\* The view w has what v had, or what e carries.
Shows(w, v, e) ==
  \A x \in B!ElementsOf(w.channels) \cup {w.current} :
    \/ /\ x \in B!ElementsOf(v.channels) \cup {v.current}
       /\ B!Updates(e) => x.id # e.id
    \/ /\ e.type = "channel-new" \/ B!Updates(e)
       /\ x = B!Entry(e.id, e.doc)
    \/ /\ B!Updates(e) /\ v.current.id = e.id
       /\ x = [v.current EXCEPT !.doc.text = e.doc.text]

\* What the tab makes of the event it hears of.
LEMMA Heard ==
  ASSUME ChatInv, CalmInv, Receive, NEW e, e = Head(queue)
  PROVE  /\ Loaded /\ Consume /\ fetches = {}
         /\ Heeded /\ B!Follows(view', view, e) /\ Shows(view', view, e)
         /\ \/ view'.current = view.current
            \/ e.type = "channel-new" /\ view'.current.id = e.id
            \/ /\ e.type = "channel-delete" /\ Listed(e.id)
               /\ view.current.id = e.id
            \/ /\ e.type = "channel-update"
               /\ view'.current.id = view.current.id
<1>a. /\ Consume /\ view' = IF joined THEN Tab!Handle(view, e, me) ELSE view
  BY DEF Receive
<1>b. /\ e \in Events /\ Announced(e) /\ 1 \in 1..Len(queue)
      /\ e = queue[1] /\ e.type \in B!Types
      /\ B!Fits(e, Channels, ChannelDocs, Messages, MessageDocs)
  BY <1>a, NextEvent DEF ChatInv
<1>c. fetches = {} /\ joined /\ Loaded
  <2>1. ~Quiet
    BY <1>a DEF Quiet, Consume
  <2>. QED
    BY <2>1 DEF CalmInv, LoadsInPeace
<1>d. ListedRight /\ InOrder /\ ShownRight /\ CurrentListed
  BY <1>c DEF CalmInv
<1>e. /\ view \in Views /\ view.channels \in Seq(ChannelEntries)
      /\ view.current \in ChannelEntries
  BY <1>d, OtherViews DEF ChatInv, ChatTypes, ShownRight
<1>f. B!ListedOnce(view.channels)
  BY <1>d, <1>e, OnceOnly DEF ChatInv
<1>g. e.type = "channel-new" => e.id \notin B!IdsOf(view.channels)
  <2>. SUFFICES ASSUME e.type = "channel-new"
                PROVE  e.id \notin B!IdsOf(view.channels)
    OBVIOUS
  <2>1. e.id \in Channels /\ CreationAt(1, e.id)
    BY <1>b DEF B!Fits, CreationAt, NewAt
  <2>. QED
    BY <1>b, <1>d, <1>e, <2>1, OnceOnly DEF ChatInv, Listed
<1>. PICK w : w = view'
  OBVIOUS
<1>1. w = B!Handle(view, e, me)
  BY <1>a, <1>c, HandleSame
<1>2. B!Relists(w, view, e, me)
  BY <1>1, <1>b, <1>e, <1>f, <1>g, B!HandledIds DEF Views
<1>3. B!Follows(w, view, e)
  BY <1>1, <1>b, <1>e, <1>f, B!HandledOrder DEF Views
<1>4. B!Renames(w, view, e)
  BY <1>1, <1>b, <1>e, B!HandledEntries DEF Views
<1>5. ASSUME NEW c \in Channels
      PROVE  c \in B!IdsOf(w.channels) <=>
               \/ CreationAt(1, c)
               \/ c \in B!IdsOf(view.channels) /\ ~DeletionAt(1, c)
  <2>. DEFINE old == B!IdsOf(view.channels)
              new == B!IdsOf(w.channels)
  <2>1. CASE e.type = "channel-new"
    <3>1. new = old \cup {e.id}
      BY <1>2, <2>1 DEF B!Relists
    <3>. HIDE DEF old, new
    <3>2. c \in new <=> CreationAt(1, c) \/ (c \in old /\ ~DeletionAt(1, c))
      BY <1>b, <2>1, <3>1 DEF CreationAt, NewAt, DeletionAt
    <3>. QED
      BY <3>2 DEF old, new
  <2>2. CASE e.type = "channel-delete"
    <3>1. new = old \ {e.id}
      BY <1>2, <2>2 DEF B!Relists
    <3>. HIDE DEF old, new
    <3>2. c \in new <=> CreationAt(1, c) \/ (c \in old /\ ~DeletionAt(1, c))
      BY <1>b, <2>2, <3>1 DEF CreationAt, NewAt, DeletionAt
    <3>. QED
      BY <3>2 DEF old, new
  <2>3. CASE e.type \notin {"channel-new", "channel-delete"}
    <3>1. new = old
      BY <1>2, <2>3 DEF B!Relists
    <3>. HIDE DEF old, new
    <3>2. c \in new <=> CreationAt(1, c) \/ (c \in old /\ ~DeletionAt(1, c))
      BY <1>b, <2>3, <3>1 DEF CreationAt, NewAt, DeletionAt
    <3>. QED
      BY <3>2 DEF old, new
  <2>. QED
    BY <2>1, <2>2, <2>3
<1>6. Heeded
  BY <1>5, <1>a DEF Heeded, Listed
<1>7. /\ view.current # Null
      /\ B!Displays(view, e.id) <=> view.current.id = e.id
  BY <1>d DEF B!Displays, ShownRight
<1>8. \/ w.current = view.current
      \/ e.type = "channel-new" /\ w.current.id = e.id
      \/ /\ e.type = "channel-delete" /\ Listed(e.id)
         /\ view.current.id = e.id
      \/ /\ e.type = "channel-update" /\ w.current.id = view.current.id
  <2>1. B!Entry(e.id, e.doc).id = e.id
    BY DEF B!Entry
  <2>2. [view.current EXCEPT !.doc.text = e.doc.text].id = view.current.id
    BY <1>e DEF ChannelEntries
  <2>. QED
    BY <1>2, <1>7, <1>d, <2>1, <2>2 DEF CurrentListed, B!Relists
<1>9. Shows(w, view, e)
  <2>1. ASSUME NEW x \in B!ElementsOf(w.channels)
        PROVE  \/ /\ x \in B!ElementsOf(view.channels) \cup {view.current}
                  /\ B!Updates(e) => x.id # e.id
               \/ /\ e.type = "channel-new" \/ B!Updates(e)
                  /\ x = B!Entry(e.id, e.doc)
    BY <1>4, <2>1 DEF B!Renames
  <2>2. CASE B!Updates(e)
    <3>1. w.current = IF B!Displays(view, e.id)
                      THEN [view.current EXCEPT !.doc.text = e.doc.text]
                      ELSE view.current
      BY <1>4, <1>c, <2>2 DEF B!Renames, Loaded
    <3>. QED
      BY <1>7, <2>1, <2>2, <3>1 DEF Shows
  <2>3. CASE ~B!Updates(e)
    BY <1>2, <2>1, <2>3 DEF Shows, B!Updates, B!Relists
  <2>. QED
    BY <2>2, <2>3
<1>. QED
  BY <1>a, <1>c, <1>3, <1>6, <1>8, <1>9

\* Null is no entry of a list of channels.
LEMMA EntryIsNoNull == Null \notin ChannelEntries
<1>1. ChannelEntries \subseteq [id : Channels, doc : Doc]
  BY DEF ChannelEntries, ChannelDocs, Doc, Texts
<1>. QED
  BY <1>1, ChatAssumption

\* What a tab that has heard of an event shows is right: the last announcement
\* of a change has the name the channel is left with.
LEMMA HeardRight ==
  ASSUME ChatInv, ChatInv', CalmInv, OneByOne, Receive
  PROVE  ShownRight'
<1>. PICK e : e = Head(queue)
  OBVIOUS
<1>a. /\ Inv /\ Collections /\ NamesCarried /\ mqChannel = "open"
      /\ Consume /\ Undisturbed /\ UNCHANGED <<docs, req>> /\ OneAtATime
  BY OneByOneNames DEF ChatInv, CalmInv, Receive, Consume, Undisturbed
<1>b. Announced(e) /\ 1 \in 1..Len(queue) /\ e = queue[1]
  BY <1>a, NextEvent
<1>c. ShownRight /\ Shows(view', view, e)
  BY Heard DEF CalmInv
<1>d. view \in Views /\ view' \in Views
  BY DEF ChatInv, ChatTypes
<1>e. /\ view.channels \in Seq(ChannelEntries)
      /\ view.current \in ChannelEntries
  BY <1>c, <1>d, OtherViews DEF ShownRight
<1>. DEFINE shown == B!ElementsOf(view.channels) \cup {view.current}
<1>f. \A x \in shown : x \in ChannelEntries
  BY <1>e DEF B!ElementsOf
<1>. PICK w : w = view'
  OBVIOUS
<1>1. ASSUME NEW x \in B!ElementsOf(w.channels) \cup {w.current}
      PROVE  \/ x \in shown /\ (B!Updates(e) => x.id # e.id)
             \/ /\ e.type = "channel-new" \/ B!Updates(e)
                /\ x = B!Entry(e.id, e.doc)
             \/ /\ B!Updates(e) /\ view.current.id = e.id
                /\ x = [view.current EXCEPT !.doc.text = e.doc.text]
  BY <1>1, <1>c DEF Shows
<1>2. e.type = "channel-new" \/ B!Updates(e) =>
        e.id \in Channels /\ Version(e.id, e.doc) /\ e.doc \in ChannelDocs
  BY <1>b DEF Announced, B!Updates, Version, DocsOf
<1>3. B!Entry(e.id, e.doc) = [id |-> e.id, doc |-> e.doc]
  BY DEF B!Entry
<1>4. ASSUME NEW x \in B!ElementsOf(w.channels) \cup {w.current}
      PROVE  /\ x \in ChannelEntries /\ Version(x.id, x.doc)
             /\ \/ x \in shown /\ (B!Updates(e) => x.id # e.id)
                \/ /\ e.type = "channel-new" \/ B!Updates(e)
                   /\ x.id = e.id /\ x.doc.text = e.doc.text
  <2>1. CASE x \in shown /\ (B!Updates(e) => x.id # e.id)
    BY <1>c, <1>f, <2>1 DEF ShownRight
  <2>2. CASE /\ e.type = "channel-new" \/ B!Updates(e)
             /\ x = B!Entry(e.id, e.doc)
    <3>1. x.id = e.id /\ x.doc = e.doc
      BY <1>3, <2>2
    <3>2. x \in ChannelEntries
      BY <1>2, <1>3, <2>2 DEF ChannelEntries
    <3>. QED
      BY <1>2, <2>2, <3>1, <3>2
  <2>3. CASE /\ B!Updates(e) /\ view.current.id = e.id
             /\ x = [view.current EXCEPT !.doc.text = e.doc.text]
    <3>. PICK k : k = view.current
      OBVIOUS
    <3>1. /\ k \in ChannelEntries /\ k.id \in Channels /\ k.doc \in ChannelDocs
          /\ Version(k.id, k.doc)
      BY <1>c, <1>e DEF ShownRight, ChannelEntries
    <3>2. /\ x.id = k.id /\ x.doc = [k.doc EXCEPT !.text = e.doc.text]
          /\ x = [id |-> x.id, doc |-> x.doc]
      BY <2>3, <3>1 DEF ChannelEntries
    <3>3. /\ x.doc \in ChannelDocs /\ x.doc.text = e.doc.text
          /\ x.doc.creator = k.doc.creator /\ x.doc.channel = k.doc.channel
      BY <1>2, <2>3, <3>1, <3>2 DEF ChannelDocs
    <3>4. x \in ChannelEntries
      BY <3>1, <3>2, <3>3 DEF ChannelEntries
    <3>5. Version(x.id, x.doc)
      BY <3>1, <3>2, <3>3 DEF Version, DocsOf
    <3>. QED
      BY <2>3, <3>2, <3>3, <3>4, <3>5
  <2>. QED
    BY <1>1, <2>1, <2>2, <2>3
<1>5. ASSUME NEW x \in B!ElementsOf(w.channels) \cup {w.current},
             NEW c \in Channels, x.id = c, Stored(c)', NameTold(c)'
      PROVE  x.doc.text = docs'[c].text
  <2>1. Stored(c) /\ docs'[c] = docs[c] /\ NameCarried(c) /\ c # Null
    BY <1>a, <1>5, ConstantsDistinct DEF Stored, NamesCarried, Ids
  <2>2. NameTold(c) \/ (~Renaming(c) /\ LastUpdate(1, c))
    BY <1>a, <1>5, <2>1, NameToldStep DEF Stored
  <2>3. LastUpdate(1, c) => B!Updates(e) /\ e.id = c
    BY <1>b, <2>1 DEF LastUpdate, UpdateAt, Announced, B!Updates
  <2>4. CASE x \in shown /\ (B!Updates(e) => x.id # e.id)
    <3>1. NameTold(c)
      BY <1>5, <2>2, <2>3, <2>4
    <3>. QED
      BY <1>c, <1>5, <2>1, <2>4, <3>1 DEF ShownRight
  <2>5. CASE /\ e.type = "channel-new"
             /\ x.id = e.id /\ x.doc.text = e.doc.text
    <3>1. CreationAt(1, c) /\ NameTold(c)
      BY <1>b, <1>5, <2>2, <2>3, <2>5 DEF CreationAt, NewAt, B!Updates
    <3>. QED
      BY <1>b, <2>1, <2>5, <3>1 DEF NameCarried
  <2>6. CASE B!Updates(e) /\ x.id = e.id /\ x.doc.text = e.doc.text
    <3>1. UpdateAt(1, c)
      BY <1>b, <1>5, <2>6 DEF UpdateAt, B!Updates
    <3>2. ~Renaming(c) /\ LastUpdate(1, c)
      BY <1>b, <2>2, <3>1 DEF NameTold
    <3>. QED
      BY <1>b, <2>1, <2>6, <3>2 DEF NameCarried
  <2>. QED
    BY <1>4, <1>5, <2>4, <2>5, <2>6
<1>6. ASSUME NEW x \in B!ElementsOf(w.channels) \cup {w.current}
      PROVE  /\ x # Null /\ Version(x.id, x.doc)'
             /\ Stored(x.id)' /\ NameTold(x.id)' =>
                  x.doc.text = docs'[x.id].text
  <2>1. x # Null /\ x.id \in Channels
    BY <1>4, EntryIsNoNull DEF ChannelEntries
  <2>. PICK c, doc : c \in Channels /\ c = x.id /\ doc = x.doc
    BY <2>1
  <2>2. Version(c, doc)'
    BY <1>a, <1>4 DEF Version, Stored
  <2>3. Stored(c)' /\ NameTold(c)' => x.doc.text = docs'[c].text
    BY <1>5
  <2>. QED
    BY <2>1, <2>2, <2>3
<1>. QED
  BY <1>6 DEF ShownRight

\* The names it shows stay right when it hears of nothing.
LEMMA UnheardRight ==
  ASSUME ChatInv, CalmInv, OneByOne, Undisturbed, ~Consume, ShownRight,
         view'.channels = view.channels,
         view'.current \in B!ElementsOf(view.channels) \cup {view.current}
  PROVE  ShownRight'
<1>a. /\ Inv /\ Collections /\ NamesCarried /\ mqChannel = "open"
      /\ OneAtATime /\ [Next]_vars
  BY OneByOneNames, UndisturbedNext DEF ChatInv, CalmInv, Inv
<1>b. \A x \in B!ElementsOf(view.channels) \cup {view.current} :
        x \in ChannelEntries
  <2>1. /\ view.channels \in Seq(ChannelEntries)
        /\ view.current \in ChannelEntries
    BY OtherViews DEF ChatInv, ChatTypes, ShownRight
  <2>. QED
    BY <2>1 DEF B!ElementsOf
<1>1. ASSUME NEW x \in B!ElementsOf(view.channels) \cup {view.current}
      PROVE  /\ x # Null /\ Version(x.id, x.doc)'
             /\ Stored(x.id)' /\ NameTold(x.id)' =>
                  x.doc.text = docs'[x.id].text
  <2>1. /\ x # Null /\ x.id \in Channels /\ Version(x.id, x.doc)
        /\ Stored(x.id) /\ NameTold(x.id) => x.doc.text = docs[x.id].text
    BY <1>b, <1>1 DEF ShownRight, ChannelEntries
  <2>. PICK c, doc : c \in Channels /\ c = x.id /\ doc = x.doc
    BY <2>1
  <2>2. Version(c, doc)'
    BY <1>a, <2>1, VersionStays DEF Ids
  <2>3. ASSUME Stored(c)', NameTold(c)' PROVE x.doc.text = docs'[c].text
    <3>1. docs[c] # Unborn
      BY <2>1 DEF Version
    <3>2. Stored(c) /\ NameTold(c) /\ docs'[c].text = docs[c].text
      BY <1>a, <2>3, <3>1, NameToldStep
    <3>. QED
      BY <2>1, <3>2
  <2>. QED
    BY <2>1, <2>2, <2>3
<1>. QED
  BY <1>1 DEF ShownRight

\* The channel displayed is in the list after an event, and the list is not
\* empty: the default channel is displayed instead of a deleted one.
LEMMA HeardListed ==
  ASSUME ChatInv, CalmInv, Receive
  PROVE  CurrentListed' /\ Loaded'
<1>. PICK e : e = Head(queue)
  OBVIOUS
<1>a. /\ Loaded /\ Heeded /\ B!Follows(view', view, e) /\ Consume
      /\ \/ view'.current = view.current
         \/ e.type = "channel-new" /\ view'.current.id = e.id
         \/ /\ e.type = "channel-delete" /\ Listed(e.id)
            /\ view.current.id = e.id
         \/ /\ e.type = "channel-update"
            /\ view'.current.id = view.current.id
  BY Heard
<1>b. ListedRight /\ InOrder /\ ShownRight /\ CurrentListed
  BY <1>a DEF CalmInv
<1>c. /\ Announced(e) /\ 1 \in 1..Len(queue) /\ e = queue[1]
      /\ B!Fits(e, Channels, ChannelDocs, Messages, MessageDocs)
  BY <1>a, NextEvent DEF ChatInv
<1>d. /\ view.channels \in Seq(ChannelEntries)
      /\ view.current \in ChannelEntries /\ view.current # Null
      /\ General \in Channels
  BY <1>b, OtherViews, ConstantsDistinct DEF ChatInv, ChatTypes, ShownRight
<1>1. view.channels[1].id = General /\ Listed(General)
  BY <1>a, <1>b, <1>d, GeneralFirst DEF ChatInv
<1>2. ~DeletionAt(1, General)
  BY <1>c DEF DeletionAt, AnnouncedGoing, CalmInv, ChatInv, GeneralStays,
              GoneOrGoing, Stored
<1>3. \A c \in Channels : Listed(c)' <=>
        CreationAt(1, c) \/ (Listed(c) /\ ~DeletionAt(1, c))
  BY <1>a DEF Heeded
<1>4. Listed(General)'
  BY <1>1, <1>2, <1>3, <1>d
<1>5. Loaded'
  BY <1>4 DEF Listed, Loaded, B!IdsOf
<1>6. view.current.id \in Channels
  BY <1>d DEF ChannelEntries
<1>. PICK w : w = view'
  OBVIOUS
<1>7. ASSUME e.type = "channel-delete", view.current.id = e.id
      PROVE  w.current.id = General
  <2>1. B!Displays(view, e.id) /\ e.id \in B!IdsOf(view.channels)
    BY <1>b, <1>d, <1>7 DEF B!Displays, CurrentListed, Listed
  <2>2. w.current = view.channels[1]
    BY <1>a, <1>7, <2>1 DEF B!Follows
  <2>. QED
    BY <1>1, <2>2
<1>8. PICK k : k = w.current.id
  OBVIOUS
<1>9. k \in Channels /\ Listed(k)'
  <2>1. CASE e.type = "channel-delete" /\ view.current.id = e.id
    BY <1>4, <1>7, <1>8, <1>d, <2>1
  <2>2. CASE e.type = "channel-new" /\ w.current.id = e.id
    <3>1. CreationAt(1, k) /\ k \in Channels
      BY <1>c, <1>8, <2>2 DEF CreationAt, NewAt, B!Fits
    <3>. QED
      BY <1>3, <3>1
  <2>3. CASE /\ w.current.id = view.current.id
             /\ ~(e.type = "channel-delete" /\ view.current.id = e.id)
    <3>1. Listed(k) /\ ~DeletionAt(1, k) /\ k \in Channels
      BY <1>b, <1>c, <1>6, <1>8, <2>3 DEF CurrentListed, DeletionAt
    <3>. QED
      BY <1>3, <3>1
  <2>. QED
    BY <1>a, <2>1, <2>2, <2>3
<1>10. CurrentListed'
  <2>1. CurrentListed' = (w.current.id \in B!IdsOf(w.channels))
    BY DEF CurrentListed, Listed
  <2>2. Listed(k)' = (k \in B!IdsOf(w.channels))
    BY DEF Listed
  <2>. QED
    BY <1>8, <1>9, <2>1, <2>2
<1>. QED
  BY <1>5, <1>10

-----------------------------------------------------------------------------
(* The tab loads the list while nothing happens.                             *)

\* A step of the service needs a request or a deletion under way, and starts
\* none while the tab is fetching.
LEMMA ServesNotQuiet ==
  ASSUME ChatInv, CalmInv, ~Overlaps, Serve
  PROVE  /\ fetches = {} /\ joined /\ me # Null
         /\ fetches' = {} /\ joined' /\ me' # Null
         /\ view' = view
<1>1. fetches = {} /\ joined /\ me # Null
  <2>. SUFFICES ASSUME fetches # {} \/ ~joined \/ me = Null PROVE FALSE
    OBVIOUS
  <2>1. Quiet
    BY DEF CalmInv, LoadsInPeace
  <2>2. \A r \in Requests : ~Advance(r)
    BY <2>1 DEF Quiet, Active, Advance, FindOne, Refuse, Throw, Proceed,
                ProceedDeleteChannel, Insert, Update, Delete, Reply, At
  <2>. QED
    BY <2>1, <2>2 DEF Serve, Quiet
<1>. QED
  BY <1>1 DEF Serve, tabVars

\* What is fetched does not change while no document does.
LEMMA FoundSame ==
  ASSUME UNCHANGED <<docs, order>>
  PROVE  AllChannels' = AllChannels
<1>1. \A d : Stored(d)' = Stored(d)
  BY DEF Stored
<1>2. {c \in Channels : Stored(c)}' = {c \in Channels : Stored(c)}
  BY <1>1
<1>3. ASSUME NEW S PROVE Page(S, ChannelLimit)' = Page(S, ChannelLimit)
  BY DEF Page
<1>. QED
  BY <1>2, <1>3 DEF AllChannels

\* What the fetches are and what they have found.
Fetched ==
  /\ ~Loaded => \E f \in fetches : f.kind = "channels"
  /\ \A f \in fetches :
       f.kind = "channels" /\ f.data # Null => f.data = AllChannels

\* The tab's own steps happen while nothing else does, or change nothing but
\* the page.
LEMMA TabSteps ==
  ASSUME ChatInv, CalmInv, ~Overlaps, ChatNext, ~Serve, ~Receive
  PROVE  /\ Quiet \/ Touch
         /\ UNCHANGED <<vars, order>> /\ Fetched'
         /\ \/ /\ view'.channels = view.channels
               /\ view'.current \in
                    B!ElementsOf(view.channels) \cup {view.current}
            \/ \E f \in fetches : ShowChannels(f)
<1>a. Fetched /\ (fetches # {} \/ ~joined \/ me = Null => Quiet)
  BY DEF CalmInv, LoadsInPeace, Fetched
<1>b. view \in Views /\ \A f \in fetches : FetchOf(f)
  BY DEF ChatInv, ChatTypes
<1>c. UNCHANGED <<docs, order>> => AllChannels' = AllChannels
  BY FoundSame
<1>1. CASE ShowUser \/ Join \/ Touch
  <2>1. /\ Quiet \/ Touch
        /\ UNCHANGED <<vars, order, view, fetches>>
    BY <1>a, <1>1 DEF ShowUser, Join, Touch
  <2>2. AllChannels' = AllChannels
    BY <1>c, <2>1 DEF vars
  <2>. QED
    BY <1>a, <2>1, <2>2 DEF Fetched, Loaded
<1>2. ASSUME NEW f \in fetches, FindChannels(f) \/ FindMessages(f)
      PROVE  /\ Quiet /\ UNCHANGED <<vars, order, view>> /\ Fetched'
  <2>1. Quiet /\ UNCHANGED <<vars, order, view>>
    BY <1>a, <1>2 DEF FindChannels, FindMessages, Return
  <2>2. AllChannels' = AllChannels
    BY <1>c, <2>1 DEF vars
  <2>3. PICK data :
          /\ fetches' = (fetches \ {f}) \cup {[f EXCEPT !.data = data]}
          /\ f.kind = "channels" => data = AllChannels
    <3>1. CASE FindChannels(f)
      BY <3>1 DEF FindChannels, Return
    <3>2. CASE FindMessages(f)
      BY <3>2 DEF FindMessages, Return
    <3>. QED
      BY <1>2, <3>1, <3>2
  <2>4. /\ [f EXCEPT !.data = data].kind = f.kind
        /\ [f EXCEPT !.data = data].data = data
    BY <1>b DEF FetchOf
  <2>5. \A g \in fetches' :
          g \in fetches \/ (g.kind = f.kind /\ g.data = data)
    BY <2>3, <2>4
  <2>6. \A g \in fetches : \E h \in fetches' : h.kind = g.kind
    BY <2>3, <2>4
  <2>7. \A g \in fetches' :
          g.kind = "channels" /\ g.data # Null => g.data = AllChannels
    BY <1>a, <2>3, <2>5 DEF Fetched
  <2>8. ~Loaded' => \E g \in fetches' : g.kind = "channels"
    BY <1>a, <2>1, <2>6 DEF Fetched, Loaded
  <2>. QED
    BY <2>1, <2>2, <2>7, <2>8 DEF Fetched
<1>3. ASSUME NEW f \in fetches, ShowChannels(f)
      PROVE  Quiet /\ UNCHANGED <<vars, order>> /\ Fetched'
  <2>1. Quiet /\ UNCHANGED <<vars, order>>
    BY <1>a, <1>3 DEF ShowChannels
  <2>2. AllChannels' = AllChannels
    BY <1>c, <2>1 DEF vars
  <2>3. f.data \in Seq(ChannelEntries) \ {<<>>}
    BY <1>b, <1>3 DEF ShowChannels, FetchOf
  <2>4. view'.channels = f.data
    BY <1>3, <1>b DEF ShowChannels, Tab!ShowChannels, Views, B!TabViews, B!Views
  <2>5. Fetch("messages", f.data[1].id).kind = "messages"
    BY DEF Fetch
  <2>6. \A g \in fetches' : g \in fetches \/ g.kind = "messages"
    BY <1>3, <2>5 DEF ShowChannels
  <2>. QED
    BY <1>a, <2>1, <2>2, <2>3, <2>4, <2>6 DEF Fetched, Loaded
<1>4. ASSUME NEW f \in fetches, ShowMessages(f)
      PROVE  /\ Quiet /\ UNCHANGED <<vars, order>> /\ Fetched'
             /\ view'.channels = view.channels /\ view'.current = view.current
  <2>1. Quiet /\ UNCHANGED <<vars, order>>
    BY <1>a, <1>4 DEF ShowMessages
  <2>2. AllChannels' = AllChannels
    BY <1>c, <2>1 DEF vars
  <2>3. view'.channels = view.channels /\ view'.current = view.current
    BY <1>4, <1>b DEF ShowMessages, Tab!ShowMessages, Tab!Cache, Views,
                      B!TabViews, B!Views
  <2>4. f.kind # "channels" /\ fetches' = fetches \ {f}
    BY <1>4 DEF ShowMessages
  <2>. QED
    BY <1>a, <2>1, <2>2, <2>3, <2>4 DEF Fetched, Loaded
<1>5. CASE Click
  <2>1. Quiet /\ UNCHANGED <<vars, order>>
    BY <1>5 DEF Click
  <2>2. AllChannels' = AllChannels
    BY <1>c, <2>1 DEF vars
  <2>3. PICK i \in 1..Len(view.channels) :
          /\ view' = Tab!Click(view, view.channels[i])
          /\ fetches' = fetches \cup {Fetch("messages", view.channels[i].id)}
    BY <1>5, Clicked DEF ChatInv
  <2>4. view'.channels = view.channels /\ view'.current = view.channels[i]
    BY <1>b, <2>3 DEF Tab!Click, Views, B!TabViews, B!Views
  <2>5. Fetch("messages", view.channels[i].id).kind = "messages"
    BY DEF Fetch
  <2>6. /\ \A g \in fetches' : g \in fetches \/ g.kind = "messages"
        /\ fetches \subseteq fetches'
    BY <2>3, <2>5
  <2>7. Fetched'
    BY <1>a, <2>2, <2>4, <2>6 DEF Fetched, Loaded
  <2>8. view'.current \in B!ElementsOf(view.channels)
    BY <2>4 DEF B!ElementsOf
  <2>. QED
    BY <2>1, <2>4, <2>7, <2>8
<1>. QED
  BY <1>1, <1>2, <1>3, <1>4, <1>5 DEF ChatNext

\* When the list is not cut off, the tab fetches all channels there are, in the
\* order of their insertion.
LEMMA FoundAll ==
  ASSUME ChatInv, Uncut
  PROVE  /\ AllChannels \in Seq(ChannelEntries)
         /\ \A i \in 1..Len(AllChannels) :
              /\ AllChannels[i].id \in Channels /\ Stored(AllChannels[i].id)
              /\ AllChannels[i].doc = docs[AllChannels[i].id]
         /\ \A c \in Channels : Stored(c) =>
              \E i \in 1..Len(AllChannels) : AllChannels[i].id = c
         /\ \A i, j \in 1..Len(AllChannels) : i < j =>
              B!Before(AllChannels[i].id, AllChannels[j].id, order)
<1>. DEFINE S     == {c \in Channels : Stored(c)}
            found == Those(order, S)
<1>. HIDE DEF found
<1>1. /\ S \in SUBSET Ids /\ S \subseteq Channels
      /\ \A d \in S : docs[d] \in ChannelDocs
  BY DEF ChatInv, Collections, StoredWhereItBelongs, DocsOf, Ids
<1>2. ChannelLimit \in Nat /\ Len(found) <= ChannelLimit
  BY ChatAssumption DEF Uncut, found
<1>3. AllChannels = Page(S, ChannelLimit)
  BY DEF AllChannels
<1>4. S \subseteq B!ElementsOf(order)
  BY DEF ChatInv, Natural, Stored, Ids
<1>5. /\ \A c \in S : c \in Channels /\ Stored(c)
      /\ \A c \in Channels : Stored(c) => c \in S
  OBVIOUS
<1>. HIDE DEF S
<1>6. /\ found \in Seq(Ids) /\ B!Ordered(found, order)
      /\ B!ElementsOf(found) = S
  <2>1. order \in Seq(Ids)
    BY DEF ChatInv, Natural
  <2>2. found = B!Those(order, S)
    BY ThoseSame DEF found
  <2>3. /\ found \in Seq(Ids) /\ B!Ordered(found, order)
        /\ B!ElementsOf(found) = B!ElementsOf(order) \cap S
    BY <2>1, <2>2, B!ThoseAre
  <2>. QED
    BY <1>4, <2>3
<1>7. /\ AllChannels \in Seq(ChannelEntries)
      /\ Len(AllChannels) = IF Len(found) < ChannelLimit THEN Len(found)
                            ELSE ChannelLimit
      /\ \A i \in 1..Len(AllChannels) :
           AllChannels[i] = Tab!Entry(found[i], docs[found[i]])
  BY <1>1, <1>2, <1>3, PageOf DEF ChatInv, ChannelEntries, found
<1>8. Len(AllChannels) = Len(found) /\ Len(found) \in Nat
  BY <1>2, <1>6, <1>7
<1>9. \A i \in 1..Len(AllChannels) :
        AllChannels[i].id = found[i] /\ AllChannels[i].doc = docs[found[i]]
  <2>1. \A id, doc : /\ Tab!Entry(id, doc).id = id
                     /\ Tab!Entry(id, doc).doc = doc
    BY DEF Tab!Entry
  <2>. QED
    BY <1>7, <2>1
<1>10. /\ \A i \in 1..Len(found) : found[i] \in S
       /\ \A c \in S : \E i \in 1..Len(found) : found[i] = c
  BY <1>6 DEF B!ElementsOf
<1>11. \A i, j \in 1..Len(found) :
         i < j => B!Before(found[i], found[j], order)
  BY <1>6 DEF B!Ordered
<1>. QED
  BY <1>5, <1>7, <1>8, <1>9, <1>10, <1>11

\* The list a tab has loaded is right.
LEMMA ShownLoaded ==
  ASSUME ChatInv, CalmInv, ~Overlaps, Uncut, ChatNext, ~Serve, ~Receive,
         NEW f \in fetches, ShowChannels(f)
  PROVE  (ListedRight /\ InOrder /\ ShownRight /\ CurrentListed)'
<1>. DEFINE all == AllChannels
<1>a. Quiet /\ UNCHANGED <<vars, order>>
  BY TabSteps DEF CalmInv, LoadsInPeace
<1>b. f.data = all /\ all \in Seq(ChannelEntries) \ {<<>>}
  BY ChannelsFound DEF ChatInv, CalmInv, LoadsInPeace, ShowChannels
<1>c. /\ \A i \in 1..Len(all) :
           /\ all[i].id \in Channels /\ Stored(all[i].id)
           /\ all[i].doc = docs[all[i].id]
      /\ \A c \in Channels : Stored(c) =>
           \E i \in 1..Len(all) : all[i].id = c
      /\ \A i, j \in 1..Len(all) :
           i < j => B!Before(all[i].id, all[j].id, order)
  BY FoundAll
<1>. HIDE DEF all
<1>. PICK w, o : w = view' /\ o = order'
  OBVIOUS
<1>1. w.channels = all /\ w.current = all[1] /\ 1 \in 1..Len(all)
  BY <1>b DEF ShowChannels, Tab!ShowChannels, ChatInv, ChatTypes, Views,
              B!TabViews, B!Views
<1>2. /\ queue' = <<>> /\ background' = {}
      /\ docs' = docs /\ req' = req /\ o = order
  BY <1>a DEF Quiet, vars
<1>3. \A r \in Requests : ~Announcing(r)'
  BY <1>a, <1>2 DEF Quiet, Announcing, Active, At
<1>4. 1..Len(queue') = {} /\ Len(queue') = 0
  BY <1>2
<1>5. \A c \in Channels : Kept(c)' <=> Stored(c)
  BY <1>2 DEF Kept, Deleting, Stored
<1>6. \A c \in Channels : Listed(c)' <=> c \in B!IdsOf(all)
  BY <1>1 DEF Listed
<1>7. \A c \in Channels : c \in B!IdsOf(all) <=> Stored(c)
  BY <1>c DEF B!IdsOf
<1>8. ListedRight'
  BY <1>3, <1>4, <1>5, <1>6, <1>7 DEF ListedRight, Creating
<1>9. InOrder'
  <2>1. \A i, j \in 1..Len(w.channels) : i < j =>
          B!Before(w.channels[i].id, w.channels[j].id, o)
    BY <1>1, <1>2, <1>c
  <2>. QED
    BY <1>3, <1>4, <2>1 DEF InOrder
<1>10. ShownRight'
  <2>1. ASSUME NEW x \in B!ElementsOf(w.channels) \cup {w.current}
        PROVE  /\ x # Null /\ Version(x.id, x.doc)'
               /\ x.doc.text = docs'[x.id].text
    <3>1. PICK i \in 1..Len(all) : x = all[i]
      BY <1>1, <2>1 DEF B!ElementsOf
    <3>2. /\ x \in ChannelEntries /\ x.id \in Channels /\ Stored(x.id)
          /\ x.doc = docs[x.id]
      BY <1>b, <1>c, <3>1
    <3>3. docs[x.id] \in DocsOf(x.id) /\ docs[x.id] # Unborn
      BY <3>2 DEF ChatInv, Collections, StoredWhereItBelongs, Ids, Stored
    <3>. PICK c, doc : c = x.id /\ doc = x.doc
      OBVIOUS
    <3>4. Version(c, doc)'
      BY <1>2, <3>2, <3>3 DEF Version, Stored
    <3>. QED
      BY <1>2, <3>2, <3>4, EntryIsNoNull
  <2>. QED
    BY <2>1 DEF ShownRight
<1>11. CurrentListed'
  <2>1. w.current.id \in B!IdsOf(w.channels)
    BY <1>1 DEF B!IdsOf
  <2>. QED
    BY <2>1 DEF CurrentListed, Listed
<1>. QED
  BY <1>8, <1>9, <1>10, <1>11

-----------------------------------------------------------------------------
(* Every step keeps the list right.                                          *)

\* What holds of a tab that has loaded the list.
Right == ListedRight /\ InOrder /\ ShownRight /\ CurrentListed

\* The tab's own steps, and those of the service, take no event.
LEMMA NotReceived ==
  ASSUME Inv, [ChatNext]_chatVars, ~Receive
  PROVE  ~Consume
<1>a. queue \in Seq(Events)
  BY DEF Inv, TypeOK
<1>1. \/ \E r \in Requests : Arrive(r) \/ Advance(r)
      \/ \E b \in background : RunDeletion(b)
      \/ UNCHANGED vars
  BY DEF ChatNext, Serve, ShowUser, Join, FindChannels, FindMessages, Return,
         ShowChannels, ShowMessages, Click, Touch, chatVars
<1>2. queue' = queue \/ \E e : queue' = Append(queue, e)
  BY <1>1, ArriveReq
     DEF Advance, FindOne, Refuse, Throw, Proceed, ProceedDeleteChannel,
         Insert, Update, Delete, Reply, SendToMQ, RunDeletion, DeleteAll,
         DeleteChannelDoc, vars, Inv
<1>. SUFFICES ASSUME Consume PROVE FALSE
  OBVIOUS
<1>3. Len(queue') = Len(queue) - 1 /\ Len(queue) \in Nat
  BY <1>a DEF Consume
<1>4. ASSUME NEW e, queue' = Append(queue, e)
      PROVE  Len(queue') = Len(queue) + 1
  BY <1>a, <1>4
<1>. QED
  BY <1>2, <1>3, <1>4

\* The identifiers of what is announced and listed are those of channels.
LEMMA IdsOfChannels ==
  ASSUME ChatInv
  PROVE  /\ \A i \in 1..Len(queue) : NewAt(i) => queue[i].id \in Channels
         /\ \A i \in 1..Len(view.channels) : view.channels[i].id \in Channels
<1>1. \A i \in 1..Len(queue) : NewAt(i) => queue[i].id \in Channels
  BY DEF ChatInv, Collections, AnnouncedAsStored, Announced, NewAt
<1>2. view.channels \in Seq(ChannelEntries)
  BY OtherViews DEF ChatInv, ChatTypes
<1>3. \A x \in ChannelEntries : x.id \in Channels
  BY DEF ChannelEntries
<1>. QED
  BY <1>1, <1>2, <1>3

\* A step that takes no event leaves the list right.
LEMMA UnheardStep ==
  ASSUME ChatInv, CalmInv, OneByOne, Loaded, Undisturbed, ~Consume,
         Serve \/ UNCHANGED <<docs, order>>,
         view'.channels = view.channels,
         view'.current \in B!ElementsOf(view.channels) \cup {view.current}
  PROVE  Right'
<1>a. /\ Inv /\ Natural /\ AnnouncedGoing /\ mqChannel = "open"
      /\ ListedRight /\ InOrder /\ ShownRight /\ CurrentListed
  BY DEF ChatInv, CalmInv
<1>1. Heeded /\ Arranged
  BY DEF Heeded, Arranged, Listed
<1>2. ListedRight'
  BY <1>a, <1>1, ListedRightStep
<1>3. InOrder'
  BY <1>a, <1>1, IdsOfChannels, InOrderStep
<1>4. ShownRight'
  BY <1>a, UnheardRight
<1>5. CurrentListed'
  <2>1. view'.current.id \in B!IdsOf(view'.channels)
    BY <1>a DEF CurrentListed, Listed, B!ElementsOf, B!IdsOf
  <2>. QED
    BY <2>1 DEF CurrentListed, Listed
<1>. QED
  BY <1>2, <1>3, <1>4, <1>5 DEF Right

\* So does hearing of an event.
LEMMA HeardStep ==
  ASSUME ChatInv, ChatInv', CalmInv, OneByOne, Receive
  PROVE  Right' /\ Loaded'
<1>. PICK e : e = Head(queue)
  OBVIOUS
<1>a. Loaded /\ Heeded /\ Consume /\ B!Follows(view', view, e)
  BY Heard
<1>b. /\ Inv /\ Natural /\ AnnouncedGoing /\ mqChannel = "open"
      /\ ListedRight /\ InOrder
  BY <1>a DEF ChatInv, CalmInv
<1>c. Undisturbed /\ UNCHANGED <<docs, order>>
  BY DEF Receive, Consume, Undisturbed
<1>1. ListedRight'
  BY <1>a, <1>b, <1>c, ListedRightStep
<1>2. InOrder'
  <2>1. Arranged
    BY <1>a DEF Arranged
  <2>. QED
    BY <1>a, <1>b, <1>c, <2>1, IdsOfChannels, InOrderStep
<1>. QED
  BY <1>1, <1>2, HeardRight, HeardListed DEF Right

\* Nothing happens while the tab is loading or fetching.
LEMMA PeaceStep ==
  ASSUME ChatInv, CalmInv, ~Overlaps, [ChatNext]_chatVars,
         Receive => Loaded'
  PROVE  LoadsInPeace'
<1>a. LoadsInPeace
  BY DEF CalmInv
<1>1. CASE ChatNext /\ ~Serve /\ ~Receive
  <2>1. /\ Quiet \/ Touch
        /\ UNCHANGED vars /\ Fetched'
    BY <1>1, TabSteps
  <2>2. Quiet' <=> Quiet
    BY <2>1 DEF Quiet, Active, vars
  <2>3. Touch => UNCHANGED <<fetches, joined, me>>
    BY DEF Touch
  <2>. QED
    BY <1>a, <2>1, <2>2, <2>3 DEF LoadsInPeace, Fetched
<1>2. CASE Serve
  <2>1. /\ fetches = {} /\ fetches' = {} /\ joined' /\ me' # Null
        /\ view' = view
    BY <1>2, ServesNotQuiet
  <2>. QED
    BY <1>a, <2>1 DEF LoadsInPeace, Loaded
<1>3. CASE Receive
  <2>1. ~Quiet
    BY <1>3 DEF Receive, Quiet, Consume
  <2>. QED
    BY <1>a, <1>3, <2>1 DEF LoadsInPeace, Receive
<1>4. CASE UNCHANGED chatVars
  <2>1. AllChannels' = AllChannels
    BY <1>4, FoundSame DEF chatVars, vars
  <2>2. Quiet' <=> Quiet
    BY <1>4 DEF chatVars, vars, Quiet, Active
  <2>. QED
    BY <1>a, <1>4, <2>1, <2>2 DEF chatVars, tabVars, LoadsInPeace, Loaded
<1>. QED
  BY <1>1, <1>2, <1>3, <1>4

\* Every step keeps the invariant, while the tab is calm.
LEMMA CalmStep ==
  ChatInv /\ ChatInv' /\ CalmInv /\ Calm /\ [ChatNext]_chatVars => CalmInv'
<1>. SUFFICES ASSUME ChatInv, ChatInv', CalmInv, Calm, [ChatNext]_chatVars
              PROVE  CalmInv'
  OBVIOUS
<1>a. Inv /\ Collections /\ ~Overlaps /\ OneByOne /\ Uncut
  BY DEF ChatInv, Calm
<1>b. Undisturbed
  BY ChatUndisturbed DEF chatVars, Undisturbed
<1>1. mqChannel' = "open" /\ AnnouncedGoing' /\ NamesCarried'
  BY <1>a, <1>b, OneByOneNames, StaysOpen, AnnouncedGoingStep,
     NamesCarriedStep DEF CalmInv
<1>2. Receive => Right' /\ Loaded'
  BY <1>a, HeardStep
<1>3. LoadsInPeace'
  BY <1>a, <1>2, PeaceStep
<1>4. ASSUME Loaded' PROVE Right'
  <2>1. CASE Receive
    BY <1>2, <2>1
  <2>2. CASE Serve /\ ~Receive
    <3>1. view' = view /\ ~Consume
      BY <1>a, <2>2, ServesNotQuiet, NotReceived
    <3>2. Loaded
      BY <1>4, <3>1 DEF Loaded
    <3>. QED
      BY <1>a, <1>b, <2>2, <3>1, <3>2, UnheardStep
  <2>3. CASE ChatNext /\ ~Serve /\ ~Receive
    <3>1. /\ UNCHANGED <<docs, order>> /\ ~Consume
          /\ \/ /\ view'.channels = view.channels
                /\ view'.current \in
                     B!ElementsOf(view.channels) \cup {view.current}
             \/ \E f \in fetches : ShowChannels(f)
      BY <1>a, <2>3, TabSteps, NotReceived DEF vars
    <3>2. CASE \E f \in fetches : ShowChannels(f)
      BY <1>a, <2>3, <3>2, ShownLoaded DEF Right
    <3>3. CASE /\ view'.channels = view.channels
               /\ view'.current \in
                    B!ElementsOf(view.channels) \cup {view.current}
      <4>1. Loaded
        BY <1>4, <3>3 DEF Loaded
      <4>. QED
        BY <1>a, <1>b, <3>1, <3>3, <4>1, UnheardStep
    <3>. QED
      BY <3>1, <3>2, <3>3
  <2>4. CASE UNCHANGED chatVars
    <3>1. /\ UNCHANGED <<docs, order>> /\ view' = view /\ Loaded
          /\ queue' = queue
      BY <1>4, <2>4 DEF chatVars, tabVars, vars, Loaded
    <3>2. ~Consume
      BY <1>a, <3>1 DEF Consume, Inv, TypeOK
    <3>. QED
      BY <1>a, <1>b, <3>1, <3>2, UnheardStep
  <2>. QED
    BY <2>1, <2>2, <2>3, <2>4
<1>. QED
  BY <1>1, <1>3, <1>4 DEF CalmInv, Right

\* At the beginning the tab is empty and fetching.
LEMMA CalmStart == ChatInit => CalmInv
<1>. SUFFICES ASSUME ChatInit PROVE CalmInv
  OBVIOUS
<1>1. AnnouncedGoing /\ NamesCarried /\ mqChannel = "open"
  BY UndisturbedInit, NamesCarriedInit DEF ChatInit
<1>2. Quiet
  BY DEF ChatInit, Init, Quiet, Active, NoRequest
<1>3. Fetch("channels", Null).kind = "channels"
      /\ Fetch("channels", Null).data = Null
  BY DEF Fetch
<1>4. ~Loaded
  BY DEF Loaded, ChatInit, Tab!EmptyView
<1>5. LoadsInPeace
  BY <1>2, <1>3 DEF LoadsInPeace, ChatInit
<1>. QED
  BY <1>1, <1>4, <1>5 DEF CalmInv

\* When everything has settled, the list is what a reload would show.
LEMMA SettledRight ==
  ASSUME ChatInv, CalmInv, Uncut, Settled
  PROVE  /\ view.channels = AllChannels
         /\ \E i \in 1..Len(view.channels) : view.channels[i] = view.current
<1>a. /\ queue = <<>> /\ background = {} /\ fetches = {}
      /\ \A r \in Requests : ~Active(r)
  BY DEF Settled, Quiet
<1>b. Loaded /\ ListedRight /\ InOrder /\ ShownRight /\ CurrentListed
  BY <1>a DEF CalmInv, LoadsInPeace
<1>c. /\ view.channels \in Seq(ChannelEntries)
      /\ view.current \in ChannelEntries
  BY <1>b, OtherViews DEF ChatInv, ChatTypes, ShownRight
<1>d. 1..Len(queue) = {}
  BY <1>a
<1>. DEFINE E    == ChannelEntries
            all  == AllChannels
            list == view.channels
            S    == {c \in Channels : Stored(c)}
<1>e. /\ all \in Seq(E)
      /\ \A i \in 1..Len(all) :
           all[i].id \in S /\ all[i].doc = docs[all[i].id]
      /\ \A c \in S : \E i \in 1..Len(all) : all[i].id = c
      /\ \A i, j \in 1..Len(all) :
           i < j => B!Before(all[i].id, all[j].id, order)
  BY FoundAll
<1>f. \A x \in E : x = [id |-> x.id, doc |-> x.doc] /\ x.id \in Channels
  BY DEF ChannelEntries
<1>1. \A c \in Channels : Kept(c) <=> c \in S
  BY <1>a DEF Kept, Deleting
<1>2. \A c \in Channels : ~Ahead(c) /\ ~Ending(c)
  BY <1>a, <1>d DEF Ahead, Ending, Creating, Announcing, Active, At
<1>3. \A c \in Channels : Listed(c) <=> c \in S
  BY <1>b, <1>1, <1>2 DEF ListedRight
<1>4. \A c \in Channels : NameTold(c)
  BY <1>a, <1>d DEF NameTold, Renaming, Carries, Active, At
<1>5. ASSUME NEW x \in E, Version(x.id, x.doc), x.id \in S,
             Stored(x.id) /\ NameTold(x.id) => x.doc.text = docs[x.id].text
      PROVE  x.doc = docs[x.id]
  <2>. PICK c, doc : c \in Channels /\ c = x.id /\ doc = x.doc
    BY <1>f
  <2>1. Stored(c) /\ NameTold(c)
    BY <1>4, <1>5
  <2>2. doc \in ChannelDocs /\ docs[c] \in ChannelDocs
    BY <1>5, <2>1 DEF Version, DocsOf, ChatInv, Collections,
                      StoredWhereItBelongs, Ids
  <2>3. /\ doc.text = docs[c].text /\ doc.creator = docs[c].creator
        /\ doc.channel = docs[c].channel
    BY <1>5, <2>1 DEF Version
  <2>. QED
    BY <2>2, <2>3 DEF ChannelDocs
<1>6. \A i \in 1..Len(list) :
        list[i] \in E /\ list[i].id \in S /\ list[i].doc = docs[list[i].id]
  <2>. SUFFICES ASSUME NEW i \in 1..Len(list), NEW x, x = list[i]
                PROVE  x \in E /\ x.id \in S /\ x.doc = docs[x.id]
    OBVIOUS
  <2>1. x \in E /\ x \in B!ElementsOf(list)
    BY <1>c DEF B!ElementsOf
  <2>2. x.id \in B!IdsOf(list) /\ x.id \in Channels
    BY <1>f, <2>1 DEF B!IdsOf
  <2>3. x.id \in S
    BY <1>3, <2>2 DEF Listed
  <2>. HIDE DEF S, E
  <2>. QED
    BY <1>5, <1>b, <2>1, <2>3 DEF ShownRight
<1>7. \A c \in S : \E i \in 1..Len(list) : list[i].id = c
  BY <1>3 DEF Listed, B!IdsOf
<1>8. \A i, j \in 1..Len(list) :
        i < j => B!Before(list[i].id, list[j].id, order)
  BY <1>b DEF InOrder
<1>9. list = all
  <2>. DEFINE t == [i \in 1..Len(list) |-> list[i].id]
              u == [i \in 1..Len(all) |-> all[i].id]
  <2>. HIDE DEF S, E, all, list
  <2>a. list \in Seq(E) /\ all \in Seq(E) /\ S \subseteq Ids
    BY <1>c, <1>e DEF S, E, all, list, Ids
  <2>1. /\ t \in Seq(Ids) /\ Len(t) = Len(list)
        /\ \A i \in 1..Len(list) : t[i] = list[i].id
    BY <1>6, <2>a
  <2>2. /\ u \in Seq(Ids) /\ Len(u) = Len(all)
        /\ \A i \in 1..Len(all) : u[i] = all[i].id
    BY <1>e, <2>a
  <2>. HIDE DEF t, u
  <2>3. B!Ordered(t, order) /\ B!ElementsOf(t) = S
    BY <1>6, <1>7, <1>8, <2>1 DEF B!Ordered, B!ElementsOf
  <2>4. B!Ordered(u, order) /\ B!ElementsOf(u) = S
    BY <1>e, <2>2 DEF B!Ordered, B!ElementsOf
  <2>5. order \in Seq(Ids) /\ B!Distinct(order)
    BY DEF ChatInv, Natural
  <2>6. t = u
    BY <2>1, <2>2, <2>3, <2>4, <2>5, B!SameOrder
  <2>7. Len(list) = Len(all)
    BY <2>1, <2>2, <2>6
  <2>8. \A i \in 1..Len(list) : list[i] = all[i]
    BY <1>6, <1>e, <1>f, <2>1, <2>2, <2>6, <2>7, <2>a
  <2>. QED
    BY <2>7, <2>8, <2>a
<1>10. \E i \in 1..Len(list) : list[i] = view.current
  <2>. PICK k : k = view.current
    OBVIOUS
  <2>1. k \in E /\ k.id \in Channels
    BY <1>c, <1>f
  <2>2. PICK i \in 1..Len(list) : list[i].id = k.id
    BY <1>b DEF CurrentListed, Listed, B!IdsOf
  <2>3. k.id \in S
    BY <1>6, <2>2
  <2>4. k.doc = docs[k.id]
    <3>. HIDE DEF S, E
    <3>. QED
      BY <1>5, <1>b, <2>1, <2>3 DEF ShownRight
  <2>5. list[i] = k
    BY <1>6, <1>f, <2>1, <2>2, <2>4
  <2>. QED
    BY <2>5
<1>. QED
  BY <1>9, <1>10

-----------------------------------------------------------------------------
(* The messages, while requests are served one at a time.  The deletions     *)
(* nobody waits for are still executed at any moment.  An event is to be     *)
(* heard of from the write on that it announces, though it is sent later.    *)

InTurn == \A r, s \in Requests : Active(r) /\ Active(s) => r = s

Answering == \E r \in Requests : At(r, "reply")

Answer == EventOf(req[CHOOSE r \in Requests : At(r, "reply")])

\* What the tab has still to hear of: the events in the queue, and the one
\* about to be sent.
Stream == IF Answering THEN Append(queue, Answer) ELSE queue

\* An event of this type about id is in the sequence s ...
IsComing(s, type, id) ==
  \E i \in 1..Len(s) : s[i].type = type /\ s[i].id = id

\* ... after its i-th.
Followed(s, i, type, id) ==
  \E j \in 1..Len(s) : i < j /\ s[j].type = type /\ s[j].id = id

\* The one request about to be answered is the one chosen.
LEMMA TheAnswer ==
  ASSUME NEW f, NEW r \in Requests, f[r].pc = "reply",
         \A s \in Requests : f[s].pc = "reply" => s = r
  PROVE  (CHOOSE s \in Requests : f[s].pc = "reply") = r
  OBVIOUS

\* What is to be heard of, before a step and after it.
LEMMA StreamIs ==
  /\ InTurn => \A r \in Requests : At(r, "reply") =>
                 Stream = Append(queue, EventOf(req[r]))
  /\ (\A r \in Requests : ~At(r, "reply")) => Stream = queue
  /\ InTurn' => \A r \in Requests : At(r, "reply")' =>
                  Stream' = Append(queue', EventOf(req'[r]))
  /\ (\A r \in Requests : ~At(r, "reply")') => Stream' = queue'
<1>1. ASSUME InTurn, NEW r \in Requests, At(r, "reply")
      PROVE  Stream = Append(queue, EventOf(req[r]))
  <2>1. \A s \in Requests : req[s].pc = "reply" => s = r
    BY <1>1 DEF InTurn, At, Active
  <2>2. (CHOOSE s \in Requests : req[s].pc = "reply") = r
    BY <1>1, <2>1, TheAnswer DEF At
  <2>. QED
    BY <1>1, <2>2 DEF Stream, Answering, Answer, At
<1>2. ASSUME InTurn', NEW r \in Requests, At(r, "reply")'
      PROVE  Stream' = Append(queue', EventOf(req'[r]))
  <2>1. \A s \in Requests : req'[s].pc = "reply" => s = r
    BY <1>2 DEF InTurn, At, Active
  <2>2. (CHOOSE s \in Requests : req'[s].pc = "reply") = r
    BY <1>2, <2>1, TheAnswer DEF At
  <2>. QED
    BY <1>2, <2>2 DEF Stream, Answering, Answer, At
<1>. QED
  BY <1>1, <1>2 DEF Stream, Answering

\* It is about documents of its types.
LEMMA StreamAnnounced ==
  ASSUME Inv, Collections, InTurn
  PROVE  /\ Stream \in Seq(Events)
         /\ \A i \in 1..Len(Stream) : Announced(Stream[i])
<1>1. queue \in Seq(Events) /\ \A i \in 1..Len(queue) : Announced(queue[i])
  BY DEF Inv, TypeOK, Collections, AnnouncedAsStored
<1>2. ASSUME NEW r \in Requests, At(r, "reply")
      PROVE  /\ Stream \in Seq(Events)
             /\ \A i \in 1..Len(Stream) : Announced(Stream[i])
  <2>1. /\ req[r].op \in Posts \cup Edits /\ InHand(req[r])
        /\ IF req[r].op \in {"postMessage", "patchMessage", "deleteMessage"}
           THEN req[r].id \in Messages ELSE req[r].id \in Channels
    BY <1>2 DEF Inv, Kinds, At, Active, Collections, CarriedAlong
  <2>2. Announced(EventOf(req[r]))
    BY <1>2, <2>1 DEF Announced, EventOf, Event, Posts, Edits, InHand, At
  <2>3. EventOf(req[r]) \in Events
    BY <1>2, EventOfType DEF Inv
  <2>4. Stream = Append(queue, EventOf(req[r]))
    BY <1>2, StreamIs
  <2>. HIDE DEF Stream
  <2>. QED
    BY <1>1, <2>2, <2>3, <2>4
<1>. QED
  BY <1>1, <1>2, StreamIs

\* An event that carries a version of a message.
Versioned(e) == e.type \in {"message-new", "message-update"} /\ e.doc # Null

\* A message is posted to a channel that exists or existed.
PostsHomed ==
  \A r \in Requests : At(r, "write") /\ req[r].op = "postMessage" =>
    docs[req[r].channel] # Unborn

\* The channels whose messages are being deleted are gone or being deleted.
AllGoing == \A b \in background : GoneOrGoing(b.id)

\* What has been done to the messages when e is about to be sent.
Announces(e) ==
  \/ /\ e.type \notin {"message-new", "message-delete"} /\ ~Versioned(e)
     /\ e.type = "channel-new" => docs[e.id] = Unborn
     /\ \A m \in Messages : docs'[m] = docs[m]
  \/ /\ Versioned(e) /\ e.id \in Messages /\ docs'[e.id] = e.doc
     /\ \A m \in Messages \ {e.id} : docs'[m] = docs[m]
     /\ e.type = "message-new" =>
          docs[e.id] = Unborn /\ docs[e.doc.channel] # Unborn
     /\ e.type = "message-update" => Stored(e.id)
  \/ /\ e.type = "message-delete" /\ e.id \in Messages /\ docs'[e.id] = Gone
     /\ \A m \in Messages \ {e.id} : docs'[m] = docs[m]

\* Without a change, or with the deletions of a channel that nobody waits for.
Unannounced ==
  \A m \in Messages :
    \/ docs'[m] = docs[m]
    \/ Stored(m) /\ docs'[m] = Gone /\ GoneOrGoing(docs[m].channel)

\* What a step of the service does to what is to be heard of.
StreamMoves ==
  IF Consume THEN /\ Stream # <<>> /\ Head(Stream) = Head(queue)
                  /\ Stream' = Tail(Stream)
  ELSE \/ Stream' = Stream /\ Unannounced
       \/ \E e \in Events : Stream' = Append(Stream, e) /\ Announces(e)

\* What is to be heard of stays, with the requests about to be answered.
LEMMA StreamSame ==
  ASSUME InTurn, InTurn', queue' = queue,
         \A s \in Requests : At(s, "reply")' <=> At(s, "reply"),
         \A s \in Requests : At(s, "reply") => req'[s] = req[s]
  PROVE  Stream' = Stream
<1>1. ASSUME NEW s \in Requests, At(s, "reply") PROVE Stream' = Stream
  BY <1>1, StreamIs
<1>. QED
  BY <1>1, StreamIs

\* The write of a request, when it is its turn, is what it will announce.
LEMMA WriteStep ==
  ASSUME Inv, Collections, InTurn, InTurn', PostsHomed, NEW r \in Requests,
         Insert(r) \/ Update(r) \/ Delete(r)
  PROVE  \E e \in Events : Stream' = Append(Stream, e) /\ Announces(e)
<1>. DEFINE q == req[r]
            e == EventOf(req'[r])
<1>a. /\ TypeOK /\ Kinds /\ q.pc = "write" /\ queue' = queue
      /\ q.op \in Posts \cup Edits
  BY DEF Inv, Insert, Update, Delete, At, Posts, Edits
<1>b. PICK seen \in Doc \cup {Null} : Move(r, "reply", seen)
  BY <1>a, WriteReturns
<1>c. /\ req'[r].pc = "reply" /\ req'[r].seen = seen /\ req'[r].op = q.op
      /\ req'[r].id = q.id
  BY <1>a, <1>b, MoveReq DEF Phases
<1>d. /\ IF q.op \in {"postMessage", "patchMessage", "deleteMessage"}
         THEN q.id \in Messages ELSE q.id \in Channels
      /\ q.id \in Ids /\ docs \in [Ids -> Doc \cup {Unborn, Gone}]
      /\ q.op = "patchMessage" => q.text \in Bodies
      /\ q.op = "postMessage" => q.channel \in Channels
  BY <1>a DEF Kinds, Active, Ids, TypeOK, Collections, CarriedAlong, Arguments
<1>1. Stream' = Append(Stream, e)
  <2>1. \A s \in Requests : ~At(s, "reply")
    BY <1>a DEF InTurn, Active, At
  <2>2. Stream = queue
    BY <2>1, StreamIs
  <2>3. Stream' = Append(queue', e)
    BY <1>c, StreamIs DEF At
  <2>. QED
    BY <1>a, <2>2, <2>3
<1>2. e \in Events
  <2>1. seen \in Doc \cup {Null} /\ q.id \in Ids
    BY <1>d
  <2>. QED
    BY <1>a, <1>c, <2>1 DEF EventOf, Event, Events, EventTypes, Posts, Edits
<1>3. CASE Insert(r)
  <2>. DEFINE doc == [creator |-> q.user, text |-> q.text,
                      channel |-> q.channel]
  <2>1. /\ docs' = [docs EXCEPT ![q.id] = doc] /\ q.op \in Posts
        /\ Move(r, "reply", doc)
    BY <1>3 DEF Insert, Posts
  <2>2. doc \in Doc
    BY <1>a, <2>1 DEF TypeOK, Reqs, Kinds, Doc, Posts
  <2>3. seen = doc
    BY <1>a, <1>c, <2>1, <2>2, MoveReq DEF Phases
  <2>4. docs[q.id] = Unborn
    BY <1>a, <2>1 DEF Inv, NewIds, Inserting
  <2>5. CASE q.op = "postChannel"
    <3>1. e = Event("channel-new", q.id, seen)
      BY <1>c, <2>5 DEF EventOf
    <3>2. \A m \in Messages : docs'[m] = docs[m]
      BY <1>d, <2>1, <2>5, ConstantsDistinct DEF Ids
    <3>3. Announces(e)
      BY <2>4, <3>1, <3>2 DEF Announces, Event, Versioned
    <3>. QED
      BY <1>1, <1>2, <3>3
  <2>6. CASE q.op = "postMessage"
    <3>1. e = Event("message-new", q.id, seen)
      BY <1>c, <2>6 DEF EventOf
    <3>2. /\ docs'[q.id] = doc
          /\ \A m \in Messages \ {q.id} : docs'[m] = docs[m]
      BY <1>d, <2>1 DEF Ids
    <3>3. docs[doc.channel] # Unborn
      BY <1>a, <2>6 DEF PostsHomed, At
    <3>4. seen # Null
      BY <2>2, <2>3, ConstantsDistinct
    <3>5. Announces(e)
      BY <1>d, <2>3, <2>4, <2>6, <3>1, <3>2, <3>3, <3>4
         DEF Announces, Event, Versioned
    <3>. QED
      BY <1>1, <1>2, <3>5
  <2>. QED
    BY <2>1, <2>5, <2>6 DEF Posts
<1>4. CASE Update(r)
  <2>. DEFINE doc == Updated(q.id, q.text)
              found == IF Stored(q.id) THEN doc ELSE Null
  <2>1. /\ docs' = [docs EXCEPT ![q.id] = doc]
        /\ q.op \in {"patchChannel", "patchMessage"}
        /\ Move(r, "reply", found)
    BY <1>4 DEF Update
  <2>2. Stored(q.id) => doc \in Doc
    BY <1>a, <1>d DEF TypeOK, Updated, Stored, Doc, Reqs
  <2>3. found \in Doc \cup {Null}
    BY <2>2
  <2>4. seen = found
    BY <1>a, <1>c, <2>1, <2>3, MoveReq DEF Phases
  <2>5. CASE q.op = "patchChannel"
    <3>1. e.type = "channel-update"
      BY <1>c, <2>5 DEF EventOf, Event
    <3>2. \A m \in Messages : docs'[m] = docs[m]
      BY <1>d, <2>1, <2>5, ConstantsDistinct DEF Ids
    <3>3. Announces(e)
      BY <3>1, <3>2 DEF Announces, Versioned
    <3>. QED
      BY <1>1, <1>2, <3>3
  <2>6. CASE q.op = "patchMessage"
    <3>1. e = Event("message-update", IF seen = Null THEN Null ELSE q.id, seen)
      BY <1>c, <2>6 DEF EventOf
    <3>2. /\ docs'[q.id] = doc
          /\ \A m \in Messages \ {q.id} : docs'[m] = docs[m]
      BY <1>d, <2>1 DEF Ids
    <3>3. CASE Stored(q.id)
      <4>1. seen = doc /\ seen # Null
        BY <2>2, <2>4, <3>3, ConstantsDistinct
      <4>2. Announces(e)
        BY <1>d, <2>6, <3>1, <3>2, <3>3, <4>1 DEF Announces, Event, Versioned
      <4>. QED
        BY <1>1, <1>2, <4>2
    <3>4. CASE ~Stored(q.id)
      <4>1. seen = Null /\ doc = docs[q.id]
        BY <2>4, <3>4 DEF Updated
      <4>2. \A m \in Messages : docs'[m] = docs[m]
        BY <3>2, <4>1
      <4>3. Announces(e)
        BY <3>1, <4>1, <4>2 DEF Announces, Event, Versioned
      <4>. QED
        BY <1>1, <1>2, <4>3
    <3>. QED
      BY <3>3, <3>4
  <2>. QED
    BY <2>1, <2>5, <2>6
<1>5. CASE Delete(r)
  <2>1. docs' = [docs EXCEPT ![q.id] = Gone] /\ q.op = "deleteMessage"
    BY <1>5 DEF Delete
  <2>2. e = Event("message-delete", q.id, Null)
    BY <1>c, <2>1 DEF EventOf
  <2>3. /\ docs'[q.id] = Gone
        /\ \A m \in Messages \ {q.id} : docs'[m] = docs[m]
    BY <1>d, <2>1 DEF Ids
  <2>4. Announces(e)
    BY <1>d, <2>1, <2>2, <2>3 DEF Announces, Event
  <2>. QED
    BY <1>1, <1>2, <2>4
<1>. QED
  BY <1>3, <1>4, <1>5

\* A step changes nothing there is to be heard of, or changes a message and
\* adds the event that announces it, or takes the next event to the tab.
LEMMA StreamStep ==
  ASSUME Inv, Collections, Undisturbed, mqChannel = "open", InTurn, InTurn',
         PostsHomed, AllGoing
  PROVE  StreamMoves
<1>a. TypeOK /\ Kinds /\ queue \in Seq(Events)
  BY DEF Inv, TypeOK
<1>1. ASSUME NEW r \in Requests, Arrive(r)
      PROVE  Stream' = Stream /\ Unannounced
  <2>1. /\ UNCHANGED <<docs, background, queue, mqChannel>>
        /\ \A s \in Requests \ {r} : req'[s] = req[s]
        /\ ~Active(r) /\ req'[r].pc \in {"write", "find"}
    BY <1>a, <1>1, ArriveReq
  <2>2. /\ \A s \in Requests : At(s, "reply")' <=> At(s, "reply")
        /\ \A s \in Requests : At(s, "reply") => req'[s] = req[s]
    BY <2>1 DEF At, Active
  <2>. QED
    BY <2>1, <2>2, StreamSame DEF Unannounced
<1>2. ASSUME NEW r \in Requests, FindOne(r) \/ Proceed(r)
      PROVE  Stream' = Stream /\ Unannounced
  <2>1. /\ UNCHANGED <<docs, background, queue, mqChannel>>
        /\ \E pc \in {"check", "write"}, seen \in Doc \cup {Null} :
             Move(r, pc, seen)
        /\ req[r].pc \in {"find", "check"}
    BY <1>a, <1>2, MoveOn DEF FindOne, Proceed, At
  <2>2. /\ \A s \in Requests \ {r} : req'[s] = req[s]
        /\ req'[r].pc \in {"check", "write"}
    BY <1>a, <2>1, MoveReq DEF Phases
  <2>3. /\ \A s \in Requests : At(s, "reply")' <=> At(s, "reply")
        /\ \A s \in Requests : At(s, "reply") => req'[s] = req[s]
    BY <2>1, <2>2 DEF At
  <2>. QED
    BY <2>1, <2>3, StreamSame DEF Unannounced
<1>3. ASSUME NEW r \in Requests, Refuse(r) \/ Throw(r)
      PROVE  Stream' = Stream /\ Unannounced
  <2>1. /\ docs' = docs /\ queue' = queue /\ req[r].pc = "check"
        /\ \A s \in Requests \ {r} : req'[s] = req[s]
        /\ req'[r].pc = "idle"
    BY <1>a, <1>3, EndReq DEF Refuse, Throw, At
  <2>2. /\ \A s \in Requests : At(s, "reply")' <=> At(s, "reply")
        /\ \A s \in Requests : At(s, "reply") => req'[s] = req[s]
    BY <2>1 DEF At
  <2>. QED
    BY <2>1, <2>2, StreamSame DEF Unannounced
<1>4. ASSUME NEW r \in Requests, ProceedDeleteChannel(r)
      PROVE  \E e \in Events : Stream' = Append(Stream, e) /\ Announces(e)
  <2>. DEFINE e == Event("channel-delete", req[r].id, Null)
  <2>1. /\ docs' = docs /\ queue' = Append(queue, e) /\ req[r].pc = "check"
        /\ \A s \in Requests \ {r} : req'[s] = req[s]
        /\ req'[r].pc = "idle" /\ req[r].id \in Ids
    BY <1>a, <1>4, EndReq
       DEF ProceedDeleteChannel, SendToMQ, At, Kinds, Active, Ids
  <2>2. e \in Events /\ Announces(e)
    BY <2>1 DEF Events, EventTypes, Event, Announces, Versioned
  <2>3. \A s \in Requests : ~At(s, "reply") /\ ~At(s, "reply")'
    BY <2>1 DEF At, InTurn, Active
  <2>4. Stream = queue /\ Stream' = queue'
    BY <2>3, StreamIs
  <2>. QED
    BY <2>1, <2>2, <2>4
<1>5. ASSUME NEW r \in Requests, Reply(r)
      PROVE  Stream' = Stream /\ Unannounced
  <2>1. /\ docs' = docs /\ queue' = Append(queue, EventOf(req[r]))
        /\ req[r].pc = "reply" /\ req'[r].pc = "idle"
        /\ \A s \in Requests \ {r} : req'[s] = req[s]
    BY <1>a, <1>5, EndReq DEF Reply, SendToMQ, At
  <2>2. \A s \in Requests : ~At(s, "reply")'
    BY <2>1 DEF At, InTurn, Active
  <2>3. Stream' = queue' /\ Stream = Append(queue, EventOf(req[r]))
    BY <2>1, <2>2, StreamIs DEF At
  <2>. QED
    BY <2>1, <2>3 DEF Unannounced
<1>6. ASSUME NEW b \in background, RunDeletion(b)
      PROVE  Stream' = Stream /\ Unannounced
  <2>1. req' = req /\ queue' = queue
    BY <1>6 DEF RunDeletion, DeleteAll, DeleteChannelDoc
  <2>2. Stream' = Stream
    BY <2>1, StreamSame DEF At
  <2>3. CASE DeleteAll(b)
    <3>1. docs' = [d \in Ids |->
            IF d \in Messages /\ Stored(d) /\ docs[d].channel = b.id
            THEN Gone ELSE docs[d]]
      BY <2>3 DEF DeleteAll
    <3>. QED
      BY <2>2, <3>1 DEF Unannounced, AllGoing, Ids
  <2>4. CASE DeleteChannelDoc(b)
    <3>1. docs' = [docs EXCEPT ![b.id] = Gone] /\ b.id \in Channels
      BY <1>a, <2>4 DEF DeleteChannelDoc, TypeOK, Deletions
    <3>2. \A m \in Messages : docs'[m] = docs[m]
      BY <1>a, <3>1, ConstantsDistinct DEF TypeOK, Ids
    <3>. QED
      BY <2>2, <3>2 DEF Unannounced
  <2>. QED
    BY <1>6, <2>3, <2>4 DEF RunDeletion
<1>7. ASSUME Consume PROVE StreamMoves
  <2>1. /\ queue # <<>> /\ queue' = Tail(queue)
        /\ UNCHANGED <<docs, req, background>>
    BY <1>7 DEF Consume
  <2>2. ASSUME NEW r \in Requests, At(r, "reply")
        PROVE  /\ Stream # <<>> /\ Head(Stream) = Head(queue)
               /\ Stream' = Tail(Stream)
    <3>. DEFINE e == EventOf(req[r])
    <3>1. e \in Events
      BY <1>a, <2>2, EventOfType
    <3>2. Stream = Append(queue, e) /\ Stream' = Append(Tail(queue), e)
      BY <2>1, <2>2, StreamIs DEF At
    <3>. HIDE DEF e, Stream
    <3>3. /\ Append(queue, e) # <<>> /\ Head(Append(queue, e)) = Head(queue)
          /\ Append(Tail(queue), e) = Tail(Append(queue, e))
      BY <1>a, <2>1, <3>1
    <3>. QED
      BY <3>2, <3>3
  <2>3. CASE \A r \in Requests : ~At(r, "reply")
    <3>1. Stream = queue /\ Stream' = queue'
      BY <2>1, <2>3, StreamIs DEF At
    <3>. QED
      BY <1>7, <2>1, <3>1 DEF StreamMoves
  <2>. QED
    BY <1>7, <2>2, <2>3 DEF StreamMoves
<1>8. ASSUME UNCHANGED vars
      PROVE  Stream' = Stream /\ Unannounced
  <2>1. UNCHANGED <<docs, req, queue>>
    BY <1>8 DEF vars
  <2>. QED
    BY <2>1, StreamSame DEF Unannounced, At
<1>9. ASSUME NEW r \in Requests, Insert(r) \/ Update(r) \/ Delete(r)
      PROVE  \E e \in Events : Stream' = Append(Stream, e) /\ Announces(e)
  BY <1>9, WriteStep
<1>. QED
  BY <1>1, <1>2, <1>3, <1>4, <1>5, <1>6, <1>7, <1>8, <1>9
     DEF Undisturbed, Advance, StreamMoves

\* When an event is added to what is to be heard of.
LEMMA StreamAdded ==
  ASSUME Stream \in Seq(Events), NEW e \in Events,
         Stream' = Append(Stream, e)
  PROVE  /\ Len(Stream) \in Nat /\ Len(Stream') = Len(Stream) + 1
         /\ Stream'[Len(Stream) + 1] = e
         /\ \A i \in 1..Len(Stream) :
              i \in 1..Len(Stream') /\ Stream'[i] = Stream[i]
         /\ \A i \in 1..Len(Stream') :
              i \in 1..Len(Stream) \/ i = Len(Stream) + 1
         /\ \A type, id :
              IsComing(Stream', type, id) <=>
                IsComing(Stream, type, id) \/ (e.type = type /\ e.id = id)
         /\ \A type, id : \A i \in 1..Len(Stream) :
              Followed(Stream, i, type, id) \/ (e.type = type /\ e.id = id) =>
                Followed(Stream', i, type, id)
<1>1. /\ Len(Stream) \in Nat /\ Len(Stream') = Len(Stream) + 1
      /\ Stream'[Len(Stream) + 1] = e
      /\ \A i \in 1..Len(Stream) : Stream'[i] = Stream[i]
  OBVIOUS
<1>2. /\ 1..Len(Stream') = 1..Len(Stream) \cup {Len(Stream) + 1}
      /\ \A i \in 1..Len(Stream) : i < Len(Stream) + 1
  BY <1>1
<1>3. ASSUME NEW type, NEW id
      PROVE  IsComing(Stream', type, id) <=>
               IsComing(Stream, type, id) \/ (e.type = type /\ e.id = id)
  BY <1>1, <1>2 DEF IsComing
<1>4. ASSUME NEW type, NEW id, NEW i \in 1..Len(Stream),
             Followed(Stream, i, type, id) \/ (e.type = type /\ e.id = id)
      PROVE  Followed(Stream', i, type, id)
  BY <1>1, <1>2, <1>4 DEF Followed
<1>. QED
  BY <1>1, <1>2, <1>3, <1>4

\* When the next one is taken.
LEMMA StreamTaken ==
  ASSUME Stream \in Seq(Events), Stream # <<>>, Stream' = Tail(Stream)
  PROVE  /\ 1 \in 1..Len(Stream) /\ Stream[1] = Head(Stream)
         /\ Head(Stream) \in Events
         /\ \A i \in 1..Len(Stream') :
              i + 1 \in 1..Len(Stream) /\ Stream'[i] = Stream[i + 1]
         /\ \A type, id :
              IsComing(Stream', type, id) => IsComing(Stream, type, id)
         /\ \A type, id : IsComing(Stream, type, id) =>
              \/ IsComing(Stream', type, id)
              \/ Stream[1].type = type /\ Stream[1].id = id
         /\ \A type, id :
              Followed(Stream, 1, type, id) => IsComing(Stream', type, id)
         /\ \A type, id : \A i \in 1..Len(Stream') :
              Followed(Stream, i + 1, type, id) =>
                Followed(Stream', i, type, id)
<1>1. PICK n \in Nat : n = Len(Stream)
  OBVIOUS
<1>2. /\ 1 \in 1..n /\ Stream[1] = Head(Stream) /\ Head(Stream) \in Events
      /\ Len(Stream') = n - 1 /\ \A i \in 1..n - 1 : Stream'[i] = Stream[i + 1]
  BY <1>1
<1>3. /\ \A i \in 1..Len(Stream') : i + 1 \in 1..n /\ Stream'[i] = Stream[i + 1]
      /\ \A j \in 1..n : j # 1 =>
           j - 1 \in 1..Len(Stream') /\ Stream'[j - 1] = Stream[j]
      /\ \A i, j \in 1..n : i < j => j # 1 /\ i < j
      /\ \A i, j \in 1..n : i + 1 < j => i < j - 1
  BY <1>1, <1>2
<1>4. ASSUME NEW type, NEW id
      PROVE  /\ IsComing(Stream', type, id) => IsComing(Stream, type, id)
             /\ IsComing(Stream, type, id) =>
                  \/ IsComing(Stream', type, id)
                  \/ Stream[1].type = type /\ Stream[1].id = id
  <2>1. ASSUME NEW i \in 1..Len(Stream'),
               Stream'[i].type = type, Stream'[i].id = id
        PROVE  IsComing(Stream, type, id)
    BY <1>1, <1>3, <2>1 DEF IsComing
  <2>2. ASSUME NEW j \in 1..n, Stream[j].type = type, Stream[j].id = id, j # 1
        PROVE  IsComing(Stream', type, id)
    BY <1>3, <2>2 DEF IsComing
  <2>. QED
    BY <1>1, <2>1, <2>2 DEF IsComing
<1>5. ASSUME NEW type, NEW id, Followed(Stream, 1, type, id)
      PROVE  IsComing(Stream', type, id)
  BY <1>1, <1>2, <1>3, <1>5 DEF Followed, IsComing
<1>6. ASSUME NEW type, NEW id, NEW i \in 1..Len(Stream'),
             Followed(Stream, i + 1, type, id)
      PROVE  Followed(Stream', i, type, id)
  <2>1. PICK j \in 1..n :
          i + 1 < j /\ Stream[j].type = type /\ Stream[j].id = id
    BY <1>1, <1>6 DEF Followed
  <2>2. j - 1 \in 1..Len(Stream') /\ i < j - 1 /\ Stream'[j - 1] = Stream[j]
    BY <1>1, <1>2, <1>3, <2>1
  <2>. QED
    BY <2>1, <2>2 DEF Followed
<1>. QED
  BY <1>1, <1>2, <1>3, <1>4, <1>5, <1>6

-----------------------------------------------------------------------------
(* What is to be heard of is right.                                          *)

\* A message belongs to a channel that exists or existed, stored or announced.
Homed ==
  /\ \A m \in Messages : Stored(m) => docs[docs[m].channel] # Unborn
  /\ \A i \in 1..Len(Stream) : Stream[i].type = "message-new" =>
       docs[Stream[i].doc.channel] # Unborn

\* A channel is announced before its messages, and messages are announced in
\* the order of their insertion.
InTime ==
  /\ \A i, j \in 1..Len(Stream) :
       /\ Stream[i].type = "channel-new" /\ Stream[j].type = "message-new"
       /\ Stream[j].doc.channel = Stream[i].id
       => i < j
  /\ \A i, j \in 1..Len(Stream) :
       /\ i < j
       /\ Stream[i].type = "message-new" /\ Stream[j].type = "message-new"
       => B!Before(Stream[i].id, Stream[j].id, order)

\* An event carries the body a message has, or a later one does.
CarriedRight ==
  \A i \in 1..Len(Stream) :
    Versioned(Stream[i]) /\ Stored(Stream[i].id) =>
      \/ Stream[i].doc.text = docs[Stream[i].id].text
      \/ Followed(Stream, i, "message-update", Stream[i].id)

\* A message is not deleted before it is announced, unless its channel is.
DeletedLater ==
  \A i \in 1..Len(Stream) :
    /\ Stream[i].type = "message-new"
    /\ ~GoneOrGoing(Stream[i].doc.channel)
    => \/ Stored(Stream[i].id)
       \/ Followed(Stream, i, "message-delete", Stream[i].id)

\* When a channel is still to be announced, so are its messages.
AllAhead ==
  \A c \in Channels, m \in Messages :
    /\ IsComing(Stream, "channel-new", c)
    /\ Stored(m) /\ docs[m].channel = c
    => IsComing(Stream, "message-new", m)

StreamRight ==
  /\ PostsHomed /\ AllGoing /\ Homed /\ InTime /\ CarriedRight
  /\ DeletedLater /\ AllAhead

\* What the events say of the documents.
LEMMA StreamMeans ==
  ASSUME Inv, Collections, InTurn
  PROVE  /\ Stream \in Seq(Events)
         /\ \A i \in 1..Len(Stream) :
              /\ Stream[i].type = "message-new" => Versioned(Stream[i])
              /\ Stream[i].type = "channel-new" => Stream[i].id \in Channels
              /\ Stream[i].type = "message-delete" => Stream[i].id \in Messages
              /\ Stream[i].type = "message-update" /\ ~Versioned(Stream[i]) =>
                   Stream[i].id \notin Messages
              /\ Versioned(Stream[i]) =>
                   /\ Stream[i].id \in Messages
                   /\ Version(Stream[i].id, Stream[i].doc)
                   /\ Stream[i].doc \in MessageDocs
                   /\ Stream[i].doc.channel \in Channels
                   /\ docs[Stream[i].id] # Unborn
<1>1. \A m \in Messages : \A doc : Version(m, doc) =>
        doc \in MessageDocs /\ doc.channel \in Channels /\ docs[m] # Unborn
  BY ConstantsDistinct DEF Version, DocsOf, MessageDocs
<1>2. /\ Stream \in Seq(Events)
      /\ \A i \in 1..Len(Stream) : Announced(Stream[i])
  BY StreamAnnounced
<1>3. ASSUME NEW i \in 1..Len(Stream), NEW e, e = Stream[i]
      PROVE  /\ e.type = "message-new" => Versioned(e)
             /\ e.type = "channel-new" => e.id \in Channels
             /\ e.type = "message-delete" => e.id \in Messages
             /\ Versioned(e) => e.id \in Messages /\ Version(e.id, e.doc)
             /\ e.type = "message-update" /\ ~Versioned(e) =>
                  e.id \notin Messages
  BY <1>2, <1>3, ConstantsDistinct DEF Announced, Versioned, Ids
<1>. QED
  BY <1>1, <1>2, <1>3

\* What a new event says of them.
LEMMA NewEvent ==
  ASSUME Collections', NEW e \in Events, Announces(e)
  PROVE  /\ \A m \in Messages :
              docs'[m] # docs[m] =>
                e.id = m /\ (Versioned(e) \/ e.type = "message-delete")
         /\ Versioned(e) =>
              /\ e.id \in Messages /\ docs'[e.id] = e.doc /\ Stored(e.id)'
              /\ e.doc.channel \in Channels
              /\ e.type \in {"message-new", "message-update"}
         /\ e.type = "message-new" =>
              /\ Versioned(e) /\ docs[e.id] = Unborn
              /\ docs[e.doc.channel] # Unborn
         /\ e.type = "message-update" /\ Versioned(e) => Stored(e.id)
         /\ e.type = "message-delete" => ~Stored(e.id)' /\ e.id \in Messages
         /\ e.type = "channel-new" => docs[e.id] = Unborn
<1>1. ASSUME Versioned(e)
      PROVE  /\ e.id \in Messages /\ docs'[e.id] = e.doc /\ Stored(e.id)'
             /\ e.doc.channel \in Channels
             /\ e.type \in {"message-new", "message-update"}
  <2>1. e.id \in Messages /\ docs'[e.id] = e.doc /\ e.doc \in Doc
    BY <1>1 DEF Announces, Versioned, Events
  <2>2. Stored(e.id)'
    BY <2>1, ConstantsDistinct DEF Stored
  <2>3. e.doc \in MessageDocs
    BY <2>1, <2>2, ConstantsDistinct
       DEF Collections, StoredWhereItBelongs, DocsOf, Ids
  <2>. QED
    BY <1>1, <2>1, <2>2, <2>3 DEF Versioned, MessageDocs
<1>2. e.type = "message-delete" => ~Stored(e.id)' /\ e.id \in Messages
  BY DEF Announces, Versioned, Stored
<1>3. /\ \A m \in Messages :
           docs'[m] # docs[m] =>
             e.id = m /\ (Versioned(e) \/ e.type = "message-delete")
      /\ e.type = "message-new" =>
           /\ Versioned(e) /\ docs[e.id] = Unborn
           /\ docs[e.doc.channel] # Unborn
      /\ e.type = "message-update" /\ Versioned(e) => Stored(e.id)
      /\ e.type = "channel-new" => docs[e.id] = Unborn
  BY DEF Announces, Versioned
<1>. QED
  BY <1>1, <1>2, <1>3

\* What becomes of the messages.
LEMMA MessageMoves ==
  ASSUME Inv, Collections, Collections', InTurn, Undisturbed, StreamMoves,
         NEW m \in Messages
  PROVE  /\ docs[m] # Unborn => docs'[m] # Unborn
         /\ Stored(m) /\ Stored(m)' => docs'[m].channel = docs[m].channel
         /\ Stored(m) => docs[m].channel \in Channels
         /\ Stored(m)' => \/ Stored(m)
                          \/ /\ docs[m] = Unborn
                             /\ \E e \in Events :
                                  /\ Stream' = Append(Stream, e) /\ e.id = m
                                  /\ Announces(e) /\ e.type = "message-new"
         /\ Stored(m) /\ ~Stored(m)' =>
              \/ GoneOrGoing(docs[m].channel)
              \/ IsComing(Stream', "message-delete", m)
<1>1. Monotone /\ m \in Ids
  BY UndisturbedNext, DocsStep DEF Inv, Ids
<1>2. Stored(m) => docs[m].channel \in Channels
  BY <1>1, ConstantsDistinct
     DEF Collections, StoredWhereItBelongs, DocsOf, MessageDocs
<1>3. CASE docs'[m] = docs[m]
  BY <1>1, <1>2, <1>3 DEF Monotone, Stored
<1>4. CASE Unannounced /\ docs'[m] # docs[m]
  BY <1>1, <1>2, <1>4 DEF Unannounced, Stored, Monotone
<1>5. ASSUME NEW e \in Events, Stream' = Append(Stream, e), Announces(e),
             docs'[m] # docs[m]
      PROVE  /\ Stored(m)' => \/ Stored(m)
                              \/ e.type = "message-new" /\ docs[m] = Unborn
             /\ e.id = m
             /\ ~Stored(m)' => e.type = "message-delete"
  BY <1>5, NewEvent
<1>6. ASSUME NEW e \in Events, Stream' = Append(Stream, e),
             e.type = "message-delete", e.id = m
      PROVE  IsComing(Stream', "message-delete", m)
  <2>1. Stream \in Seq(Events)
    BY <1>6, StreamMeans
  <2>. QED
    BY <1>6, <2>1, StreamAdded
<1>7. Consume => docs' = docs
  BY DEF Consume
<1>. QED
  BY <1>1, <1>2, <1>3, <1>4, <1>5, <1>6, <1>7 DEF StreamMoves, Monotone

\* Posts in hand, and the deletions nobody waits for.
LEMMA PostsHomedStep ==
  ASSUME Inv, Undisturbed, PostsHomed, CarriedAlong
  PROVE  PostsHomed'
<1>a. TypeOK /\ Kinds
  BY DEF Inv
<1>b. \A d \in Ids : docs[d] # Unborn => docs'[d] # Unborn
  BY UndisturbedNext, DocsStep DEF Inv, Monotone
<1>. SUFFICES ASSUME NEW s \in Requests, At(s, "write")',
                     req'[s].op = "postMessage"
              PROVE  docs'[req'[s].channel] # Unborn
  BY DEF PostsHomed
<1>1. CASE req'[s] = req[s]
  <2>1. /\ At(s, "write") /\ req[s].op = "postMessage"
        /\ req[s].channel \in Channels
    BY <1>1 DEF At, CarriedAlong, Active, Arguments
  <2>. QED
    BY <1>b, <1>1, <2>1 DEF PostsHomed, Ids
<1>2. ASSUME NEW r \in Requests, Arrive(r), req'[s] # req[s]
      PROVE  docs'[req'[s].channel] # Unborn
  <2>1. s = r /\ docs' = docs
    BY <1>a, <1>2, ArriveReq
  <2>2. PICK u \in Users \cup {Nobody} :
          \/ PostChannel(r, u) \/ PostMessage(r, u) \/ PatchChannel(r, u)
          \/ DeleteChannel(r, u) \/ PatchMessage(r, u) \/ DeleteMessage(r, u)
    BY <1>2 DEF Arrive
  <2>3. ASSUME NEW m, NEW c, NEW body, docs[c] # Unborn,
               Begin(r, "write", "postMessage", u, m, c, body)
        PROVE  docs'[req'[s].channel] # Unborn
    BY <1>a, <2>1, <2>3, BeginReq
  <2>4. PostMessage(r, u)
    BY <1>a, <2>1, <2>2, BeginReq
       DEF PostChannel, PatchChannel, DeleteChannel, PatchMessage,
           DeleteMessage
  <2>. QED
    BY <2>3, <2>4 DEF PostMessage
<1>3. ASSUME NEW r \in Requests, Advance(r) PROVE req'[s] = req[s]
  <2>1. CASE Refuse(r) \/ Throw(r) \/ ProceedDeleteChannel(r) \/ Reply(r)
    BY <1>a, <2>1, EndReq DEF At
  <2>2. CASE FindOne(r) \/ Proceed(r)
    <3>1. /\ \E pc \in {"check", "write"}, seen \in Doc \cup {Null} :
               Move(r, pc, seen)
          /\ req[r].pc \in {"find", "check"}
      BY <1>a, <2>2, MoveOn DEF FindOne, Proceed, At
    <3>2. /\ \A t \in Requests \ {r} : req'[t] = req[t]
          /\ req'[r].op = req[r].op
      BY <1>a, <3>1, MoveReq DEF Phases
    <3>3. req[r].op # "postMessage"
      BY <1>a, <3>1 DEF Kinds, Edits
    <3>. QED
      BY <3>2, <3>3
  <2>3. CASE Insert(r) \/ Update(r) \/ Delete(r)
    <3>1. \E seen \in Doc \cup {Null} : Move(r, "reply", seen)
      BY <1>a, <2>3, WriteReturns
    <3>2. /\ \A t \in Requests \ {r} : req'[t] = req[t]
          /\ req'[r].pc = "reply"
      BY <1>a, <3>1, MoveReq DEF Phases
    <3>. QED
      BY <3>2 DEF At
  <2>. QED
    BY <1>3, <2>1, <2>2, <2>3 DEF Advance
<1>4. CASE \/ \E b \in background : RunDeletion(b)
           \/ Consume \/ UNCHANGED vars
  BY <1>1, <1>4 DEF RunDeletion, DeleteAll, DeleteChannelDoc, Consume, vars
<1>. QED
  BY <1>1, <1>2, <1>3, <1>4 DEF Undisturbed

\* The channel of a deletion under way is gone or going.
LEMMA AllGoingStep ==
  ASSUME Inv, Undisturbed, AllGoing
  PROVE  AllGoing'
<1>a. /\ background \in SUBSET Deletions
      /\ \A b \in background : b.id \in Channels /\ GoneOrGoing(b.id)
  BY DEF Inv, TypeOK, Deletions, AllGoing
<1>b. \A b \in background : GoneOrGoing(b.id)'
  BY <1>a, GoingStays
<1>1. ASSUME NEW r \in Requests, ProceedDeleteChannel(r) PROVE AllGoing'
  <2>1. PICK c, u : c = req[r].id /\ u = req[r].user
    OBVIOUS
  <2>2. background' = background \cup {Deletion("deleteAll", c, u),
                                       Deletion("delete", c, u)}
    BY <1>1, <2>1 DEF ProceedDeleteChannel
  <2>3. GoneOrGoing(c)'
    <3>1. PICK b \in background' : b = Deletion("delete", c, u)
      BY <2>2
    <3>2. b.op = "delete" /\ b.id = c
      BY <3>1 DEF Deletion
    <3>. QED
      BY <3>2 DEF GoneOrGoing, Deleting
  <2>4. ASSUME NEW b \in background' PROVE GoneOrGoing(b.id)'
    BY <1>b, <2>2, <2>3, <2>4 DEF Deletion
  <2>. QED
    BY <2>4 DEF AllGoing, GoneOrGoing, Deleting
<1>2. CASE background' \subseteq background
  BY <1>b, <1>2 DEF AllGoing, GoneOrGoing, Deleting
<1>3. \/ background' \subseteq background
      \/ \E r \in Requests : ProceedDeleteChannel(r)
  BY ArriveReq
     DEF Undisturbed, Advance, FindOne, Refuse, Throw, Proceed, Insert, Update,
         Delete, Reply, RunDeletion, DeleteAll, DeleteChannelDoc, Consume,
         vars, Inv
<1>. QED
  BY <1>1, <1>2, <1>3

\* A document inserted becomes the last of all.
LEMMA InsertedLast ==
  ASSUME Natural, Natural', NEW d \in Ids, docs[d] = Unborn, docs'[d] # Unborn,
         order' = order \/ \E x \in Ids : order' = Append(order, x)
  PROVE  order' = Append(order, d)
<1>1. /\ order \in Seq(Ids) /\ d \notin B!ElementsOf(order)
      /\ d \in B!ElementsOf(order)'
  BY DEF Natural
<1>2. order' # order
  BY <1>1 DEF B!ElementsOf
<1>3. PICK x \in Ids : order' = Append(order, x)
  BY <1>2
<1>4. x = d
  BY <1>1, <1>3 DEF B!ElementsOf
<1>. QED
  BY <1>3, <1>4

\* The channels of messages do not come after them.
LEMMA HomedStep ==
  ASSUME Inv, Collections, Collections', InTurn, Undisturbed, StreamMoves,
         Homed
  PROVE  Homed'
<1>a. \A c \in Channels : docs[c] # Unborn => docs'[c] # Unborn
  BY UndisturbedNext, DocsStep DEF Inv, Monotone, Ids
<1>b. /\ Stream \in Seq(Events)
      /\ \A i \in 1..Len(Stream) : Stream[i].type = "message-new" =>
           Stream[i].doc.channel \in Channels
  BY StreamMeans
<1>1. ASSUME NEW m \in Messages, Stored(m)'
      PROVE  docs'[docs'[m].channel] # Unborn
  <2>1. CASE Stored(m)
    BY <1>a, <1>1, <2>1, MessageMoves DEF Homed
  <2>2. ASSUME NEW e \in Events, e.id = m, Announces(e),
               e.type = "message-new"
        PROVE  docs'[docs'[m].channel] # Unborn
    BY <1>a, <2>2, NewEvent
  <2>. QED
    BY <1>1, <2>1, <2>2, MessageMoves
<1>2. ASSUME NEW i \in 1..Len(Stream'), Stream'[i].type = "message-new"
      PROVE  docs'[Stream'[i].doc.channel] # Unborn
  <2>1. CASE Stream' = Stream
    BY <1>a, <1>b, <1>2, <2>1 DEF Homed
  <2>2. ASSUME NEW e \in Events, Stream' = Append(Stream, e), Announces(e)
        PROVE  docs'[Stream'[i].doc.channel] # Unborn
    <3>1. \/ i \in 1..Len(Stream) /\ Stream'[i] = Stream[i]
          \/ Stream'[i] = e
      BY <1>b, <2>2, StreamAdded
    <3>2. CASE i \in 1..Len(Stream) /\ Stream'[i] = Stream[i]
      BY <1>a, <1>b, <1>2, <3>2 DEF Homed
    <3>3. CASE Stream'[i] = e
      BY <1>a, <1>2, <2>2, <3>3, NewEvent
    <3>. QED
      BY <3>1, <3>2, <3>3
  <2>3. CASE Stream # <<>> /\ Stream' = Tail(Stream)
    <3>1. i + 1 \in 1..Len(Stream) /\ Stream'[i] = Stream[i + 1]
      BY <1>b, <2>3, StreamTaken
    <3>. QED
      BY <1>a, <1>b, <1>2, <3>1 DEF Homed
  <2>. QED
    BY <2>1, <2>2, <2>3 DEF StreamMoves
<1>. QED
  BY <1>1, <1>2 DEF Homed, Stored

\* Channels and messages are announced in their order.
LEMMA InTimeStep ==
  ASSUME Inv, Collections, Collections', Natural, Natural', InTurn,
         Undisturbed, StreamMoves, Homed, InTime,
         order' = order \/ \E x \in Ids : order' = Append(order, x)
  PROVE  InTime'
<1>a. /\ Stream \in Seq(Events)
      /\ \A i \in 1..Len(Stream) :
           /\ Stream[i].type = "message-new" =>
                Stream[i].id \in Messages /\ docs[Stream[i].id] # Unborn
           /\ Stream[i].type = "channel-new" => Stream[i].id \in Channels
  BY StreamMeans
<1>b. order \in Seq(Ids) /\ \A d \in Ids : docs[d] # Unborn =>
                               d \in B!ElementsOf(order)
  BY DEF Natural
<1>c. \A a, b : B!Before(a, b, order) => B!Before(a, b, order')
  BY <1>b, BeforeStays
<1>1. CASE Stream' = Stream
  BY <1>c, <1>1 DEF InTime
<1>2. ASSUME NEW e \in Events, Stream' = Append(Stream, e), Announces(e)
      PROVE  InTime'
  <2>a. PICK n \in Nat : n = Len(Stream)
    BY <1>a
  <2>b. /\ Stream'[n + 1] = e /\ \A i \in 1..n : Stream'[i] = Stream[i]
        /\ \A i \in 1..Len(Stream') : i \in 1..n \/ i = n + 1
    BY <1>a, <1>2, <2>a, StreamAdded
  <2>1. ASSUME NEW i \in 1..Len(Stream'), NEW j \in 1..Len(Stream'),
               Stream'[i].type = "channel-new",
               Stream'[j].type = "message-new",
               Stream'[j].doc.channel = Stream'[i].id
        PROVE  i < j
    <3>1. CASE i \in 1..n /\ j \in 1..n
      BY <2>1, <2>a, <2>b, <3>1 DEF InTime
    <3>2. CASE i = n + 1 /\ j \in 1..n
      <4>1. docs[Stream'[i].id] = Unborn
        BY <1>2, <2>1, <2>b, <3>2, NewEvent
      <4>. QED
        BY <2>1, <2>a, <2>b, <3>2, <4>1 DEF Homed
    <3>3. CASE i \in 1..n /\ j = n + 1
      BY <2>a, <3>3
    <3>4. CASE i = n + 1 /\ j = n + 1
      BY <2>1, <3>4
    <3>. QED
      BY <2>b, <3>1, <3>2, <3>3, <3>4
  <2>2. ASSUME NEW i \in 1..Len(Stream'), NEW j \in 1..Len(Stream'), i < j,
               Stream'[i].type = "message-new",
               Stream'[j].type = "message-new"
        PROVE  B!Before(Stream'[i].id, Stream'[j].id, order')
    <3>1. i \in 1..n /\ Stream'[i] = Stream[i]
      BY <2>a, <2>b, <2>2
    <3>2. CASE j \in 1..n
      BY <1>c, <2>2, <2>a, <2>b, <3>1, <3>2 DEF InTime
    <3>3. CASE j = n + 1
      <4>1. /\ e.type = "message-new" /\ e.id \in Ids /\ docs[e.id] = Unborn
            /\ docs'[e.id] # Unborn
        BY <1>2, <2>2, <2>b, <3>3, NewEvent DEF Ids, Stored
      <4>2. order' = Append(order, e.id)
        BY <4>1, InsertedLast
      <4>3. Stream[i].id \in B!ElementsOf(order)
        BY <1>a, <1>b, <2>2, <2>a, <3>1 DEF Ids
      <4>4. B!Before(Stream[i].id, e.id, order')
        BY <1>b, <4>1, <4>2, <4>3, BeforeLast
      <4>. QED
        BY <2>b, <3>1, <3>3, <4>4
    <3>. QED
      BY <2>b, <3>2, <3>3
  <2>. QED
    BY <2>1, <2>2 DEF InTime
<1>3. CASE Stream # <<>> /\ Stream' = Tail(Stream)
  <2>1. \A i \in 1..Len(Stream') :
          i + 1 \in 1..Len(Stream) /\ Stream'[i] = Stream[i + 1]
    BY <1>a, <1>3, StreamTaken
  <2>2. \A i, j \in 1..Len(Stream') : i + 1 < j + 1 <=> i < j
    OBVIOUS
  <2>3. ASSUME NEW i \in 1..Len(Stream'), NEW j \in 1..Len(Stream'),
               Stream'[i].type = "channel-new",
               Stream'[j].type = "message-new",
               Stream'[j].doc.channel = Stream'[i].id
        PROVE  i < j
    BY <2>1, <2>2, <2>3 DEF InTime
  <2>4. ASSUME NEW i \in 1..Len(Stream'), NEW j \in 1..Len(Stream'), i < j,
               Stream'[i].type = "message-new",
               Stream'[j].type = "message-new"
        PROVE  B!Before(Stream'[i].id, Stream'[j].id, order')
    BY <1>c, <2>1, <2>2, <2>4 DEF InTime
  <2>. QED
    BY <2>3, <2>4 DEF InTime
<1>. QED
  BY <1>1, <1>2, <1>3 DEF StreamMoves

\* The body of a message changes with the event that announces the change.
LEMMA CarriedRightStep ==
  ASSUME Inv, Collections, Collections', InTurn, Undisturbed, StreamMoves,
         CarriedRight
  PROVE  CarriedRight'
<1>a. /\ Stream \in Seq(Events)
      /\ \A i \in 1..Len(Stream) : Versioned(Stream[i]) =>
           Stream[i].id \in Messages /\ docs[Stream[i].id] # Unborn
  BY StreamMeans
<1>1. ASSUME NEW i \in 1..Len(Stream'), NEW x, x = Stream'[i],
             Versioned(x), Stored(x.id)'
      PROVE  \/ x.doc.text = docs'[x.id].text
             \/ Followed(Stream', i, "message-update", x.id)
  <2>1. CASE Stream' = Stream /\ Unannounced
    <3>1. docs'[x.id] = docs[x.id]
      BY <1>a, <1>1, <2>1 DEF Unannounced, Stored
    <3>. QED
      BY <1>1, <2>1, <3>1 DEF CarriedRight, Stored
  <2>2. ASSUME NEW e \in Events, Stream' = Append(Stream, e), Announces(e)
        PROVE  \/ x.doc.text = docs'[x.id].text
               \/ Followed(Stream', i, "message-update", x.id)
    <3>1. CASE i \in 1..Len(Stream) /\ x = Stream[i]
      <4>1. /\ x.id \in Messages /\ docs[x.id] # Unborn
            /\ Stored(x.id) => \/ x.doc.text = docs[x.id].text
                               \/ Followed(Stream, i, "message-update", x.id)
        BY <1>a, <1>1, <3>1 DEF CarriedRight
      <4>2. CASE docs'[x.id] = docs[x.id]
        BY <1>a, <1>1, <2>2, <3>1, <4>1, <4>2, StreamAdded DEF Stored
      <4>3. CASE docs'[x.id] # docs[x.id]
        <5>1. e.id = x.id /\ e.type = "message-update"
          BY <1>1, <2>2, <4>1, <4>3, NewEvent
        <5>. QED
          BY <1>a, <2>2, <3>1, <5>1, StreamAdded
      <4>. QED
        BY <4>2, <4>3
    <3>2. CASE x = e
      BY <1>1, <2>2, <3>2, NewEvent
    <3>. QED
      BY <1>a, <1>1, <2>2, <3>1, <3>2, StreamAdded
  <2>3. CASE Consume /\ Stream # <<>> /\ Stream' = Tail(Stream)
    <3>1. /\ i + 1 \in 1..Len(Stream) /\ x = Stream[i + 1]
          /\ Followed(Stream, i + 1, "message-update", x.id) =>
               Followed(Stream', i, "message-update", x.id)
      BY <1>a, <1>1, <2>3, StreamTaken
    <3>2. docs' = docs
      BY <2>3 DEF Consume
    <3>. QED
      BY <1>1, <3>1, <3>2 DEF CarriedRight, Stored
  <2>. QED
    BY <2>1, <2>2, <2>3 DEF StreamMoves
<1>. QED
  BY <1>1 DEF CarriedRight, Stored

\* A message whose channel is kept disappears with the event that says so.
LEMMA DeletedLaterStep ==
  ASSUME Inv, Collections, Collections', InTurn, Undisturbed, StreamMoves,
         DeletedLater
  PROVE  DeletedLater'
<1>a. /\ Stream \in Seq(Events)
      /\ \A i \in 1..Len(Stream) : Stream[i].type = "message-new" =>
           /\ Stream[i].id \in Messages /\ Stream[i].doc.channel \in Channels
           /\ Version(Stream[i].id, Stream[i].doc)
  BY StreamMeans
<1>b. \A c \in Channels : GoneOrGoing(c) => GoneOrGoing(c)'
  BY GoingStays
<1>1. ASSUME NEW i \in 1..Len(Stream'), NEW x, x = Stream'[i],
             x.type = "message-new", ~GoneOrGoing(x.doc.channel)'
      PROVE  \/ Stored(x.id)'
             \/ Followed(Stream', i, "message-delete", x.id)
  <2>1. CASE Stream' = Stream /\ Unannounced
    <3>1. /\ x.id \in Messages /\ ~GoneOrGoing(x.doc.channel)
          /\ Stored(x.id) => docs[x.id].channel = x.doc.channel
          /\ \/ Stored(x.id)
             \/ Followed(Stream', i, "message-delete", x.id)
      BY <1>a, <1>b, <1>1, <2>1 DEF Version, DeletedLater
    <3>. QED
      BY <2>1, <3>1 DEF Unannounced, Stored
  <2>2. ASSUME NEW e \in Events, Stream' = Append(Stream, e), Announces(e)
        PROVE  \/ Stored(x.id)'
               \/ Followed(Stream', i, "message-delete", x.id)
    <3>1. CASE i \in 1..Len(Stream) /\ x = Stream[i]
      <4>1. /\ x.id \in Messages /\ ~GoneOrGoing(x.doc.channel)
            /\ \/ Stored(x.id)
               \/ Followed(Stream, i, "message-delete", x.id)
        BY <1>a, <1>b, <1>1, <3>1 DEF DeletedLater
      <4>2. CASE Followed(Stream, i, "message-delete", x.id)
        BY <1>a, <2>2, <3>1, <4>2, StreamAdded
      <4>3. CASE Stored(x.id) /\ ~Stored(x.id)'
        <5>1. e.id = x.id /\ e.type = "message-delete"
          BY <2>2, <4>1, <4>3, NewEvent DEF Stored
        <5>. QED
          BY <1>a, <2>2, <3>1, <5>1, StreamAdded
      <4>. QED
        BY <4>1, <4>2, <4>3
    <3>2. CASE x = e
      BY <1>1, <2>2, <3>2, NewEvent
    <3>. QED
      BY <1>a, <1>1, <2>2, <3>1, <3>2, StreamAdded
  <2>3. CASE Consume /\ Stream # <<>> /\ Stream' = Tail(Stream)
    <3>1. /\ i + 1 \in 1..Len(Stream) /\ x = Stream[i + 1]
          /\ Followed(Stream, i + 1, "message-delete", x.id) =>
               Followed(Stream', i, "message-delete", x.id)
      BY <1>a, <1>1, <2>3, StreamTaken
    <3>2. docs' = docs
      BY <2>3 DEF Consume
    <3>. QED
      BY <1>a, <1>b, <1>1, <3>1, <3>2 DEF DeletedLater, Stored
  <2>. QED
    BY <2>1, <2>2, <2>3 DEF StreamMoves
<1>. QED
  BY <1>1 DEF DeletedLater, Stored, GoneOrGoing, Deleting

\* The messages of a new channel are announced after it.
LEMMA AllAheadStep ==
  ASSUME Inv, Collections, Collections', InTurn, Undisturbed, StreamMoves,
         Homed, InTime, AllAhead
  PROVE  AllAhead'
<1>a. /\ Stream \in Seq(Events)
      /\ \A i \in 1..Len(Stream) : Stream[i].type = "message-new" =>
           Version(Stream[i].id, Stream[i].doc)
  BY StreamMeans
<1>1. ASSUME NEW c \in Channels, NEW m \in Messages,
             IsComing(Stream', "channel-new", c),
             Stored(m)', docs'[m].channel = c
      PROVE  IsComing(Stream', "message-new", m)
  <2>1. CASE Stored(m)
    <3>1. docs[m].channel = c /\ docs[c] # Unborn
      BY <1>1, <2>1, MessageMoves DEF Homed
    <3>2. CASE Stream' = Stream
      BY <1>1, <2>1, <3>1, <3>2 DEF AllAhead
    <3>3. ASSUME NEW e \in Events, Stream' = Append(Stream, e), Announces(e)
          PROVE  IsComing(Stream', "message-new", m)
      <4>1. ~(e.type = "channel-new" /\ e.id = c)
        BY <3>1, <3>3, NewEvent
      <4>2. IsComing(Stream, "channel-new", c)
        BY <1>a, <1>1, <3>3, <4>1, StreamAdded
      <4>3. IsComing(Stream, "message-new", m)
        BY <2>1, <3>1, <4>2 DEF AllAhead
      <4>. QED
        BY <1>a, <3>3, <4>3, StreamAdded
    <3>4. CASE Stream # <<>> /\ Stream' = Tail(Stream)
      <4>1. IsComing(Stream, "message-new", m)
        BY <1>a, <1>1, <2>1, <3>1, <3>4, StreamTaken DEF AllAhead
      <4>2. ASSUME Stream[1].type = "message-new", Stream[1].id = m
            PROVE  FALSE
        <5>1. PICK j \in 1..Len(Stream') :
                Stream'[j].type = "channel-new" /\ Stream'[j].id = c
          BY <1>1 DEF IsComing
        <5>2. /\ j + 1 \in 1..Len(Stream) /\ Stream'[j] = Stream[j + 1]
              /\ 1 \in 1..Len(Stream)
          BY <1>a, <3>4, StreamTaken
        <5>3. Stream[1].doc.channel = c
          BY <1>a, <2>1, <3>1, <4>2, <5>2 DEF Version
        <5>4. j + 1 < 1
          BY <4>2, <5>1, <5>2, <5>3 DEF InTime
        <5>. QED
          BY <5>4
      <4>. QED
        BY <1>a, <3>4, <4>1, <4>2, StreamTaken
    <3>. QED
      BY <3>2, <3>3, <3>4 DEF StreamMoves
  <2>2. CASE ~Stored(m)
    <3>1. PICK e \in Events : /\ Stream' = Append(Stream, e) /\ e.id = m
                              /\ e.type = "message-new"
      BY <1>1, <2>2, MessageMoves
    <3>. QED
      BY <1>a, <3>1, StreamAdded
  <2>. QED
    BY <2>1, <2>2
<1>. QED
  BY <1>1 DEF AllAhead, Stored

\* Every step of the service keeps the events right.
LEMMA StreamRightStep ==
  ASSUME Inv, Collections, Collections', Natural, Natural', InTurn, InTurn',
         Undisturbed, mqChannel = "open", StreamRight,
         order' = order \/ \E x \in Ids : order' = Append(order, x)
  PROVE  StreamMoves /\ StreamRight'
<1>1. StreamMoves
  BY StreamStep DEF StreamRight
<1>2. PostsHomed' /\ AllGoing'
  BY PostsHomedStep, AllGoingStep DEF StreamRight, Collections
<1>3. Homed' /\ InTime' /\ CarriedRight' /\ DeletedLater' /\ AllAhead'
  BY <1>1, HomedStep, InTimeStep, CarriedRightStep, DeletedLaterStep,
     AllAheadStep DEF StreamRight
<1>. QED
  BY <1>1, <1>2, <1>3 DEF StreamRight

-----------------------------------------------------------------------------
(* A list of messages, and what is still to be heard of.                     *)

\* The list l has its messages in the order of their insertion, before those
\* that are still to be announced.
InLine(l) ==
  /\ \A i, j \in 1..Len(l) : i < j => B!Before(l[i].id, l[j].id, order)
  /\ \A i \in 1..Len(l), j \in 1..Len(Stream) :
       Stream[j].type = "message-new" =>
         B!Before(l[i].id, Stream[j].id, order)

\* It has messages of channel c, with the bodies they are left with, once
\* every change was heard of.
BodiesRight(l, c) ==
  \A x \in B!ElementsOf(l) :
    /\ x.id \in Messages /\ Version(x.id, x.doc) /\ x.doc.channel = c
    /\ Stored(x.id) => \/ x.doc.text = docs[x.id].text
                       \/ IsComing(Stream, "message-update", x.id)

\* A message listed and deleted is one whose deletion is still to be heard of,
\* or was while another channel was displayed.
GhostsTold(l, c) ==
  ~GoneOrGoing(c) =>
    \A m \in B!IdsOf(l) :
      Stored(m) \/ m \in unheard \/ IsComing(Stream, "message-delete", m)

\* A message of c is listed, or is still to be announced.
AllThere(l, c) ==
  \A m \in Messages : Stored(m) /\ docs[m].channel = c =>
    m \in B!IdsOf(l) \/ IsComing(Stream, "message-new", m)

ListRight(l, c) == InLine(l) /\ BodiesRight(l, c) /\ GhostsTold(l, c)

\* The documents of a list were inserted once.
LEMMA ListMeans ==
  ASSUME Natural, NEW l \in Seq(MessageEntries), NEW c, BodiesRight(l, c)
  PROVE  /\ \A m \in B!IdsOf(l) :
              /\ m \in Messages /\ docs[m] # Unborn
              /\ m \in B!ElementsOf(order)
              /\ Stored(m) => docs[m].channel = c
         /\ \A i \in 1..Len(l) : l[i].id \in B!IdsOf(l)
         /\ \A x \in B!ElementsOf(l) : x.id \in B!IdsOf(l)
<1>1. ASSUME NEW i \in 1..Len(l)
      PROVE  /\ l[i].id \in Messages /\ docs[l[i].id] # Unborn
             /\ Stored(l[i].id) => docs[l[i].id].channel = c
  <2>. PICK x : x = l[i]
    OBVIOUS
  <2>1. x \in B!ElementsOf(l)
    BY DEF B!ElementsOf
  <2>. QED
    BY <2>1 DEF BodiesRight, Version
<1>2. \A m \in Messages : docs[m] # Unborn => m \in B!ElementsOf(order)
  BY DEF Natural, Ids
<1>. QED
  BY <1>1, <1>2 DEF B!IdsOf, B!ElementsOf

\* A list that is not touched stays in order.
LEMMA InLineKept ==
  ASSUME Inv, Collections, Collections', Natural, Natural', InTurn,
         Undisturbed, StreamMoves, ~Consume,
         order' = order \/ \E x \in Ids : order' = Append(order, x),
         NEW l \in Seq(MessageEntries), NEW c, InLine(l), BodiesRight(l, c)
  PROVE  InLine(l)'
<1>a. /\ Stream \in Seq(Events) /\ order \in Seq(Ids)
      /\ \A i \in 1..Len(l) : l[i].id \in B!ElementsOf(order)
  BY StreamMeans, ListMeans DEF Natural
<1>b. \A a, b : B!Before(a, b, order) => B!Before(a, b, order')
  BY <1>a, BeforeStays
<1>1. CASE Stream' = Stream
  BY <1>b, <1>1 DEF InLine
<1>2. ASSUME NEW e \in Events, Stream' = Append(Stream, e), Announces(e)
      PROVE  InLine(l)'
  <2>1. ASSUME NEW i \in 1..Len(l), NEW j \in 1..Len(Stream'),
               Stream'[j].type = "message-new"
        PROVE  B!Before(l[i].id, Stream'[j].id, order')
    <3>1. CASE j \in 1..Len(Stream) /\ Stream'[j] = Stream[j]
      BY <1>b, <2>1, <3>1 DEF InLine
    <3>2. CASE Stream'[j] = e
      <4>1. e.id \in Ids /\ docs[e.id] = Unborn /\ docs'[e.id] # Unborn
        BY <1>2, <2>1, <3>2, NewEvent DEF Ids, Stored
      <4>2. order' = Append(order, e.id)
        BY <4>1, InsertedLast
      <4>3. B!Before(l[i].id, e.id, order')
        BY <1>a, <4>1, <4>2, BeforeLast
      <4>. QED
        BY <3>2, <4>3
    <3>. QED
      BY <1>a, <1>2, <3>1, <3>2, StreamAdded
  <2>. QED
    BY <1>b, <2>1 DEF InLine
<1>. QED
  BY <1>1, <1>2 DEF StreamMoves

\* Its bodies stay right.
LEMMA BodiesKept ==
  ASSUME Inv, Collections, Collections', InTurn, Undisturbed, StreamMoves,
         ~Consume, NEW l, NEW c, BodiesRight(l, c)
  PROVE  BodiesRight(l, c)'
<1>a. Stream \in Seq(Events)
  BY StreamMeans
<1>1. ASSUME NEW m \in Messages, NEW doc, Version(m, doc)
      PROVE  Version(m, doc)'
  BY <1>1, UndisturbedNext, VersionStays DEF Inv, Ids
<1>2. ASSUME NEW m \in Messages, NEW text, docs[m] # Unborn,
             Stored(m) => \/ text = docs[m].text
                          \/ IsComing(Stream, "message-update", m),
             Stored(m)'
      PROVE  \/ text = docs'[m].text
             \/ IsComing(Stream', "message-update", m)
  <2>1. Stored(m)
    BY <1>2, MessageMoves
  <2>2. CASE Stream' = Stream /\ Unannounced
    BY <1>2, <2>1, <2>2 DEF Unannounced, Stored
  <2>3. ASSUME NEW e \in Events, Stream' = Append(Stream, e), Announces(e)
        PROVE  \/ text = docs'[m].text
               \/ IsComing(Stream', "message-update", m)
    <3>1. CASE docs'[m] = docs[m]
      BY <1>a, <1>2, <2>1, <2>3, <3>1, StreamAdded
    <3>2. CASE docs'[m] # docs[m]
      <4>1. e.id = m /\ e.type = "message-update"
        BY <1>2, <2>3, <3>2, NewEvent
      <4>. QED
        BY <1>a, <2>3, <4>1, StreamAdded
    <3>. QED
      BY <3>1, <3>2
  <2>. QED
    BY <2>2, <2>3 DEF StreamMoves
<1>3. ASSUME NEW x \in B!ElementsOf(l)
      PROVE  /\ x.id \in Messages /\ Version(x.id, x.doc)'
             /\ x.doc.channel = c
             /\ Stored(x.id)' => \/ x.doc.text = docs'[x.id].text
                                 \/ IsComing(Stream', "message-update", x.id)
  <2>. PICK m, doc : m = x.id /\ doc = x.doc
    OBVIOUS
  <2>1. /\ m \in Messages /\ Version(m, doc) /\ doc.channel = c
        /\ docs[m] # Unborn
        /\ Stored(m) => \/ doc.text = docs[m].text
                        \/ IsComing(Stream, "message-update", m)
    BY DEF BodiesRight, Version
  <2>2. Version(m, doc)'
    BY <1>1, <2>1
  <2>3. Stored(m)' => \/ doc.text = docs'[m].text
                      \/ IsComing(Stream', "message-update", m)
    BY <1>2, <2>1
  <2>. QED
    BY <2>1, <2>2, <2>3
<1>. QED
  BY <1>3 DEF BodiesRight

\* A message it lists is deleted with the event that says so, or with its
\* channel.
LEMMA GhostsKept ==
  ASSUME Inv, Collections, Collections', Natural, InTurn, Undisturbed,
         StreamMoves, ~Consume, unheard \subseteq unheard',
         NEW l \in Seq(MessageEntries), NEW c \in Channels,
         BodiesRight(l, c), GhostsTold(l, c)
  PROVE  GhostsTold(l, c)'
<1>a. Stream \in Seq(Events) /\ (GoneOrGoing(c) => GoneOrGoing(c)')
  BY StreamMeans, GoingStays
<1>1. ASSUME ~GoneOrGoing(c)', NEW m \in B!IdsOf(l), ~Stored(m)',
             m \notin unheard'
      PROVE  IsComing(Stream', "message-delete", m)
  <2>1. /\ m \in Messages /\ (Stored(m) => docs[m].channel = c)
        /\ Stored(m) \/ IsComing(Stream, "message-delete", m)
        /\ ~GoneOrGoing(c)
    BY <1>a, <1>1, ListMeans DEF GhostsTold
  <2>2. CASE Stored(m)
    BY <1>1, <2>1, <2>2, MessageMoves
  <2>3. CASE IsComing(Stream, "message-delete", m)
    BY <1>a, <2>3, StreamAdded DEF StreamMoves
  <2>. QED
    BY <2>1, <2>2, <2>3
<1>. QED
  BY <1>1 DEF GhostsTold, Stored

\* A message is inserted with the event that says so.
LEMMA AllThereKept ==
  ASSUME Inv, Collections, Collections', InTurn, Undisturbed, StreamMoves,
         ~Consume, NEW l, NEW c, AllThere(l, c)
  PROVE  AllThere(l, c)'
<1>a. Stream \in Seq(Events)
  BY StreamMeans
<1>1. ASSUME NEW m \in Messages, Stored(m)', docs'[m].channel = c
      PROVE  m \in B!IdsOf(l) \/ IsComing(Stream', "message-new", m)
  <2>1. CASE Stored(m)
    <3>1. m \in B!IdsOf(l) \/ IsComing(Stream, "message-new", m)
      BY <1>1, <2>1, MessageMoves DEF AllThere
    <3>. QED
      BY <1>a, <3>1, StreamAdded DEF StreamMoves
  <2>2. ASSUME NEW e \in Events, Stream' = Append(Stream, e), e.id = m,
               e.type = "message-new"
        PROVE  IsComing(Stream', "message-new", m)
    BY <1>a, <2>2, StreamAdded
  <2>. QED
    BY <1>1, <2>1, <2>2, MessageMoves
<1>. QED
  BY <1>1 DEF AllThere, Stored

-----------------------------------------------------------------------------
(* The tab hears of an event.                                                *)

\* What the tab does with it.
LEMMA MessagesHeard ==
  ASSUME ChatInv, CalmInv, Receive, NEW e, e = Head(queue)
  PROVE  /\ B!Delivers(view', view, e)
         /\ Consume /\ fetches = {} /\ fetches' = fetches /\ Loaded
         /\ UNCHANGED <<docs, req, background, order>>
         /\ unheard \subseteq unheard'
         /\ e.type = "message-delete" =>
              /\ e.id \in Messages /\ ~Stored(e.id)
              /\ \A c \in B!Cached(view) :
                   ~B!Displays(view, c) /\ e.id \in B!IdsOf(view.messages[c])
                   => e.id \in unheard'
<1>a. /\ Consume /\ view' = IF joined THEN Tab!Handle(view, e, me) ELSE view
      /\ UNCHANGED <<docs, req, background, order, fetches>>
      /\ unheard' = unheard \cup
           {m \in Messages : /\ e.type = "message-delete" /\ e.id = m
                             /\ \E c \in Tab!Cached(view) :
                                  /\ ~Tab!Displays(view, c)
                                  /\ m \in Tab!IdsOf(view.messages[c])}
  BY DEF Receive, Consume
<1>b. /\ e \in Events /\ Announced(e) /\ 1 \in 1..Len(queue)
      /\ e = queue[1] /\ e.type \in B!Types
      /\ B!Fits(e, Channels, ChannelDocs, Messages, MessageDocs)
  BY <1>a, NextEvent DEF ChatInv
<1>c. fetches = {} /\ joined /\ Loaded
  <2>1. ~Quiet
    BY <1>a DEF Quiet, Consume
  <2>. QED
    BY <2>1 DEF CalmInv, LoadsInPeace
<1>d. view \in Views /\ B!ListedOnce(view.channels)
  <2>1. InOrder /\ view \in Views /\ view.channels \in Seq(ChannelEntries)
    BY <1>c, OtherViews DEF ChatInv, ChatTypes, CalmInv
  <2>. QED
    BY <2>1, OnceOnly DEF ChatInv
<1>1. B!Delivers(view', view, e)
  <2>. PICK w : w = view'
    OBVIOUS
  <2>1. w = B!Handle(view, e, me)
    BY <1>a, <1>c, HandleSame
  <2>2. B!Delivers(w, view, e)
    BY <1>b, <1>d, <2>1, B!HandledLists DEF Views
  <2>. QED
    BY <2>2
<1>2. ASSUME e.type = "message-delete"
      PROVE  /\ e.id \in Messages /\ ~Stored(e.id)
             /\ \A c \in B!Cached(view) :
                  ~B!Displays(view, c) /\ e.id \in B!IdsOf(view.messages[c])
                  => e.id \in unheard'
  <2>1. e.id \in Messages
    BY <1>b, <1>2 DEF Announced
  <2>2. ~Stored(e.id)
    BY <1>b, <1>2 DEF ChatInv, Inv, AnnouncedAfterCommit, Stored
  <2>3. \A c \in B!Cached(view) :
          ~B!Displays(view, c) /\ e.id \in B!IdsOf(view.messages[c])
          => e.id \in unheard'
    BY <1>a, <1>2, <2>1
       DEF Tab!Cached, B!Cached, Tab!Displays, B!Displays,
           Tab!IdsOf, B!IdsOf
  <2>. QED
    BY <2>1, <2>2, <2>3
<1>. QED
  BY <1>a, <1>c, <1>1, <1>2

\* A message added to a list comes after those that are listed.
LEMMA InLineHeard ==
  ASSUME Inv, Collections, InTurn, InTime, Stream # <<>>,
         Stream' = Tail(Stream), order' = order,
         NEW k, NEW l, NEW v, NEW e, e = Stream[1], NEW c,
         B!Relays(l, k, v, e, c), InLine(k)
  PROVE  InLine(l)'
<1>a. /\ 1 \in 1..Len(Stream)
      /\ \A i \in 1..Len(Stream') :
           i + 1 \in 1..Len(Stream) /\ Stream'[i] = Stream[i + 1]
  BY StreamMeans, StreamTaken
<1>b. \A m \in B!IdsOf(k) : \A j \in 1..Len(Stream) :
        Stream[j].type = "message-new" => B!Before(m, Stream[j].id, order)
  BY DEF InLine, B!IdsOf
<1>1. ASSUME NEW i \in 1..Len(l), NEW j \in 1..Len(l), i < j
      PROVE  B!Before(l[i].id, l[j].id, order)
  <2>1. \/ \E a, b \in 1..Len(k) :
             a < b /\ l[i].id = k[a].id /\ l[j].id = k[b].id
        \/ B!NewFor(e, c) /\ l[j].id = e.id /\ l[i].id \in B!IdsOf(k)
    BY <1>1 DEF B!Relays
  <2>2. ASSUME NEW a \in 1..Len(k), NEW b \in 1..Len(k),
               a < b, l[i].id = k[a].id, l[j].id = k[b].id
        PROVE  B!Before(l[i].id, l[j].id, order)
    BY <2>2 DEF InLine
  <2>3. ASSUME B!NewFor(e, c), l[j].id = e.id, l[i].id \in B!IdsOf(k)
        PROVE  B!Before(l[i].id, l[j].id, order)
    BY <1>a, <1>b, <2>3 DEF B!NewFor
  <2>. QED
    BY <2>1, <2>2, <2>3
<1>2. ASSUME NEW i \in 1..Len(l), NEW j \in 1..Len(Stream'),
             Stream'[j].type = "message-new"
      PROVE  B!Before(l[i].id, Stream'[j].id, order)
  <2>1. /\ j + 1 \in 1..Len(Stream) /\ Stream'[j] = Stream[j + 1]
        /\ 1 < j + 1
    BY <1>a
  <2>2. l[i].id \in B!IdsOf(l)
    BY DEF B!IdsOf
  <2>3. l[i].id \in B!IdsOf(k) \/ (B!NewFor(e, c) /\ l[i].id = e.id)
    BY <2>2 DEF B!Relays
  <2>4. CASE l[i].id \in B!IdsOf(k)
    BY <1>b, <1>2, <2>1, <2>4
  <2>5. CASE B!NewFor(e, c) /\ l[i].id = e.id
    BY <1>a, <1>2, <2>1, <2>5 DEF InTime, B!NewFor
  <2>. QED
    BY <2>3, <2>4, <2>5
<1>. QED
  BY <1>1, <1>2 DEF InLine

\* A body listed is replaced by the one that is announced.
LEMMA BodiesHeard ==
  ASSUME Inv, Collections, InTurn, CarriedRight, Stream # <<>>,
         Stream' = Tail(Stream), docs' = docs,
         NEW k, NEW l, NEW v, NEW e, e = Stream[1], NEW c,
         B!Relays(l, k, v, e, c), BodiesRight(k, c)
  PROVE  BodiesRight(l, c)'
<1>a. /\ 1 \in 1..Len(Stream)
      /\ \A type, id : IsComing(Stream, type, id) =>
           IsComing(Stream', type, id) \/ (e.type = type /\ e.id = id)
      /\ \A type, id :
           Followed(Stream, 1, type, id) => IsComing(Stream', type, id)
  BY StreamMeans, StreamTaken
<1>b. /\ e.type = "message-new" => Versioned(e)
      /\ e.type = "message-update" /\ e.id \in Messages => Versioned(e)
      /\ Versioned(e) => e.id \in Messages /\ Version(e.id, e.doc)
  BY <1>a, StreamMeans
<1>1. ASSUME NEW x \in B!ElementsOf(k), B!EditFor(e, c) => x.id # e.id,
             Stored(x.id)
      PROVE  \/ x.doc.text = docs[x.id].text
             \/ IsComing(Stream', "message-update", x.id)
  <2>. PICK m, doc : m = x.id /\ doc = x.doc
    OBVIOUS
  <2>1. /\ m \in Messages /\ Version(m, doc) /\ doc.channel = c
        /\ doc.text = docs[m].text \/ IsComing(Stream, "message-update", m)
    BY <1>1 DEF BodiesRight
  <2>2. ~(e.type = "message-update" /\ e.id = m)
    <3>. SUFFICES ASSUME e.type = "message-update", e.id = m PROVE FALSE
      OBVIOUS
    <3>1. Versioned(e) /\ Version(m, e.doc)
      BY <1>b, <2>1
    <3>2. e.doc.channel = c
      BY <1>1, <2>1, <3>1 DEF Version
    <3>. QED
      BY <1>1, <3>1, <3>2 DEF Versioned, B!EditFor
  <2>. QED
    BY <1>a, <2>1, <2>2
<1>2. ASSUME B!NewFor(e, c) \/ B!EditFor(e, c)
      PROVE  /\ e.id \in Messages /\ Version(e.id, e.doc)
             /\ e.doc.channel = c
             /\ Stored(e.id) => \/ e.doc.text = docs[e.id].text
                                \/ IsComing(Stream', "message-update", e.id)
  <2>1. Versioned(e) /\ e.doc.channel = c
    BY <1>b, <1>2 DEF B!NewFor, B!EditFor, Versioned
  <2>. QED
    BY <1>a, <1>b, <2>1 DEF CarriedRight
<1>3. ASSUME NEW x \in B!ElementsOf(l)
      PROVE  /\ x.id \in Messages /\ Version(x.id, x.doc)
             /\ x.doc.channel = c
             /\ Stored(x.id) => \/ x.doc.text = docs[x.id].text
                                \/ IsComing(Stream', "message-update", x.id)
  <2>1. \/ x \in B!ElementsOf(k) /\ (B!EditFor(e, c) => x.id # e.id)
        \/ /\ B!NewFor(e, c) \/ B!EditFor(e, c)
           /\ x = B!Entry(e.id, e.doc)
    BY DEF B!Relays
  <2>2. CASE x \in B!ElementsOf(k) /\ (B!EditFor(e, c) => x.id # e.id)
    BY <1>1, <2>2 DEF BodiesRight
  <2>3. CASE /\ B!NewFor(e, c) \/ B!EditFor(e, c)
             /\ x = B!Entry(e.id, e.doc)
    <3>1. x.id = e.id /\ x.doc = e.doc
      BY <2>3 DEF B!Entry
    <3>. QED
      BY <1>2, <2>3, <3>1
  <2>. QED
    BY <2>1, <2>2, <2>3
<1>. QED
  BY <1>3 DEF BodiesRight, Version, Stored

\* A deletion removes the message from the list displayed.
LEMMA GhostsHeard ==
  ASSUME Inv, Collections, InTurn, DeletedLater, Stream # <<>>,
         Stream' = Tail(Stream), UNCHANGED <<docs, background>>,
         unheard \subseteq unheard',
         NEW k, NEW l, NEW e, e = Stream[1], NEW c,
         e.type = "message-delete" =>
           (~B!Displays(view, c) /\ e.id \in B!IdsOf(k) =>
              e.id \in unheard'),
         B!Relays(l, k, view, e, c), GhostsTold(k, c)
  PROVE  GhostsTold(l, c)'
<1>a. /\ 1 \in 1..Len(Stream)
      /\ \A type, id : IsComing(Stream, type, id) =>
           IsComing(Stream', type, id) \/ (e.type = type /\ e.id = id)
      /\ \A type, id :
           Followed(Stream, 1, type, id) => IsComing(Stream', type, id)
  BY StreamMeans, StreamTaken
<1>1. ASSUME ~GoneOrGoing(c), NEW m \in B!IdsOf(l), ~Stored(m),
             m \notin unheard'
      PROVE  IsComing(Stream', "message-delete", m)
  <2>1. CASE B!NewFor(e, c) /\ m = e.id
    BY <1>a, <1>1, <2>1 DEF DeletedLater, B!NewFor
  <2>2. CASE m \in B!IdsOf(k)
    <3>1. IsComing(Stream, "message-delete", m)
      BY <1>1, <2>2 DEF GhostsTold
    <3>2. ASSUME e.type = "message-delete", e.id = m PROVE FALSE
      <4>1. B!DropFor(view, e, c) /\ ~B!NewFor(e, c)
        BY <1>1, <2>2, <3>2 DEF B!DropFor, B!NewFor
      <4>. QED
        BY <1>1, <3>2, <4>1 DEF B!Relays
    <3>. QED
      BY <1>a, <3>1, <3>2
  <2>3. m \in B!IdsOf(k) \/ (B!NewFor(e, c) /\ m = e.id)
    BY <1>1 DEF B!Relays
  <2>. QED
    BY <2>1, <2>2, <2>3
<1>. QED
  BY <1>1 DEF GhostsTold, Stored, GoneOrGoing, Deleting

\* No message that exists is lost from a list, and a new one is added.
LEMMA AllThereHeard ==
  ASSUME Inv, Collections, InTurn, Stream # <<>>,
         Stream' = Tail(Stream), docs' = docs,
         NEW k, NEW l, NEW v, NEW e, e = Stream[1], NEW c,
         e.type = "message-delete" => ~Stored(e.id),
         B!Relays(l, k, v, e, c), AllThere(k, c)
  PROVE  AllThere(l, c)'
<1>a. /\ 1 \in 1..Len(Stream)
      /\ \A type, id : IsComing(Stream, type, id) =>
           IsComing(Stream', type, id) \/ (e.type = type /\ e.id = id)
  BY StreamMeans, StreamTaken
<1>1. ASSUME NEW m \in Messages, Stored(m), docs[m].channel = c
      PROVE  m \in B!IdsOf(l) \/ IsComing(Stream', "message-new", m)
  <2>1. CASE m \in B!IdsOf(k)
    BY <1>1, <2>1 DEF B!Relays, B!DropFor
  <2>2. CASE e.type = "message-new" /\ e.id = m
    <3>1. Version(m, e.doc)
      BY <1>a, <2>2, StreamMeans
    <3>2. B!NewFor(e, c)
      BY <1>1, <2>2, <3>1 DEF Version, B!NewFor
    <3>. QED
      BY <2>2, <3>2 DEF B!Relays
  <2>. QED
    BY <1>a, <1>1, <2>1, <2>2 DEF AllThere
<1>. QED
  BY <1>1 DEF AllThere, Stored

\* The list of a channel that has just been announced is empty.
LEMMA EmptyRight ==
  ASSUME Inv, Collections, InTurn, AllAhead, Stream # <<>>,
         Stream' = Tail(Stream), docs' = docs, NEW c \in Channels,
         Stream[1].type = "channel-new", Stream[1].id = c
  PROVE  ListRight(<<>>, c)' /\ AllThere(<<>>, c)'
<1>a. /\ 1 \in 1..Len(Stream)
      /\ \A type, id : IsComing(Stream, type, id) =>
           \/ IsComing(Stream', type, id)
           \/ Stream[1].type = type /\ Stream[1].id = id
  BY StreamMeans, StreamTaken
<1>b. 1..Len(<<>>) = {}
  OBVIOUS
<1>1. InLine(<<>>)' /\ BodiesRight(<<>>, c)' /\ GhostsTold(<<>>, c)'
  BY <1>b DEF InLine, BodiesRight, GhostsTold, B!ElementsOf, B!IdsOf
<1>2. ASSUME NEW m \in Messages, Stored(m), docs[m].channel = c
      PROVE  IsComing(Stream', "message-new", m)
  <2>1. IsComing(Stream, "channel-new", c)
    BY <1>a DEF IsComing
  <2>2. IsComing(Stream, "message-new", m)
    BY <1>2, <2>1 DEF AllAhead
  <2>. QED
    BY <1>a, <2>2
<1>3. AllThere(<<>>, c)'
  BY <1>2 DEF AllThere, Stored
<1>. QED
  BY <1>1, <1>3 DEF ListRight

-----------------------------------------------------------------------------
(* The tab fetches messages.                                                 *)

MessagesOf(c) == {m \in Messages : Stored(m) /\ docs[m].channel = c}

\* No list of messages is cut off.
RoomForAll ==
  \A c \in Channels : Len(Those(order, MessagesOf(c))) <= MessageLimit

\* The tab has the list of channel c, or is fetching it.
Provided(c) ==
  \/ c \in B!Cached(view)
  \/ \E f \in fetches : f.kind = "messages" /\ f.channel = c

\* What was fetched is what a reload would show, and the lists of the default
\* channel and of the one displayed were fetched or will be.
FetchedRight ==
  /\ \A f \in fetches : f.kind = "messages" /\ f.data # Null =>
       f.data = AllMessages(f.channel)
  /\ Loaded => \A c \in {General, view.current.id} : Provided(c)

\* The tab fetches messages of the channel, as they are and in the order of
\* their insertion, and all of them if there is room.
LEMMA MessagesFoundAll ==
  ASSUME ChatInv, NEW c
  PROVE  /\ AllMessages(c) \in Seq(MessageEntries)
         /\ \A i \in 1..Len(AllMessages(c)) :
              /\ AllMessages(c)[i].id \in MessagesOf(c)
              /\ AllMessages(c)[i].doc = docs[AllMessages(c)[i].id]
         /\ \A i, j \in 1..Len(AllMessages(c)) : i < j =>
              B!Before(AllMessages(c)[i].id, AllMessages(c)[j].id, order)
         /\ Len(Those(order, MessagesOf(c))) <= MessageLimit =>
              \A m \in MessagesOf(c) :
                \E i \in 1..Len(AllMessages(c)) : AllMessages(c)[i].id = m
<1>. DEFINE S     == MessagesOf(c)
            found == Those(order, S)
            all   == AllMessages(c)
<1>1. /\ S \in SUBSET Ids /\ S \subseteq Messages
      /\ \A d \in S : docs[d] \in MessageDocs
  BY ConstantsDistinct
     DEF ChatInv, Collections, StoredWhereItBelongs, DocsOf, Ids, MessagesOf
<1>2. MessageLimit \in Nat
  BY ChatAssumption
<1>3. all = Page(S, MessageLimit)
  BY DEF AllMessages, MessagesOf
<1>4. S \subseteq B!ElementsOf(order)
  BY DEF ChatInv, Natural, Stored, Ids, MessagesOf
<1>. HIDE DEF found, S, all
<1>5. /\ found \in Seq(Ids) /\ B!Ordered(found, order)
      /\ B!ElementsOf(found) = S
  <2>1. order \in Seq(Ids)
    BY DEF ChatInv, Natural
  <2>2. found = B!Those(order, S)
    BY ThoseSame DEF found
  <2>3. /\ found \in Seq(Ids) /\ B!Ordered(found, order)
        /\ B!ElementsOf(found) = B!ElementsOf(order) \cap S
    BY <2>1, <2>2, B!ThoseAre
  <2>. QED
    BY <1>4, <2>3
<1>6. /\ all \in Seq(MessageEntries)
      /\ Len(all) = IF Len(found) < MessageLimit THEN Len(found)
                    ELSE MessageLimit
      /\ \A i \in 1..Len(all) : all[i] = Tab!Entry(found[i], docs[found[i]])
  BY <1>1, <1>2, <1>3, PageOf DEF ChatInv, MessageEntries, found
<1>7. /\ Len(found) \in Nat /\ 1..Len(all) \subseteq 1..Len(found)
      /\ Len(found) <= MessageLimit => Len(all) = Len(found)
  BY <1>2, <1>5, <1>6
<1>8. \A i \in 1..Len(all) :
        all[i].id = found[i] /\ all[i].doc = docs[found[i]]
  <2>1. \A id, doc : /\ Tab!Entry(id, doc).id = id
                     /\ Tab!Entry(id, doc).doc = doc
    BY DEF Tab!Entry
  <2>. QED
    BY <1>6, <2>1
<1>9. /\ \A i \in 1..Len(found) : found[i] \in S
      /\ \A m \in S : \E i \in 1..Len(found) : found[i] = m
  BY <1>5 DEF B!ElementsOf
<1>10. \A i, j \in 1..Len(found) :
         i < j => B!Before(found[i], found[j], order)
  BY <1>5 DEF B!Ordered
<1>11. Len(found) <= MessageLimit =>
         \A m \in S : \E i \in 1..Len(all) : all[i].id = m
  BY <1>7, <1>8, <1>9
<1>12. /\ \A i \in 1..Len(all) : all[i].id \in S /\ all[i].doc = docs[all[i].id]
       /\ \A i, j \in 1..Len(all) : i < j =>
            B!Before(all[i].id, all[j].id, order)
  BY <1>7, <1>8, <1>9, <1>10
<1>. QED
  BY <1>6, <1>11, <1>12 DEF found, S, all

\* It does not change while no document does.
LEMMA MessagesFoundSame ==
  ASSUME UNCHANGED <<docs, order>>, NEW c
  PROVE  AllMessages(c)' = AllMessages(c)
<1>1. \A d : Stored(d)' = Stored(d)
  BY DEF Stored
<1>2. {m \in Messages : Stored(m) /\ docs[m].channel = c}' =
        {m \in Messages : Stored(m) /\ docs[m].channel = c}
  BY <1>1
<1>3. ASSUME NEW S PROVE Page(S, MessageLimit)' = Page(S, MessageLimit)
  BY DEF Page
<1>. QED
  BY <1>2, <1>3 DEF AllMessages

\* The list shown is right when there is nothing to be heard of.
LEMMA FoundRight ==
  ASSUME ChatInv, UNCHANGED <<docs, order>>, Stream' = <<>>,
         NEW c \in Channels, NEW l, l = AllMessages(c)
  PROVE  ListRight(l, c)' /\ (RoomForAll => AllThere(l, c)')
<1>a. /\ l \in Seq(MessageEntries)
      /\ \A i \in 1..Len(l) :
           l[i].id \in MessagesOf(c) /\ l[i].doc = docs[l[i].id]
      /\ \A i, j \in 1..Len(l) : i < j => B!Before(l[i].id, l[j].id, order)
      /\ Len(Those(order, MessagesOf(c))) <= MessageLimit =>
           \A m \in MessagesOf(c) : \E i \in 1..Len(l) : l[i].id = m
  BY MessagesFoundAll
<1>b. 1..Len(Stream') = {}
  OBVIOUS
<1>1. InLine(l)'
  BY <1>a, <1>b DEF InLine
<1>2. ASSUME NEW x \in B!ElementsOf(l)
      PROVE  /\ x.id \in Messages /\ Version(x.id, x.doc)
             /\ x.doc.channel = c /\ x.doc.text = docs[x.id].text
  <2>1. x.id \in MessagesOf(c) /\ x.doc = docs[x.id]
    BY <1>a DEF B!ElementsOf
  <2>2. x.id \in Messages /\ Stored(x.id) /\ docs[x.id].channel = c
    BY <2>1 DEF MessagesOf
  <2>3. Version(x.id, docs[x.id])
    BY <2>2 DEF Version, ChatInv, Collections, StoredWhereItBelongs, Ids,
                Stored
  <2>. QED
    BY <2>1, <2>2, <2>3
<1>3. BodiesRight(l, c)'
  BY <1>2 DEF BodiesRight, Version, Stored
<1>4. GhostsTold(l, c)'
  <2>1. \A m \in B!IdsOf(l) : Stored(m)
    BY <1>a DEF B!IdsOf, MessagesOf
  <2>. QED
    BY <2>1 DEF GhostsTold, Stored
<1>5. ASSUME RoomForAll PROVE AllThere(l, c)'
  <2>1. \A m \in Messages : Stored(m) /\ docs[m].channel = c =>
          m \in B!IdsOf(l)
    BY <1>a, <1>5 DEF B!IdsOf, MessagesOf, RoomForAll
  <2>. QED
    BY <2>1 DEF AllThere, Stored
<1>. QED
  BY <1>1, <1>3, <1>4, <1>5 DEF ListRight

\* The default channel is the first the tab finds.
LEMMA GeneralFoundFirst ==
  ASSUME ChatInv, Uncut
  PROVE  AllChannels[1].id = General
<1>. DEFINE all == AllChannels
<1>a. /\ all \in Seq(ChannelEntries)
      /\ \A i, j \in 1..Len(all) :
           i < j => B!Before(all[i].id, all[j].id, order)
      /\ \A c \in Channels : Stored(c) =>
           \E i \in 1..Len(all) : all[i].id = c
  BY FoundAll
<1>b. Natural /\ General \in Channels /\ Stored(General)
  BY ConstantsDistinct DEF ChatInv, GeneralStays
<1>. HIDE DEF all
<1>1. PICK k \in 1..Len(all) : all[k].id = General
  BY <1>a, <1>b
<1>2. \A a : ~B!Before(a, General, order)
  <2>. SUFFICES ASSUME NEW i \in 1..Len(order), NEW j \in 1..Len(order),
                       i < j, order[j] = General
                PROVE  FALSE
    BY DEF B!Before
  <2>1. 1 \in 1..Len(order) /\ order[1] = General
    BY <1>b DEF Natural
  <2>2. j = 1
    BY <1>b, <2>1 DEF Natural, B!Distinct
  <2>. QED
    BY <2>2
<1>3. 1 \in 1..Len(all) /\ ~(1 < k)
  BY <1>a, <1>1, <1>2
<1>. QED
  BY <1>1, <1>3 DEF all

\* The tab's own steps leave the lists of messages, but for one that is shown.
LEMMA TabLists ==
  ASSUME ChatInv, ChatNext, ~Serve, ~Receive
  PROVE  /\ unheard' = unheard
         /\ \/ view'.messages = view.messages
            \/ \E f \in fetches :
                 /\ ShowMessages(f) /\ f.channel \in Channels
                 /\ B!Cached(view') = B!Cached(view) \cup {f.channel}
                 /\ view'.messages[f.channel] = f.data
                 /\ \A c \in B!Cached(view) \ {f.channel} :
                      view'.messages[c] = view.messages[c]
<1>a. view \in Views /\ \A f \in fetches : FetchOf(f)
  BY DEF ChatInv, ChatTypes
<1>1. ASSUME NEW f \in fetches, ShowMessages(f)
      PROVE  /\ f.channel \in Channels
             /\ B!Cached(view') = B!Cached(view) \cup {f.channel}
             /\ view'.messages[f.channel] = f.data
             /\ \A c \in B!Cached(view) \ {f.channel} :
                  view'.messages[c] = view.messages[c]
  <2>. DEFINE L == Seq(MessageEntries)
  <2>1. view \in B!Views(ChannelEntries, Channels, L)
    BY <1>a DEF Views, B!TabViews, ChannelEntries, MessageEntries
  <2>. HIDE DEF L
  <2>2. view' = B!Cache(view, f.channel, f.data) /\ f.channel \in Channels
    BY <1>a, <1>1
       DEF ShowMessages, Tab!ShowMessages, Tab!Cache, B!Cache, Tab!Cached,
           B!Cached, FetchOf
  <2>. PICK w : w = B!Cache(view, f.channel, f.data)
    OBVIOUS
  <2>3. /\ B!Cached(w) = B!Cached(view) \cup {f.channel}
        /\ w.messages[f.channel] = f.data
        /\ \A c \in B!Cached(view) \ {f.channel} :
             w.messages[c] = view.messages[c]
    BY <2>1, B!CachedLists
  <2>4. view' = w
    BY <2>2
  <2>. QED
    BY <2>2, <2>3, <2>4
<1>2. CASE ShowUser \/ Join \/ Touch
  BY <1>2 DEF ShowUser, Join, Touch
<1>3. ASSUME NEW f \in fetches, FindChannels(f) \/ FindMessages(f)
      PROVE  UNCHANGED <<view, unheard>>
  BY <1>3 DEF FindChannels, FindMessages, Return
<1>4. ASSUME NEW f \in fetches, ShowChannels(f)
      PROVE  view'.messages = view.messages /\ unheard' = unheard
  BY <1>a, <1>4 DEF ShowChannels, Tab!ShowChannels, Views, B!TabViews, B!Views
<1>5. CASE Click
  <2>1. unheard' = unheard
    BY <1>5 DEF Click
  <2>. QED
    BY <1>a, <1>5, <2>1, Clicked
       DEF ChatInv, Tab!Click, Views, B!TabViews, B!Views
<1>6. ASSUME NEW f \in fetches, ShowMessages(f)
      PROVE  unheard' = unheard
  BY <1>6 DEF ShowMessages
<1>. QED
  BY <1>1, <1>2, <1>3, <1>4, <1>5, <1>6 DEF ChatNext

\* The tab goes on fetching what it displays.
LEMMA FetchedStep ==
  ASSUME ChatInv, CalmInv, ~Overlaps, Uncut, ChatNext, ~Serve, ~Receive,
         FetchedRight
  PROVE  FetchedRight'
<1>a. view \in Views /\ \A f \in fetches : FetchOf(f)
  BY DEF ChatInv, ChatTypes
<1>b. UNCHANGED <<docs, order>>
  BY TabSteps DEF vars
<1>c. \A c : AllMessages(c)' = AllMessages(c)
  BY <1>b, MessagesFoundSame
<1>d. \A f \in fetches : f.kind = "messages" /\ f.data # Null =>
        f.data = AllMessages(f.channel)
  BY DEF FetchedRight
<1>e. Loaded => Provided(General) /\ Provided(view.current.id)
  BY DEF FetchedRight
<1>f. ASSUME NEW fs, NEW w, NEW k, fetches' = fs, view' = w,
             w.current.id = k,
             \A f \in fs : f.kind = "messages" /\ f.data # Null =>
               f.data = AllMessages(f.channel),
             Loaded' => Provided(General)' /\ Provided(k)'
      PROVE  FetchedRight'
  <2>1. \A f \in fs : f.kind = "messages" /\ f.data # Null =>
          f.data = AllMessages(f.channel)'
    BY <1>c, <1>f
  <2>. QED
    BY <1>f, <2>1 DEF FetchedRight, Provided
<1>. PICK fs, w : fs = fetches' /\ w = view'
  OBVIOUS
<1>. PICK k : k = w.current.id
  OBVIOUS
<1>1. CASE ShowUser \/ Join \/ Touch
  <2>1. UNCHANGED <<view, fetches>>
    BY <1>1 DEF ShowUser, Join, Touch
  <2>. QED
    BY <1>d, <1>e, <1>f, <2>1 DEF Loaded, Provided
<1>2. ASSUME NEW f \in fetches, FindChannels(f) \/ FindMessages(f)
      PROVE  FetchedRight'
  <2>1. PICK data :
          /\ fetches' = (fetches \ {f}) \cup {[f EXCEPT !.data = data]}
          /\ f.kind = "messages" => data = AllMessages(f.channel)
    <3>1. CASE FindChannels(f)
      BY <3>1 DEF FindChannels, Return
    <3>2. CASE FindMessages(f)
      BY <3>2 DEF FindMessages, Return
    <3>. QED
      BY <1>2, <3>1, <3>2
  <2>. PICK g : g = [f EXCEPT !.data = data]
    OBVIOUS
  <2>2. g.kind = f.kind /\ g.channel = f.channel /\ g.data = data
    BY <1>a DEF FetchOf
  <2>3. view' = view
    BY <1>2 DEF FindChannels, FindMessages, Return
  <2>4. fs = (fetches \ {f}) \cup {g}
    BY <2>1
  <2>5. \A h \in fs : h.kind = "messages" /\ h.data # Null =>
          h.data = AllMessages(h.channel)
    BY <1>d, <2>1, <2>2, <2>4
  <2>6. \A c : Provided(c) => Provided(c)'
    BY <2>2, <2>3, <2>4 DEF Provided
  <2>. QED
    BY <1>e, <1>f, <2>3, <2>5, <2>6 DEF Loaded
<1>3. ASSUME NEW f \in fetches, ShowChannels(f) PROVE FetchedRight'
  <2>. DEFINE g == Fetch("messages", f.data[1].id)
  <2>1. f.data = AllChannels /\ AllChannels[1].id = General
    BY <1>3, GeneralFoundFirst DEF CalmInv, LoadsInPeace, ShowChannels
  <2>2. /\ view'.current = f.data[1]
        /\ fetches' = (fetches \ {f}) \cup {g}
    BY <1>3, <1>a DEF ShowChannels, Tab!ShowChannels, Views, B!TabViews,
                      B!Views
  <2>3. g.kind = "messages" /\ g.channel = General /\ g.data = Null
    BY <2>1 DEF Fetch
  <2>. HIDE DEF g
  <2>4. \A h \in fs : h.kind = "messages" /\ h.data # Null =>
          h.data = AllMessages(h.channel)
    BY <1>d, <2>2, <2>3
  <2>5. k = General
    BY <2>1, <2>2
  <2>6. Provided(General)'
    BY <2>2, <2>3 DEF Provided
  <2>. QED
    BY <1>f, <2>4, <2>5, <2>6
<1>4. ASSUME NEW f \in fetches, ShowMessages(f) PROVE FetchedRight'
  <2>1. fs = fetches \ {f} /\ f.kind = "messages"
    BY <1>4 DEF ShowMessages
  <2>2. w.channels = view.channels /\ w.current = view.current
    BY <1>4, <1>a DEF ShowMessages, Tab!ShowMessages, Tab!Cache, Views,
                      B!TabViews, B!Views
  <2>3. B!Cached(w) = B!Cached(view) \cup {f.channel}
    BY <1>4
       DEF ShowMessages, Tab!ShowMessages, Tab!Cache, B!Cached, Tab!Cached,
           Views, B!TabViews, B!Views
  <2>4. \A c : Provided(c) => Provided(c)'
    BY <2>1, <2>3 DEF Provided
  <2>. QED
    BY <1>d, <1>e, <1>f, <2>1, <2>2, <2>4 DEF Loaded
<1>5. CASE Click
  <2>1. PICK i \in 1..Len(view.channels) :
          /\ view' = Tab!Click(view, view.channels[i])
          /\ fetches' = fetches \cup {Fetch("messages", view.channels[i].id)}
    BY <1>5, Clicked DEF ChatInv
  <2>. PICK g : g = Fetch("messages", view.channels[i].id)
    OBVIOUS
  <2>2. /\ w.current = view.channels[i] /\ w.messages = view.messages
        /\ w.channels = view.channels
    BY <1>a, <2>1 DEF Tab!Click, Views, B!TabViews, B!Views
  <2>3. g.kind = "messages" /\ g.channel = k /\ g.data = Null
    BY <2>2 DEF Fetch
  <2>4. fs = fetches \cup {g}
    BY <2>1
  <2>5. \A h \in fs : h.kind = "messages" /\ h.data # Null =>
          h.data = AllMessages(h.channel)
    BY <1>d, <2>3, <2>4
  <2>6. Provided(k)' /\ (Provided(General) => Provided(General)')
    BY <2>2, <2>3, <2>4 DEF Provided, B!Cached
  <2>7. Loaded' => Loaded
    BY <2>2 DEF Loaded
  <2>. QED
    BY <1>e, <1>f, <2>5, <2>6, <2>7
<1>. QED
  BY <1>1, <1>2, <1>3, <1>4, <1>5 DEF ChatNext

\* Hearing of an event, it keeps the lists of the default channel and of the
\* one it then displays.
LEMMA FetchedHeard ==
  ASSUME ChatInv, CalmInv, Receive, FetchedRight
  PROVE  FetchedRight'
<1>. PICK e : e = Head(queue)
  OBVIOUS
<1>. PICK w : w = view'
  OBVIOUS
<1>a. /\ B!Delivers(w, view, e) /\ Consume /\ Loaded
      /\ fetches = {} /\ fetches' = {}
  BY MessagesHeard
<1>b. /\ B!Follows(w, view, e)
      /\ \/ w.current = view.current
         \/ e.type = "channel-new" /\ w.current.id = e.id
         \/ /\ e.type = "channel-delete" /\ Listed(e.id)
            /\ view.current.id = e.id
         \/ /\ e.type = "channel-update"
            /\ w.current.id = view.current.id
  BY Heard
<1>c. /\ Announced(e) /\ 1 \in 1..Len(queue) /\ e = queue[1]
  BY <1>a, NextEvent DEF ChatInv
<1>d. ListedRight /\ InOrder /\ ShownRight /\ CurrentListed
  BY <1>a DEF CalmInv
<1>e. /\ view.channels \in Seq(ChannelEntries)
      /\ view.current # Null
  BY <1>d, OtherViews DEF ChatInv, ChatTypes, ShownRight
<1>f. General \in B!Cached(view) /\ view.current.id \in B!Cached(view)
  BY <1>a DEF FetchedRight, Provided
<1>1. ~(e.type = "channel-delete" /\ e.id = General)
  BY <1>c DEF AnnouncedGoing, CalmInv, ChatInv, GeneralStays,
              GoneOrGoing, Stored
<1>2. General \in B!Cached(w)
  BY <1>a, <1>f, <1>1 DEF B!Delivers
<1>3. w.current.id \in B!Cached(w)
  <2>1. CASE e.type = "channel-delete" /\ view.current.id = e.id
    <3>1. view.channels[1].id = General
      BY <1>a, <1>d, <1>e, GeneralFirst DEF ChatInv
    <3>2. B!Displays(view, e.id) /\ e.id \in B!IdsOf(view.channels)
      BY <1>d, <1>e, <2>1 DEF B!Displays, CurrentListed, Listed
    <3>3. w.current = view.channels[1]
      BY <1>b, <2>1, <3>2 DEF B!Follows
    <3>. QED
      BY <1>2, <3>1, <3>3
  <2>2. CASE e.type = "channel-new" /\ w.current.id = e.id
    BY <1>a, <2>2 DEF B!Delivers
  <2>3. CASE /\ w.current.id = view.current.id
             /\ ~(e.type = "channel-delete" /\ view.current.id = e.id)
    BY <1>a, <1>f, <2>3 DEF B!Delivers
  <2>. QED
    BY <1>b, <2>1, <2>2, <2>3
<1>. QED
  BY <1>a, <1>2, <1>3 DEF FetchedRight, Provided

-----------------------------------------------------------------------------
(* Every step keeps the lists of messages right.                             *)

ListsRight == \A c \in B!Cached(view) : ListRight(view.messages[c], c)

AllListed == \A c \in B!Cached(view) : AllThere(view.messages[c], c)

MessagesInv == StreamRight /\ ListsRight /\ FetchedRight

\* The lists are right when each of them is.
LEMMA EachRight ==
  /\ (\A c \in B!Cached(view') : \A l : l = view'.messages[c] =>
        ListRight(l, c)')
     => ListsRight'
  /\ (\A c \in B!Cached(view') : \A l : l = view'.messages[c] =>
        AllThere(l, c)')
     => AllListed'
<1>. USE DEF B!Cached, InLine, BodiesRight, GhostsTold, AllThere, Version,
             Stored, GoneOrGoing, Deleting
<1>1. (\A c \in B!Cached(view') : \A l : l = view'.messages[c] =>
         ListRight(l, c)')
      => ListsRight'
  BY DEF ListsRight, ListRight
<1>2. (\A c \in B!Cached(view') : \A l : l = view'.messages[c] =>
         AllThere(l, c)')
      => AllListed'
  BY DEF AllListed
<1>. QED
  BY <1>1, <1>2

\* The types of the lists.
LEMMA ListTypes ==
  ASSUME ChatInv, NEW c \in B!Cached(view)
  PROVE  c \in Channels /\ view.messages[c] \in Seq(MessageEntries)
  BY OtherViews DEF ChatInv, ChatTypes, Tab!Cached, B!Cached

\* A list that is not touched stays right.
LEMMA UntouchedRight ==
  ASSUME ChatInv, ChatInv', InTurn, Undisturbed, StreamMoves, ~Consume,
         order' = order \/ \E x \in Ids : order' = Append(order, x),
         unheard \subseteq unheard',
         NEW c \in B!Cached(view), NEW l, l = view.messages[c],
         ListRight(l, c)
  PROVE  ListRight(l, c)' /\ (AllThere(l, c) => AllThere(l, c)')
<1>1. /\ Inv /\ Collections /\ Collections' /\ Natural /\ Natural'
      /\ c \in Channels /\ l \in Seq(MessageEntries)
      /\ InLine(l) /\ BodiesRight(l, c) /\ GhostsTold(l, c)
  BY ListTypes DEF ChatInv, ListRight
<1>2. InLine(l)'
  BY <1>1, InLineKept
<1>3. BodiesRight(l, c)'
  BY <1>1, BodiesKept
<1>4. GhostsTold(l, c)'
  BY <1>1, GhostsKept
<1>5. AllThere(l, c) => AllThere(l, c)'
  BY <1>1, AllThereKept
<1>. QED
  BY <1>2, <1>3, <1>4, <1>5 DEF ListRight

\* So does a list that has changed with an event.
LEMMA TouchedRight ==
  ASSUME ChatInv, CalmInv, Receive, InTurn, StreamMoves, StreamRight,
         ListsRight, NEW c \in B!Cached(view)', NEW l, l = view'.messages[c]
  PROVE  ListRight(l, c)' /\ (AllListed => AllThere(l, c)')
<1>. PICK e : e = Head(queue)
  OBVIOUS
<1>. PICK w : w = view'
  OBVIOUS
<1>a. /\ B!Delivers(w, view, e) /\ Consume
      /\ UNCHANGED <<docs, req, background, order>>
      /\ unheard \subseteq unheard'
      /\ e.type = "message-delete" =>
           /\ ~Stored(e.id)
           /\ \A d \in B!Cached(view) :
                ~B!Displays(view, d) /\ e.id \in B!IdsOf(view.messages[d])
                => e.id \in unheard'
  BY MessagesHeard
<1>b. /\ Inv /\ Collections /\ Natural
      /\ InTime /\ CarriedRight /\ DeletedLater /\ AllAhead
  BY DEF ChatInv, StreamRight
<1>c. /\ Stream # <<>> /\ Stream' = Tail(Stream) /\ e = Stream[1]
      /\ 1 \in 1..Len(Stream)
  <2>1. Stream # <<>> /\ Head(Stream) = e /\ Stream' = Tail(Stream)
    BY <1>a DEF StreamMoves
  <2>. QED
    BY <1>b, <2>1, StreamMeans, StreamTaken
<1>d. c \in B!Cached(w) /\ l = w.messages[c]
  BY DEF B!Cached
<1>1. CASE e.type = "channel-new" /\ c = e.id /\ l = <<>>
  <2>1. c \in Channels
    BY <1>b, <1>c, <1>1, StreamMeans
  <2>2. ListRight(<<>>, c)' /\ AllThere(<<>>, c)'
    BY <1>a, <1>b, <1>c, <1>1, <2>1, EmptyRight
  <2>. QED
    BY <1>1, <2>2
<1>2. ASSUME c \in B!Cached(view), NEW k, k = view.messages[c],
             B!ListedOnce(k) => B!Relays(l, k, view, e, c)
      PROVE  ListRight(l, c)' /\ (AllListed => AllThere(l, c)')
  <2>1. InLine(k) /\ BodiesRight(k, c) /\ GhostsTold(k, c)
    BY <1>2 DEF ListsRight, ListRight
  <2>2. B!ListedOnce(k)
    <3>1. \A a : ~B!Before(a, a, order)
      BY <1>b DEF B!Before, Natural, B!Distinct
    <3>2. ASSUME NEW i \in 1..Len(k), NEW j \in 1..Len(k), k[i].id = k[j].id
          PROVE  i = j
      <4>1. ~(i < j) /\ ~(j < i)
        BY <2>1, <3>1, <3>2 DEF InLine
      <4>2. Len(k) \in Nat
        BY <1>2, ListTypes
      <4>. QED
        BY <4>1, <4>2
    <3>. QED
      BY <3>2 DEF B!ListedOnce
  <2>3. B!Relays(l, k, view, e, c)
    BY <1>2, <2>2
  <2>4. InLine(l)'
    BY <1>a, <1>b, <1>c, <2>1, <2>3, InLineHeard
  <2>5. BodiesRight(l, c)'
    BY <1>a, <1>b, <1>c, <2>1, <2>3, BodiesHeard
  <2>6. GhostsTold(l, c)'
    <3>1. e.type = "message-delete" =>
            (~B!Displays(view, c) /\ e.id \in B!IdsOf(k) =>
               e.id \in unheard')
      BY <1>a, <1>2
    <3>. QED
      BY <1>a, <1>b, <1>c, <2>1, <2>3, <3>1, GhostsHeard
  <2>7. ASSUME AllListed PROVE AllThere(l, c)'
    <3>1. AllThere(k, c)
      BY <1>2, <2>7 DEF AllListed
    <3>. QED
      BY <1>a, <1>b, <1>c, <2>3, <3>1, AllThereHeard
  <2>. QED
    BY <2>4, <2>5, <2>6, <2>7 DEF ListRight
<1>. QED
  BY <1>a, <1>d, <1>1, <1>2 DEF B!Delivers

\* Every step keeps them right, while requests are served one at a time.
LEMMA MessagesStep ==
  ASSUME ChatInv, ChatInv', CalmInv, Calm, InTurn, InTurn', MessagesInv,
         [ChatNext]_chatVars
  PROVE  MessagesInv' /\ (RoomForAll /\ AllListed => AllListed')
<1>. DEFINE Still(l, c) == /\ ListRight(l, c)'
                           /\ RoomForAll /\ AllListed => AllThere(l, c)'
<1>a. /\ Inv /\ Collections /\ Collections' /\ Natural /\ Natural'
      /\ mqChannel = "open" /\ ~Overlaps /\ Uncut
      /\ StreamRight /\ ListsRight /\ FetchedRight
  BY DEF ChatInv, CalmInv, Calm, MessagesInv
<1>b. Undisturbed
  BY ChatUndisturbed DEF chatVars, Undisturbed
<1>c. order' = order \/ \E x \in Ids : order' = Append(order, x)
  <2>1. Serve \/ UNCHANGED <<docs, order>>
    BY OrderStays DEF chatVars, vars
  <2>. QED
    BY <1>a, <1>b, <2>1, NaturalStep
<1>d. StreamMoves /\ StreamRight'
  BY <1>a, <1>b, <1>c, StreamRightStep
<1>e. ASSUME ~Consume, unheard' = unheard,
             NEW c \in B!Cached(view), NEW l, l = view.messages[c]
      PROVE  Still(l, c)
  <2>1. ListRight(l, c) /\ (AllListed => AllThere(l, c))
    BY <1>a, <1>e DEF ListsRight, AllListed
  <2>. QED
    BY <1>b, <1>c, <1>d, <1>e, <2>1, UntouchedRight
<1>f. ASSUME \A c \in B!Cached(view') : \A l : l = view'.messages[c] =>
               Still(l, c)
      PROVE  ListsRight' /\ (RoomForAll /\ AllListed => AllListed')
  BY <1>f, EachRight
<1>1. CASE (Serve /\ ~Receive) \/ UNCHANGED chatVars
  <2>1. view' = view /\ unheard' = unheard /\ ~Consume
    <3>1. CASE Serve /\ ~Receive
      BY <1>a, <3>1, NotReceived DEF Serve, tabVars
    <3>2. CASE UNCHANGED chatVars
      <4>1. queue' = queue /\ queue \in Seq(Events)
        BY <1>a, <3>2 DEF chatVars, vars, Inv, TypeOK
      <4>. QED
        BY <3>2, <4>1 DEF chatVars, tabVars, Consume
    <3>. QED
      BY <1>1, <3>1, <3>2
  <2>2. ListsRight' /\ (RoomForAll /\ AllListed => AllListed')
    <3>. HIDE DEF Still
    <3>. QED
      BY <1>e, <1>f, <2>1
  <2>3. FetchedRight'
    <3>1. CASE Serve
      BY <1>a, <3>1, ServesNotQuiet DEF FetchedRight, Loaded, Provided
    <3>2. CASE UNCHANGED chatVars
      <4>1. \A c : AllMessages(c)' = AllMessages(c)
        BY <3>2, MessagesFoundSame DEF chatVars, vars
      <4>2. view' = view /\ fetches' = fetches
        BY <3>2 DEF chatVars, tabVars
      <4>. QED
        BY <1>a, <4>1, <4>2 DEF FetchedRight, Loaded, Provided
    <3>. QED
      BY <1>1, <3>1, <3>2
  <2>. QED
    BY <1>d, <2>2, <2>3 DEF MessagesInv
<1>2. CASE ChatNext /\ ~Serve /\ ~Receive
  <2>1. /\ UNCHANGED <<vars, order>> /\ ~Consume
        /\ unheard' = unheard
    BY <1>a, <1>2, TabSteps, TabLists, NotReceived
  <2>2. ASSUME fetches # {} PROVE Stream' = <<>>
    <3>0. Quiet
      BY <1>a, <2>2 DEF CalmInv, LoadsInPeace
    <3>1. queue' = <<>> /\ \A r \in Requests : ~At(r, "reply")'
      BY <2>1, <3>0 DEF Quiet, vars, Active, At
    <3>. QED
      BY <3>1, StreamIs
  <2>3. ASSUME NEW c \in B!Cached(view'), NEW l, l = view'.messages[c]
        PROVE  Still(l, c)
    <3>1. CASE view'.messages = view.messages
      <4>1. c \in B!Cached(view) /\ l = view.messages[c]
        BY <2>3, <3>1 DEF B!Cached
      <4>. HIDE DEF Still
      <4>. QED
        BY <1>e, <2>1, <4>1
    <3>2. ASSUME NEW f \in fetches, ShowMessages(f), f.channel \in Channels,
                 B!Cached(view') = B!Cached(view) \cup {f.channel},
                 view'.messages[f.channel] = f.data,
                 \A d \in B!Cached(view) \ {f.channel} :
                   view'.messages[d] = view.messages[d]
          PROVE  Still(l, c)
      <4>1. CASE c = f.channel
        <5>1. l = AllMessages(c) /\ c \in Channels
          BY <1>a, <2>3, <3>2, <4>1 DEF FetchedRight, ShowMessages
        <5>2. UNCHANGED <<docs, order>>
          BY <2>1 DEF vars
        <5>. QED
          BY <2>2, <3>2, <5>1, <5>2, FoundRight
      <4>2. CASE c # f.channel
        <5>1. c \in B!Cached(view) /\ l = view.messages[c]
          BY <2>3, <3>2, <4>2
        <5>. HIDE DEF Still
        <5>. QED
          BY <1>e, <2>1, <5>1
      <4>. QED
        BY <4>1, <4>2
    <3>. HIDE DEF Still
    <3>. QED
      BY <1>2, <3>1, <3>2, TabLists
  <2>4. ListsRight' /\ (RoomForAll /\ AllListed => AllListed')
    <3>. HIDE DEF Still
    <3>. QED
      BY <1>f, <2>3
  <2>5. FetchedRight'
    BY <1>a, <1>2, FetchedStep
  <2>. QED
    BY <1>d, <2>4, <2>5 DEF MessagesInv
<1>3. CASE Receive
  <2>1. ASSUME NEW c \in B!Cached(view'), NEW l, l = view'.messages[c]
        PROVE  Still(l, c)
    <3>1. c \in B!Cached(view)'
      BY <2>1 DEF B!Cached
    <3>. QED
      BY <1>a, <1>d, <1>3, <2>1, <3>1, TouchedRight
  <2>2. ListsRight' /\ (RoomForAll /\ AllListed => AllListed')
    <3>. HIDE DEF Still
    <3>. QED
      BY <1>f, <2>1
  <2>3. FetchedRight'
    BY <1>a, <1>3, FetchedHeard
  <2>. QED
    BY <1>d, <2>2, <2>3 DEF MessagesInv
<1>. QED
  BY <1>1, <1>2, <1>3

\* At the beginning there is no list, and nothing to be heard of.
LEMMA MessagesStart == ChatInit => MessagesInv /\ AllListed
<1>. SUFFICES ASSUME ChatInit PROVE MessagesInv /\ AllListed
  OBVIOUS
<1>1. /\ \A r \in Requests : ~Active(r) /\ ~At(r, "reply") /\ ~At(r, "write")
      /\ queue = <<>> /\ background = {}
  BY DEF ChatInit, Init, Active, At, NoRequest
<1>2. Stream = <<>> /\ 1..Len(Stream) = {}
  <2>1. Stream = queue
    BY <1>1, StreamIs
  <2>. QED
    BY <1>1, <2>1
<1>3. PostsHomed /\ AllGoing
  BY <1>1 DEF PostsHomed, AllGoing
<1>4. \A m \in Messages : ~Stored(m)
  BY ConstantsDistinct DEF ChatInit, Init, Stored, Ids
<1>5. StreamRight
  BY <1>2, <1>3, <1>4
     DEF StreamRight, Homed, InTime, CarriedRight, DeletedLater, AllAhead
<1>6. B!Cached(view) = {} /\ ~Loaded
  <2>1. view.messages = <<>> /\ view.channels = <<>>
    BY DEF ChatInit, Tab!EmptyView
  <2>. QED
    BY <2>1 DEF B!Cached, Loaded
<1>7. ListsRight /\ AllListed
  BY <1>6 DEF ListsRight, AllListed
<1>8. FetchedRight
  BY <1>6 DEF FetchedRight, ChatInit, Fetch
<1>. QED
  BY <1>5, <1>7, <1>8 DEF MessagesInv

\* When everything has settled, the tab has the list of the channel it
\* displays, and has heard of everything there was to be heard of.
LEMMA SettledLists ==
  ASSUME ChatInv, CalmInv, MessagesInv, Settled
  PROVE  \E c \in Channels, l \in Seq(MessageEntries) :
           /\ view.current.id = c /\ Tab!Shown(view) = l
           /\ c \in B!Cached(view) /\ l = view.messages[c]
           /\ ListRight(l, c) /\ ~GoneOrGoing(c)
           /\ Stream = <<>>
<1>a. /\ queue = <<>> /\ background = {} /\ fetches = {}
      /\ \A r \in Requests : ~Active(r)
  BY DEF Settled, Quiet
<1>b. /\ Loaded /\ ListedRight /\ ShownRight /\ CurrentListed
      /\ ListsRight /\ FetchedRight
  BY <1>a DEF CalmInv, LoadsInPeace, MessagesInv
<1>c. view.current \in ChannelEntries /\ view.current # Null
  BY <1>b, OtherViews DEF ChatInv, ChatTypes, ShownRight
<1>. PICK c : c = view.current.id
  OBVIOUS
<1>. PICK l : l = view.messages[c]
  OBVIOUS
<1>1. c \in Channels /\ c \in B!Cached(view)
  BY <1>a, <1>b, <1>c DEF FetchedRight, Provided, ChannelEntries
<1>2. l \in Seq(MessageEntries) /\ ListRight(l, c)
  BY <1>1, <1>b, ListTypes DEF ListsRight
<1>3. Tab!Shown(view) = l
  BY <1>1, <1>c DEF Tab!Shown, Tab!Cached, B!Cached
<1>4. ~GoneOrGoing(c)
  <2>1. ~Ending(c)
    BY <1>a DEF Ending
  <2>2. Kept(c)
    BY <1>b, <1>1, <2>1 DEF ListedRight, CurrentListed
  <2>. QED
    BY <2>2 DEF Kept, Stored, GoneOrGoing
<1>5. Stream = <<>>
  BY <1>a, StreamIs DEF Active, At
<1>. QED
  BY <1>1, <1>2, <1>3, <1>4, <1>5

\* Then the list is, apart from messages that are gone, what a reload would
\* show.
LEMMA SettledMessages ==
  ASSUME ChatInv, CalmInv, MessagesInv, Settled, RoomForAll, AllListed
  PROVE  Those(Tab!Shown(view), {x \in Entries(Messages) : Stored(x.id)}) =
           AllMessages(view.current.id)
<1>. PICK c \in Channels, l \in Seq(MessageEntries) :
       /\ view.current.id = c /\ Tab!Shown(view) = l
       /\ c \in B!Cached(view) /\ l = view.messages[c]
       /\ ListRight(l, c) /\ ~GoneOrGoing(c)
       /\ Stream = <<>>
  BY SettledLists
<1>. DEFINE E   == MessageEntries
            P   == {x \in Entries(Messages) : Stored(x.id)}
            k   == Those(l, P)
            all == AllMessages(c)
            S   == MessagesOf(c)
<1>a. /\ all \in Seq(E)
      /\ \A i \in 1..Len(all) :
           all[i].id \in S /\ all[i].doc = docs[all[i].id]
      /\ \A i, j \in 1..Len(all) : i < j =>
           B!Before(all[i].id, all[j].id, order)
      /\ \A m \in S : \E i \in 1..Len(all) : all[i].id = m
  BY MessagesFoundAll DEF RoomForAll
<1>b. \A x \in E : /\ x = [id |-> x.id, doc |-> x.doc] /\ x.id \in Messages
                   /\ x \in Entries(Messages)
  BY DEF MessageEntries, Entries, MessageDocs, Doc, Texts
<1>c. /\ \A i, j \in 1..Len(l) : i < j =>
           B!Before(l[i].id, l[j].id, order)
      /\ \A x \in B!ElementsOf(l) :
           /\ x \in E /\ x.id \in Messages /\ Version(x.id, x.doc)
           /\ x.doc.channel = c
           /\ Stored(x.id) => x.doc.text = docs[x.id].text
  <2>1. \A type, id : ~IsComing(Stream, type, id)
    BY DEF IsComing
  <2>2. \A x \in B!ElementsOf(l) : x \in E
    BY DEF B!ElementsOf
  <2>. QED
    BY <2>1, <2>2 DEF ListRight, InLine, BodiesRight
<1>d. \A m \in S : m \in B!IdsOf(l)
  <2>1. AllThere(l, c)
    BY DEF AllListed
  <2>2. \A type, id : ~IsComing(Stream, type, id)
    BY DEF IsComing
  <2>. QED
    BY <2>1, <2>2 DEF AllThere, MessagesOf
<1>e. S \subseteq Ids /\ \A m \in S : Stored(m) /\ docs[m].channel = c
  BY DEF MessagesOf, Ids
<1>1. ASSUME NEW x \in B!ElementsOf(l), Stored(x.id)
      PROVE  x.doc = docs[x.id] /\ x.id \in S
  <2>. PICK m, doc : m = x.id /\ doc = x.doc
    OBVIOUS
  <2>1. /\ m \in Messages /\ Version(m, doc) /\ doc.channel = c
        /\ Stored(m) /\ doc.text = docs[m].text
    BY <1>c, <1>1
  <2>2. doc \in MessageDocs /\ docs[m] \in MessageDocs
    BY <2>1, ConstantsDistinct
       DEF Version, DocsOf, ChatInv, Collections, StoredWhereItBelongs, Ids
  <2>3. /\ doc.creator = docs[m].creator /\ doc.channel = docs[m].channel
    BY <2>1 DEF Version
  <2>4. doc = docs[m]
    BY <2>1, <2>2, <2>3 DEF MessageDocs
  <2>. QED
    BY <2>1, <2>3, <2>4 DEF MessagesOf
<1>2. /\ k \in Seq(E) /\ B!ElementsOf(k) = B!ElementsOf(l) \cap P
      /\ B!Ordered(k, l)
  <2>1. k = B!Those(l, P)
    BY ThoseSame
  <2>. HIDE DEF k, P, E
  <2>2. l \in Seq(E)
    BY DEF E
  <2>. QED
    BY <2>1, <2>2, B!ThoseAre
<1>3. \A x \in B!ElementsOf(k) : x \in B!ElementsOf(l) /\ Stored(x.id)
  BY <1>2
<1>4. \A x \in B!ElementsOf(l) : Stored(x.id) => x \in B!ElementsOf(k)
  BY <1>b, <1>c, <1>2
<1>. HIDE DEF E, P, k, all, S
<1>5. \A i \in 1..Len(k) :
        k[i] \in E /\ k[i].id \in S /\ k[i].doc = docs[k[i].id]
  BY <1>1, <1>2, <1>3 DEF B!ElementsOf
<1>6. \A m \in S : \E i \in 1..Len(k) : k[i].id = m
  <2>. SUFFICES ASSUME NEW m \in S PROVE \E i \in 1..Len(k) : k[i].id = m
    OBVIOUS
  <2>1. PICK x \in B!ElementsOf(l) : x.id = m
    BY <1>d DEF B!IdsOf, B!ElementsOf
  <2>2. x \in B!ElementsOf(k)
    BY <1>4, <1>e, <2>1
  <2>. QED
    BY <2>1, <2>2 DEF B!ElementsOf
<1>7. \A i, j \in 1..Len(k) : i < j => B!Before(k[i].id, k[j].id, order)
  <2>. SUFFICES ASSUME NEW i \in 1..Len(k), NEW j \in 1..Len(k), i < j
                PROVE  B!Before(k[i].id, k[j].id, order)
    OBVIOUS
  <2>1. B!Before(k[i], k[j], l)
    BY <1>2 DEF B!Ordered
  <2>2. PICK a \in 1..Len(l), b \in 1..Len(l) :
          a < b /\ l[a] = k[i] /\ l[b] = k[j]
    BY <2>1 DEF B!Before
  <2>3. B!Before(l[a].id, l[b].id, order)
    BY <1>c, <2>2
  <2>. QED
    BY <2>2, <2>3
<1>8. k = all
  <2>. DEFINE t == [i \in 1..Len(k) |-> k[i].id]
              u == [i \in 1..Len(all) |-> all[i].id]
  <2>1. /\ t \in Seq(Ids) /\ Len(t) = Len(k)
        /\ \A i \in 1..Len(k) : t[i] = k[i].id
    BY <1>2, <1>5, <1>e
  <2>2. /\ u \in Seq(Ids) /\ Len(u) = Len(all)
        /\ \A i \in 1..Len(all) : u[i] = all[i].id
    BY <1>a, <1>e
  <2>. HIDE DEF t, u
  <2>3. B!Ordered(t, order) /\ B!ElementsOf(t) = S
    BY <1>5, <1>6, <1>7, <2>1 DEF B!Ordered, B!ElementsOf
  <2>4. B!Ordered(u, order) /\ B!ElementsOf(u) = S
    BY <1>a, <2>2 DEF B!Ordered, B!ElementsOf
  <2>5. order \in Seq(Ids) /\ B!Distinct(order)
    BY DEF ChatInv, Natural
  <2>6. t = u
    BY <2>1, <2>2, <2>3, <2>4, <2>5, B!SameOrder
  <2>7. Len(k) = Len(all)
    BY <2>1, <2>2, <2>6
  <2>8. \A i \in 1..Len(k) : all[i] \in E
    BY <1>a, <2>7
  <2>9. \A i \in 1..Len(k) : k[i] = all[i]
    BY <1>5, <1>a, <1>b, <2>1, <2>2, <2>6, <2>7, <2>8
  <2>. QED
    BY <1>2, <1>a, <2>7, <2>9
<1>. QED
  BY <1>8 DEF k, P, all

-----------------------------------------------------------------------------
(* The page.  It lags behind the tab's state only by the channels at which   *)
(* the handler has thrown, and these are not the ones displayed.             *)

\* A page that is there shows the messages the tab has, and lists the channel
\* it displays.
ScreenRight ==
  screen # Null =>
    /\ screen.messages = Tab!Shown(view)
    /\ Loaded => \E i \in 1..Len(screen.channels) :
                   screen.channels[i].id = view.current.id

\* When the handler throws, what the tab has of the channel displayed is left
\* as it was: the channel added is one the tab did not have.
LEMMA ThrownShown ==
  ASSUME ChatInv, CalmInv, Receive, Thrown(view', view, Head(queue))
  PROVE  /\ Loaded /\ view'.current = view.current
         /\ Tab!Shown(view') = Tab!Shown(view)
<1>. PICK e : e = Head(queue)
  OBVIOUS
<1>1. Loaded /\ Consume
  BY Heard
<1>2. /\ Announced(e) /\ e = queue[1] /\ 1 \in 1..Len(queue)
      /\ B!Fits(e, Channels, ChannelDocs, Messages, MessageDocs)
  BY <1>1, NextEvent DEF ChatInv
<1>3. InOrder /\ ShownRight /\ CurrentListed
  BY <1>1 DEF CalmInv
<1>4. view.channels \in Seq(ChannelEntries)
  BY OtherViews DEF ChatInv, ChatTypes
<1>5. CASE view' = view
  BY <1>1, <1>5
<1>6. CASE /\ e.type = "channel-new" /\ view'.current = view.current
           /\ \A c : c # e.id =>
                /\ c \in Tab!Cached(view') <=> c \in Tab!Cached(view)
                /\ c \in Tab!Cached(view) =>
                     view'.messages[c] = view.messages[c]
  <2>1. CreationAt(1, e.id) /\ e.id \in Channels
    BY <1>2, <1>6 DEF CreationAt, NewAt, B!Fits
  <2>2. ~Listed(e.id)
    BY <1>2, <1>3, <1>4, <2>1, OnceOnly DEF ChatInv
  <2>3. view.current.id # e.id
    BY <1>3, <2>2 DEF CurrentListed
  <2>. QED
    BY <1>1, <1>6, <2>3 DEF Tab!Shown
<1>. QED
  BY <1>5, <1>6 DEF Thrown

\* Every step keeps the page right.
LEMMA ScreenStep ==
  ChatInv /\ CalmInv /\ CalmInv' /\ ScreenRight /\ [ChatNext]_chatVars
  => ScreenRight'
<1>. SUFFICES ASSUME ChatInv, CalmInv, CalmInv', ScreenRight,
                     [ChatNext]_chatVars, screen' # Null
              PROVE  ScreenRight'
  BY DEF ScreenRight
<1>1. CASE Render
  <2>. PICK w, s : w = view' /\ s = screen'
    OBVIOUS
  <2>1. s = [channels |-> w.channels, current |-> w.current,
             messages |-> Tab!Shown(w)]
    BY <1>1 DEF Render, Tab!Screen
  <2>2. s.messages = Tab!Shown(w) /\ s.channels = w.channels
    BY <2>1
  <2>3. Loaded' => \E i \in 1..Len(w.channels) :
                     w.channels[i].id = w.current.id
    BY DEF CalmInv, CurrentListed, Listed, B!IdsOf
  <2>. QED
    BY <2>2, <2>3 DEF ScreenRight
<1>2. CASE UNCHANGED <<screen, view>>
  BY <1>2 DEF ScreenRight, Loaded
<1>3. CASE /\ Receive /\ screen' = screen
           /\ Thrown(view', view, Head(queue))
  <2>1. /\ Loaded /\ view'.current = view.current
        /\ Tab!Shown(view') = Tab!Shown(view)
    BY <1>3, ThrownShown
  <2>. QED
    BY <1>3, <2>1 DEF ScreenRight
<1>4. CASE UNCHANGED chatVars
  BY <1>2, <1>4 DEF chatVars, tabVars
<1>. QED
  BY <1>1, <1>2, <1>3, <1>4, Renders DEF ChatInv

\* The first page is rendered from the empty state.
LEMMA ScreenStart == ChatInit => ScreenRight
  BY DEF ChatInit, ScreenRight, Loaded, Tab!Screen, Tab!EmptyView

\* When everything has settled, the page shows what the tab has.
LEMMA SettledScreen ==
  ASSUME ChatInv, CalmInv, ScreenRight, Settled, screen # Null
  PROVE  /\ screen.current = view.current
         /\ screen.messages = Tab!Shown(view)
         /\ Uncut => /\ ShownOf(AllChannels, screen.channels)
                     /\ \E i \in 1..Len(screen.channels) :
                          screen.channels[i] = screen.current
<1>1. /\ screen.current = view.current
      /\ screen.channels \in Seq(ChannelEntries)
      /\ ShownOf(view.channels, screen.channels)
  BY DEF ChatInv, Rendered, Pages
<1>2. Loaded /\ InOrder
  BY DEF CalmInv, LoadsInPeace, Settled
<1>3. view.channels \in Seq(ChannelEntries)
  BY OtherViews DEF ChatInv, ChatTypes
<1>4. B!ListedOnce(view.channels)
  BY <1>2, <1>3, OnceOnly DEF ChatInv
<1>5. PICK i \in 1..Len(screen.channels) :
        screen.channels[i].id = view.current.id
  BY <1>2 DEF ScreenRight
<1>6. i \in 1..Len(view.channels) /\ screen.channels[i] = view.channels[i]
  BY <1>1, <1>3 DEF ShownOf
<1>7. ASSUME Uncut
      PROVE  /\ view.channels = AllChannels
             /\ screen.channels[i] = view.current
  <2>1. view.channels = AllChannels
    BY <1>7, SettledRight
  <2>2. PICK j \in 1..Len(view.channels) : view.channels[j] = view.current
    BY <1>7, SettledRight
  <2>3. i = j
    BY <1>4, <1>5, <1>6, <2>2 DEF B!ListedOnce
  <2>. QED
    BY <1>6, <2>1, <2>2, <2>3
<1>. QED
  BY <1>1, <1>5, <1>7 DEF ScreenRight

-----------------------------------------------------------------------------
(* Theorems. *)

\* The inductive invariant holds in every behaviour, with changes under way
\* while the tab fetches or without.
THEOREM ChatInvariant == ChatSpec => []ChatInv
<1>. QED
  BY ChatStart, ChatStep, PTL DEF ChatSpec

\* The service under the tab is the service of Messaging: a behaviour with
\* the tab, seen without it, is a behaviour of Messaging.
THEOREM ChatUsesTheService == ChatSpec => Spec
<1>1. ChatInit => Init
  BY DEF ChatInit
<1>2. ChatInv /\ [ChatNext]_chatVars => [Next]_vars
  <2>1. [ChatNext]_chatVars => Undisturbed
    BY ChatUndisturbed DEF chatVars, Undisturbed
  <2>. QED
    BY <2>1, UndisturbedNext DEF ChatInv, Inv
<1>. QED
  BY <1>1, <1>2, ChatInvariant, PTL DEF ChatSpec, Spec

\* The tab's state has the types ChatTypeOK lists: its lists are sequences of
\* entries with the documents of their collection, whatever events the handler
\* is given while fetches are under way.
THEOREM ChatTypesHold == ChatSpec => []ChatTypeOK
<1>1. ChatInv => ChatTypeOK
  <2>. SUFFICES ASSUME ChatInv PROVE ChatTypeOK
    OBVIOUS
  <2>1. ChannelDocs \subseteq Doc /\ MessageDocs \subseteq Doc
    BY DEF ChannelDocs, MessageDocs, Doc, Texts
  <2>2. /\ ChannelEntries \subseteq Entries(Channels)
        /\ MessageEntries \subseteq Entries(Messages)
    BY <2>1 DEF ChannelEntries, MessageEntries, Entries
  <2>3. /\ view.channels \in Seq(ChannelEntries)
        /\ view.current \in ChannelEntries \cup {Null}
        /\ Tab!Cached(view) \subseteq Channels
        /\ \A c \in Tab!Cached(view) :
             view.messages[c] \in Seq(MessageEntries)
    BY OtherViews DEF ChatInv, ChatTypes
  <2>4. \A S, T : S \subseteq T => Seq(S) \subseteq Seq(T)
    <3>. SUFFICES ASSUME NEW S, NEW T, S \subseteq T, NEW s \in Seq(S)
                  PROVE  s \in Seq(T)
      OBVIOUS
    <3>1. Len(s) \in Nat /\ s \in [1..Len(s) -> T]
      OBVIOUS
    <3>. QED
      BY <3>1
  <2>5. screen # Null =>
          screen \in [channels : Seq(Entries(Channels)),
                      current  : Entries(Channels) \cup {Null},
                      messages : Seq(Entries(Messages))]
    BY <2>2, <2>4 DEF ChatInv, Rendered, Pages
  <2>. QED
    BY <2>2, <2>3, <2>4, <2>5 DEF ChatTypeOK, ChatInv, ChatTypes, Natural
<1>. QED
  BY <1>1, ChatInvariant, PTL

\* While nothing changes under a fetch, requests about channels are served one
\* at a time, and there is room for all channels in the list, a page that
\* follows the events shows the list of channels a reload would show, whatever
\* is created, renamed and deleted, though the handler edits the list while it
\* iterates over it.  Where the handler throws, the page lacks only channels
\* without a creator at the end of the list, and never the one it displays.
THEOREM ListConverges == ChatSpec /\ []Calm => []ChannelsConverge
<1>1. ChatInv /\ CalmInv /\ ScreenRight /\ Calm => ChannelsConverge
  BY SettledScreen DEF ChannelsConverge, Calm
<1>. QED
  BY <1>1, CalmStart, CalmStep, ScreenStart, ScreenStep, ChatInvariant, PTL
     DEF ChatSpec

\* While besides no two requests are served at the same time, a message that
\* was deleted is not on the page, unless another channel was displayed when
\* the tab was told, whatever is posted, edited and deleted, message by message
\* or with a channel.
THEOREM NoGhostsShown == ChatSpec /\ []Calm /\ []InTurn => []NoGhosts
<1>1. ChatInv /\ CalmInv /\ MessagesInv /\ ScreenRight => NoGhosts
  <2>. SUFFICES ASSUME ChatInv, CalmInv, MessagesInv, ScreenRight, Settled,
                       screen # Null, NEW m \in Tab!IdsOf(screen.messages)
                PROVE  Stored(m) \/ m \in unheard
    BY DEF NoGhosts
  <2>1. PICK c \in Channels, l \in Seq(MessageEntries) :
          /\ Tab!Shown(view) = l /\ ListRight(l, c) /\ ~GoneOrGoing(c)
          /\ Stream = <<>>
    BY SettledLists
  <2>2. m \in B!IdsOf(l)
    BY <2>1, SettledScreen DEF Tab!IdsOf, B!IdsOf
  <2>3. ~IsComing(Stream, "message-delete", m)
    BY <2>1 DEF IsComing
  <2>. QED
    BY <2>1, <2>2, <2>3 DEF ListRight, GhostsTold
<1>2. /\ ChatInv /\ ChatInv' /\ CalmInv /\ Calm /\ InTurn /\ InTurn'
      /\ MessagesInv /\ [ChatNext]_chatVars
      => MessagesInv'
  BY MessagesStep
<1>. QED
  BY <1>1, <1>2, MessagesStart, CalmStart, CalmStep, ScreenStart, ScreenStep,
     ChatInvariant, PTL DEF ChatSpec

\* When besides there is room for all messages of each channel in its list,
\* the page shows, apart from messages that are gone, the messages a reload
\* would show: once each, in their order and with the bodies they have now.
\* Of a page that render() has taken down nothing is said.
THEOREM MessagesListConverges ==
  ChatSpec /\ []Calm /\ []InTurn /\ []RoomForAll => []MessagesConverge
<1>1. /\ ChatInv /\ CalmInv /\ MessagesInv /\ ScreenRight /\ RoomForAll
      /\ AllListed
      => MessagesConverge
  BY SettledMessages, SettledScreen DEF MessagesConverge
<1>2. /\ ChatInv /\ ChatInv' /\ CalmInv /\ Calm /\ InTurn /\ InTurn'
      /\ MessagesInv /\ [ChatNext]_chatVars
      => MessagesInv' /\ (RoomForAll /\ AllListed => AllListed')
  BY MessagesStep
<1>. QED
  BY <1>1, <1>2, MessagesStart, CalmStart, CalmStep, ScreenStart, ScreenStep,
     ChatInvariant, PTL DEF ChatSpec

=============================================================================

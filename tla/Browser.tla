------------------------------- MODULE Browser -------------------------------
(***************************************************************************)
(* The state of a browser tab (clients/drippy/src/Messages.js) as a value, *)
(* and what the tab's callbacks do to it: the handler of the websocket's   *)
(* messages, the answers to the two fetches, and a click on a channel.     *)
(*                                                                         *)
(* A view is the list of channels, the channel displayed (currentChannel,  *)
(* Null for the empty object) and, for each channel whose messages were    *)
(* fetched, their list.  An entry of either list is a document and its     *)
(* identifier.  The handler changes the lists in place, so what it has     *)
(* done when an exception stops it stays done; but it has not come to      *)
(* setState() then, and the page is not rendered anew.                     *)
(***************************************************************************)
EXTENDS Naturals, Sequences, SequencesExt

CONSTANTS Null, Nobody

Entry(id, doc) == [id |-> id, doc |-> doc]

EmptyView == [channels |-> <<>>, current |-> Null, messages |-> <<>>]

IdsOf(entries) == {entries[i].id : i \in 1..Len(entries)}

Cached(v) == DOMAIN v.messages

Displays(v, c) == v.current # Null /\ v.current.id = c

\* The list of messages of the channel displayed.
Shown(v) ==
  IF v.current # Null /\ v.current.id \in Cached(v)
  THEN v.messages[v.current.id] ELSE <<>>

\* What render() makes of a view.  A message without a creator makes it throw,
\* and React removes a page whose render() throws: Null stands for the empty
\* page.  A channel without a creator is rendered as any other.
Screen(v) ==
  IF \E i \in 1..Len(Shown(v)) : Shown(v)[i].doc.creator = Nobody
  THEN Null
  ELSE [channels |-> v.channels, current |-> v.current, messages |-> Shown(v)]

\* messages[c] = ms
Cache(v, c, ms) ==
  [v EXCEPT !.messages =
     [k \in Cached(v) \cup {c} |-> IF k = c THEN ms ELSE v.messages[k]]]

Replaced(entries, e) ==
  [i \in 1..Len(entries) |->
     IF entries[i].id = e.id THEN Entry(e.id, e.doc) ELSE entries[i]]

\* forEach() that calls splice(i, 1): the element after a removed one is not
\* looked at.
Spliced(entries, id) ==
  LET visit(rest, i) ==
        IF i <= Len(rest) /\ rest[i].id = id THEN RemoveAt(rest, i) ELSE rest
  IN FoldLeft(visit, entries, [i \in 1..Len(entries) |-> i])

-----------------------------------------------------------------------------
(* The handler of the websocket's messages.  me is this.state.user.id, or  *)
(* Null until the profile was fetched.                                     *)

\* Mutant of ChannelNew: the event is displayed instead of its channel.
ChannelNewWhole(v, e, me) ==
  LET listed == Cache([v EXCEPT !.channels = Append(@, Entry(e.id, e.doc))],
                      e.id, <<>>)
  IN IF e.doc.creator = me THEN [listed EXCEPT !.current = e] ELSE listed

\* Mutant of ChannelNew: a new channel is displayed, whoever created it.
ChannelNewOfAnyone(v, e, me) ==
  Cache([v EXCEPT !.channels = Append(@, Entry(e.id, e.doc)),
                  !.current = Entry(e.id, e.doc)], e.id, <<>>)

\* The lists change before the creator, who may be missing, is looked at.
ChannelNew(v, e, me) ==
  LET listed == Cache([v EXCEPT !.channels = Append(@, Entry(e.id, e.doc))],
                      e.id, <<>>)
  IN IF e.doc.creator = me
     THEN [listed EXCEPT !.current = Entry(e.id, e.doc)] ELSE listed

\* Mutant of ChannelDelete: the channel displayed stays displayed.
ChannelDeleteStaying(v, e) ==
  [v EXCEPT !.channels = Spliced(@, e.id),
            !.messages = [c \in Cached(v) \ {e.id} |-> v.messages[c]]]

\* The channel displayed instead is the first one before the removal.
ChannelDelete(v, e) ==
  LET visit(w, i) ==
        IF i > Len(w.channels) \/ w.channels[i].id # e.id THEN w
        ELSE [channels |-> RemoveAt(w.channels, i),
              current  |-> IF Displays(w, e.id) THEN w.channels[1]
                           ELSE w.current,
              messages |-> [c \in Cached(w) \ {e.id} |-> w.messages[c]]]
  IN FoldLeft(visit, v, [i \in 1..Len(v.channels) |-> i])

\* An update of a channel that no longer existed carries null.
ChannelUpdate(v, e) ==
  IF e.doc = Null \/ v.channels = <<>> THEN v
  ELSE [v EXCEPT !.channels = Replaced(@, e),
                 !.current = IF Displays(v, e.id)
                             THEN [@ EXCEPT !.doc.text = e.doc.text] ELSE @]

\* Mutant of MessageNew: it is added to the channel displayed.
MessageNewIntoCurrent(v, e) ==
  IF v.current # Null /\ v.current.id \in Cached(v)
  THEN Cache(v, v.current.id, Append(Shown(v), Entry(e.id, e.doc))) ELSE v

MessageNew(v, e) ==
  LET c == e.doc.channel IN
  IF c \in Cached(v)
  THEN Cache(v, c, Append(v.messages[c], Entry(e.id, e.doc))) ELSE v

MessageUpdate(v, e) ==
  IF e.doc = Null \/ e.doc.channel \notin Cached(v) THEN v
  ELSE Cache(v, e.doc.channel, Replaced(v.messages[e.doc.channel], e))

\* Mutant of MessageDelete: an index found is taken for true unless it is 0.
MessageDeleteTruthy(v, e) ==
  IF v.current = Null \/ v.current.id \notin Cached(v) THEN v
  ELSE LET ms == v.messages[v.current.id] IN
       IF ms # <<>> /\ ms[1].id = e.id
       THEN v ELSE Cache(v, v.current.id, Spliced(ms, e.id))

\* Only the list of the channel displayed is searched; there may be none.
MessageDelete(v, e) ==
  IF v.current = Null \/ v.current.id \notin Cached(v) THEN v
  ELSE Cache(v, v.current.id, Spliced(v.messages[v.current.id], e.id))

Handle(v, e, me) ==
  CASE e.type = "channel-new"    -> ChannelNew(v, e, me)
    [] e.type = "channel-delete" -> ChannelDelete(v, e)
    [] e.type = "channel-update" -> ChannelUpdate(v, e)
    [] e.type = "message-new"    -> MessageNew(v, e)
    [] e.type = "message-update" -> MessageUpdate(v, e)
    [] e.type = "message-delete" -> MessageDelete(v, e)

\* The handler throws before it comes to setState(): at a channel without a
\* creator, at the null an update carries when there was nothing to update, and
\* where there is no list to search.
Throws(v, e) ==
  \/ e.type = "channel-new" /\ e.doc.creator = Nobody
  \/ e.type = "channel-update" /\ e.doc = Null /\ v.channels # <<>>
  \/ e.type = "message-update" /\ e.doc = Null
  \/ /\ e.type = "message-delete"
     /\ v.current = Null \/ v.current.id \notin Cached(v)

-----------------------------------------------------------------------------
(* Fetches and clicks. *)

\* The list of channels replaces the one the tab has.
ShowChannels(v, data) ==
  [v EXCEPT !.channels = data, !.current = data[1]]

\* So does the list of messages of a channel.
ShowMessages(v, c, data) == Cache(v, c, data)

Click(v, channel) == [v EXCEPT !.current = channel]

=============================================================================

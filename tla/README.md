# Drippy Chat: specifications, model checking and proofs

Drippy Chat is a small chat service: a React page, a gateway in Go and a
messaging service in Node, with MongoDB, Redis and RabbitMQ behind them. This
directory holds TLA+ specifications of it, TLC configurations that check them
on small instances, and theorems about them, checked by TLAPS for every value
of the constants. Paths are relative to the repository.

## 1. Inventory

| Component | Source | State it keeps | Operations |
|---|---|---|---|
| Messaging service | `servers/messaging/` | `channels` and `messages` in MongoDB; the connection to RabbitMQ | POST, PATCH, DELETE of channels and messages, two GETs, creation of the channel `general` at the start |
| Notifier | `servers/gateway/handlers/websockets.go` | list of clients under a read-write lock | upgrade, register, read until failure, unregister; take an event and broadcast it |
| Accounts and sessions | `servers/gateway/handlers/auth.go`, `sessions/`, `models/users/` | accounts in MongoDB, sessions in Redis | sign up, sign in, change the profile, sign out, who am I |
| Name index | `servers/gateway/indexes/` | a trie in memory | Add, Delete, DFSChildren |
| Browser tab | `clients/drippy/src/Messages.js` | lists of channels and messages, the channel displayed, what forms hold, the user | handler of events, two fetches, clicks, six forms, sign-out |
| Sign-in and sign-up pages | `clients/drippy/src/SignIn.js`, `SignUp.js`, `App.js` | the authorization in `localStorage`, shared by all tabs | two forms, routes, links |
| Entry point and proxy | `servers/gateway/main.go` | which backend is next | wiring; looks the user of a request up and forwards `/v1/channels` and `/v1/messages` with an `X-User` header |
| Link previews | `servers/gateway/handlers/summary.go` | none | `extractSummary`, a fold over HTML tokens |
| The rest | CORS middleware, in-memory stores, service worker, scripts | | |

How they interact:

- The tab sends requests to the gateway. The proxy looks the session up, puts
  the profile into `X-User` (the JSON `null` if there is no session) and hands
  the request to the messaging service.
- The messaging service works on MongoDB and publishes an event for each
  change to the queue `testQ`. The gateway consumes the queue with automatic
  acknowledgement and writes every event to every websocket.
- The tab changes its lists as events tell it. It fetches the channels once
  and a channel's messages at each click.
- All tabs of a browser send the authorization `localStorage` holds when a
  request is made; any of them may replace or remove it meanwhile.
- The gateway's handlers share the stores and the name index; each request
  has a goroutine.

What is hard, by component (`PROJECT.json` lists the single hazards with their
lines):

- *Messaging service.* A handler is a promise chain. Between a check and the
  write it guards there are two moments at which every other handler may run.
  DELETE of a channel waits for neither of its two deletions. Calls fail, the
  service dies between a write and its event, the queue dies with RabbitMQ.
  It is right if checks still hold when the write is executed, if what is
  announced has happened, if deletions are final, and if requests end.
- *Notifier.* The broadcast writes to the network under the read lock, while
  connections come, break and leave. It is right if the list is right, if
  every client reads a gap-free part of the stream, and if nobody waits for
  ever.
- *Accounts.* Handlers read a copy of a session, go on after errors, and write
  the copy back; checks and inserts are separate calls. It is right if a
  session stays with its account, if an ended session stays ended, if taken
  addresses and user names are refused, and if the index has current names.
- *Name index.* Deleting prunes; searching takes no lock and looks up keys it
  has collected before. It is right if names live until they are deleted, no
  longer, and searches find them.
- *Tab.* Events, answers to fetches and clicks arrive in any order; handlers
  change lists they iterate over; forms act on what is displayed when their
  button is pressed, or a second later. It is right if the tab converges to
  what a reload would show, and if what is sent is what was meant.
- *Pages.* A page learns its user from one request and acts with others;
  answers come after the page was left; sessions end while pages are shown;
  other tabs sign in and out. They are right if a page never acts as somebody
  else than it shows.

## 2. Modules

| Module | What it is |
|---|---|
| `Messaging` | The messaging service with MongoDB, the queue, failures and restarts |
| `MessagingProofs` | Theorems about it |
| `EventStream` | What the notifier promises: the abstract stream of events |
| `Notifier` | The notifier, at the granularity of lock operations and writes |
| `NotifierProofs` | Theorems about it and about `EventStream`, which it refines |
| `Browser` | The state of a tab as a value, and its callbacks as operators |
| `BrowserProofs` | Lemmas about the callbacks: what the handler makes of any list |
| `Chat` | One tab in front of `Messaging`: events, fetches, clicks |
| `ChatProofs` | Theorems about it |
| `Forms` | One tab in front of `Messaging`: the forms of the page |
| `FormsProofs` | Theorems about the forms |
| `SessionTable` | What holders of a session are promised |
| `Pages` | The pages in the tabs of one browser, the stored authorization, sessions and the proxy, with `SessionTable` |
| `PagesProofs` | Theorems about it |
| `NameIndex` | What callers of the name index are promised: a set of pairs |
| `Trie` | The trie that implements it, and searches |
| `TrieProofs` | Theorems about it and its refinement of `NameIndex` |
| `Accounts` | Sign-up, sign-in, profile change, sign-out, with `NameIndex` |
| `AccountsProofs` | Theorems about it, refinement of `SessionTable` among them |
| `MC...` | Instances for TLC: sets, symmetry |

### Messaging

`docs` maps every object identifier to the document MongoDB holds, to `Unborn`
(no insert has used the identifier) or to `Gone`. Both collections are one
function, since identifiers are unique. A request is a record: its operation,
its place in the promise chain (`pc`), its arguments and the document its last
call returned (`seen`).

| Code | Action |
|---|---|
| the synchronous part of a handler | `PostChannel`, `PostMessage`, `PatchChannel`, `DeleteChannel`, `PatchMessage`, `DeleteMessage` |
| MongoDB executes the lookup | `FindOne` |
| the callback of the lookup | `Refuse`, `Throw`, `Proceed`, `ProceedDeleteChannel`, according to `Verdict` |
| MongoDB executes the write | `Insert`, `Update`, `Delete` |
| the callback of the write | `Reply` (answers, then `SendToMQ`) |
| the deletions nobody waits for | `DeleteAll`, `DeleteChannelDoc`, `BackgroundFails` |
| a rejected call | `CallFails` |
| the gateway takes an event; RabbitMQ stops; the service dies and starts | `Consume`, `BrokerStop`, `Restart` |

A request may carry the user `Nobody`, which is the JSON `null` the gateway
forwards when the session is over. Reading a member of `null` throws, and the
chain's `catch` only logs: such a request is never answered (`Throw`). The
texts of refusals, time stamps and descriptions are left out.

### Notifier and EventStream

`Notifier` follows the two kinds of goroutines. `phase[c]` is the place of a
client's goroutine in `AddClient()`, `kept[c]` its `sliceClients`, `mx` the
lock; `pc`, `current`, `toNotify` and `target` are the place of `start()` in
its loop. A connection is open, stalled (the browser stopped reading and the
buffers are full, so a write blocks), broken or closed. When the connection to
RabbitMQ ends, the Go channel of deliveries is closed and `TakeZero` takes the
zero delivery from it, again and again, which is written as an empty frame.
An upgrade that is refused, or fails, changes nothing and is left out.

`EventStream` is the promise: whoever connects reads one stream from some
point on, in order and without a gap. `published` and `got` are state of both,
so the refinement mapping is the identity; an empty frame is no event.

### Browser and Chat

`Browser` has the tab's state as a record and each callback as an operator on
it, with what JavaScript really does: `forEach` over a list that `splice`
shortens, a comparison after the lists have changed, an exception that leaves
half of a handler done.

The lists and what is on the screen are not the same. The handler changes the
lists in place and calls `setState()` last, so an exception before that (the
creator of a channel is `null`, `Throws`) leaves the screen as it was until
something else renders. `Screen` is what `render()` makes of the state:
`Null`, an empty page, if a message shown has no creator, since `render()` then
throws and React, without an error boundary, unmounts the page. In `Chat` the
variable `screen` is what the user sees; `Render` follows every `setState()`,
`Touch` is one that changes nothing else (a key in a form, the sidebar), and a
click chooses among the channels of the screen. An empty page stays empty.

`Chat` puts one tab in front of `Messaging`. By
`NotifierImplementsStream` a connected client receives the queue in order and
without a gap, so `Chat` lets the tab receive the queue directly. A fetch is
three steps: sent, executed by MongoDB (`FindChannels`, `FindMessages`), shown.

### Forms

`Forms` puts the same tab in front of `Messaging` for its other half: what the
user does. `form` is the form he is at, `aim` (history) the channel that was
displayed when he turned to it. The list of channels is loaded and events
arrive in order; fetches of messages are `Chat`'s business and leave the state
of the forms alone. So are channels nobody is the creator of: in `Forms` others
create channels as the users they are.

| Code | Action |
|---|---|
| `open`, `handleOpen`, a click on a popup or into the input | `Open` |
| `close`, `handleClose` | `Close` |
| a click on a channel | `Click` |
| `handleNewMessage`, `handleEditDescription`, `handleDeleteChannel` | `NewMessage`, `EditDescription`, `DeleteDisplayed` |
| `handleChange` of the dialog's name | `TypeName` |
| `handleNewChannel` up to `setTimeout` | `PressCreate` |
| its callback, a second later | `NewChannel`, `NewChannelRefused` (without a name) |
| everybody else's requests, and the service | `Serve`, `Receive` |

`pressed` holds the name of each press whose second is not over; timers fire
in the order they were set. What is typed as a topic or a message is one value.

### Pages and SessionTable

`Pages` has the tabs of one browser with what each shows, the authorization in
`localStorage`, and requests that carry the authorization stored when they were
made. A request is executed some time after it was sent and handled some time
after that. React ignores `setState()` of a page that was left
(`Unmounted`), but other handlers do their work all the same: a late answer to
a sign-in stores its authorization, a late sign-out removes whatever is stored
by then. A reload forgets all handlers (`Unloaded`).

| Code | Action |
|---|---|
| links, history, addresses | `Follow`, `Load` |
| `signIn()`, `signUp()`, `signOut()`, the forms of the Messages page, `handleEditName()` | `Submit`, `SignOut`, `Post`, `EditName` |
| `SessionsHandler`, `UsersHandler` | `LogIn`, `RefuseLogIn` |
| `UsersMeHandler`, `SessionsMineHandler` | `UsersMe`, `PatchMe` and `SaveProfile`, `SessionsMine` |
| the proxy's director | `Forward` |
| their answers in the tab | `LoggedIn`, `SignedOut`, `FetchedUser`, `Drop` |

`GetSessionID` strips letters as `strings.Trim` does: `Clipped` are the
identifiers that begin with one of them.

`SessionTable` is what `Pages` needs of sessions: an identifier is given out
once, to one user; it may end and may be written back. `Accounts` implements it
(`ImplementsSessions`) with `owner` for the holder and the keys Redis has for
the sessions that live, so `Pages` rests on what the handlers really do, call
by call.

### Accounts

Every call to a store is a step. `SignUp` is the lookup of the address,
`CheckUserName` that of the user name, `Insert` the insert, `BeginSession` the
new session; a sign-in is `SignIn` and `BeginSession`; a change of profile is
`PatchMe` (the session is read and a copy kept), `Update` or `UpdateFails`,
`Save` or `SaveFails`, `Unindex`, `Index`. A gateway that starts and cannot load
the index goes on without one (`Restart` with `Null`), and a change of profile
then panics at the index. The handler goes on after each other
failure, as the code does. `Expire` never takes a session a request under way
has just renewed, since a session lasts an hour. Of the first and the last
name one is modelled; the handler treats them alike, and both deletions from
the index precede both additions. Identifiers of sessions are opaque and
random, as `NewSessionID()` makes them. Two history variables serve properties
only: `owner` (whom a session was begun for) and `disturbed` (accounts with
overlapping changes, or one MongoDB refused). The field `known` of a sign-up
is history too.

### NameIndex and Trie

A node is named by the letters on the path to it, so the trie is a function
from paths to sets of values. `Cut(k, i)` is the node that round `i` of the
loop in `Delete()` deletes: the loop keeps in `path` the node a letter leads
to and deletes *from that node* its child of the same letter. Normally no such
child exists, so nodes that have lost their values stay; where a letter is
doubled, the loop deletes a branch nobody asked for.

A search takes no lock, and its recursive walk is modelled node by node.
`Begin` is `DFSChildren()` up to its call of `DFS()`. `Descend` is one round of
the loop over the children of the node the walk is at, with the call for that
child; `Ascend` is the return from a call; `CutOff` sorts and applies the
limit. `at` is the node the walk is in, `must` are the children it has yet to
come to, `seen` those it has come to: Go's iteration over a map comes once to
each entry that stays, not to one deleted before, and may or may not come to
one added meanwhile. Names are added and deleted between any two of these
steps. A branch that is cut off while the walk is in it is no longer reached
from the root, but the walk goes on in it and may collect what it finds
(`Astray`, collected when the branch is cut: nobody changes it any more). A
name that is added again in the meantime may then be collected a second time
(`again`) and count twice for the limit. `LookUp` looks one key up,
`LookUpFails` is the nil pointer when its node was deleted since.

`NameIndex` is what callers may rely on. It is no ideal set of pairs: keys with
a doubled letter are `Fragile`, and deleting any pair may lose pairs of theirs.
`Accounts` uses it so (`Doubled`), and the trie implements it
(`ImplementsNameIndex`): `Entries` are the pairs its nodes hold; every step of
the trie is one of the index or changes no pair; and `Add(k, v)` and
`Delete(k, v)` of the trie are `Add(k, v)` and `Delete(k, v)` of the index, for
the same pair. When Go aborts the gateway the index is loaded anew, which
`NameIndex` does not know.

## 3. Runs

Eight runs pass, four show a disagreement between the code and what its
comments, documents or tests say. Sizes are distinct states.

| Run | Question | Size |
|---|---|---|
| `messaging_safety` | Do checks survive interleavings, failing calls, restarts and the end of RabbitMQ? | 0.5 M |
| `messaging_live` | Does every request end, does an announced deletion happen? | 0.2 M |
| `messaging_orphans` | *violated*: deleting a channel deletes its messages | |
| `notifier_clients` | Is the list right, is nobody left out, is the stream implemented, is everyone served if no browser stalls for ever? | 59 k |
| `notifier_stalled` | *violated*: a client that reads is served whatever others do | |
| `chat_calm` | Does a page converge to the right channels and messages by events alone? | 2.5 M |
| `chat_lost` | *violated*: a posted message appears although fetches overlap | |
| `forms_safety` | Do the forms send what was pressed, for the channel that was shown? | 1.5 M |
| `accounts_safety` | Do sessions, sign-ups and the index stay right, and is `SessionTable` implemented? | 2.5 M |
| `pages_safety` | Does a page act as the user it shows? | 1.0 M |
| `pages_unknown` | *violated*: the gateway knows the session it has just begun | |
| `trie_safety` | Are names kept, deleted and found while a search walks, and is `NameIndex` implemented? | 0.1 M |

A definition whose comment begins with "Mutant of" is no part of a
specification. It is a plausible mistake in the action of that name, kept next
to it: with the mistake in place a property of the run fails, so the property
does depend on what the code does there (`PROJECT.json`, "mutants").

What the violated ones show:

- `NoOrphanMessages`: POST of a message does not look its channel up, and DELETE
  issues `deleteMany()` and `deleteOne()` without waiting. A message inserted
  after the former stays.
- `HealthyAreServed`: a browser that stops reading blocks `WriteMessage()`,
  which has no deadline and runs under the read lock.
- `PostsAppear`: the answer to a fetch replaces a list that events have changed
  since MongoDB executed the fetch.
- `SignedInIsKnown`: `strings.Trim(valAuth, "Bearer ")` takes its second
  argument for a set of letters. An identifier that begins with `B`, `e`, `a`
  or `r` (one in sixteen) loses its first letter and is no longer valid. Its
  holder has signed in and is known to no handler, not even to the one that
  signs him out.

### Bounds

- *Messaging.* Two requests at a time, over two users and `Nobody`: all
  properties relate one request to what one other does between two of its
  steps, and a finished request leaves room for the next, so sequences are
  unbounded in length. Two channels (one is the default channel, without a
  creator) and one message allow an edit, a deletion and a post to meet on one
  document. Identifiers are used once, so new documents run out; the rest goes
  on. `QueueBound` = 2 lets events wait behind each other. In
  `messaging_safety` everything may fail; in `messaging_live` nothing does.
- *Notifier.* Two clients, so that one can come, stall or leave while the
  broadcast is at the other; the theorems about the list and the stream hold
  for any number. Three events, since a client that has one and misses the next
  shows a gap only at the third.
- *Chat.* One request at a time and one event in the queue. With `Overlaps` =
  FALSE changes happen when no fetch is under way: that is the premise of the
  convergence properties. The limits 100 and 50 are the code's and are not
  reached. `MaxFetches` = 1. Two channels, so that the one displayed is the
  default one or another; two users and `Nobody`, so that changes come from the
  viewer or from somebody else, or the creator is `null`; two names and two
  bodies, so that an update shows; two messages, so that order, repetition and
  the removal of the first show. The theorems hold for any number of these.
- *Accounts.* Two accounts, sessions and requests, so that one account can
  have two sessions with different copies of it; two forms that differ in
  address and user name, each of which may be sent twice; a first name that
  equals a user name, and the empty one. Sessions and accounts are used once.
- *Forms.* Two users, the default channel and another, one request at a time,
  one event in the queue; one body, since bodies do not matter to forms; two
  names to type, one of them that of the default channel. `MaxTimers` = 2: a
  second press of Create within the second of the first.
- *Pages.* Two people, two tabs, two requests under way, two sessions (one to
  replace another, or one in each tab). Sessions are used once. Nothing is
  clipped in `pages_safety`, where a clipped identifier would only make its
  holder nobody; `pages_unknown` has nothing but a clipped one.
- *Trie.* Names over two letters: `aa`, `ab`, `aba`, that is a doubled letter,
  siblings, a prefix of another name; two users; a limit of 2 that is reached,
  also by a key collected twice; searches for `a` and `ab`; one search, since
  searches change nothing and do not meet. The empty name, which `Delete()`
  leaves where it is, is left to the proofs: it would make the run four times
  as long.

Deadlock is checked except for the notifier: its events are bounded and a
connection is used once, so it may really come to rest.

### Fairness

- *Messaging*: weak fairness of `Advance(r)` (the event loop runs callbacks,
  MongoDB executes what it is sent), of each background deletion and of
  `Consume`. Nothing is assumed of clients. Liveness is checked without
  failing calls, restarts and an end of RabbitMQ: a rejected deletion never happens.
- *Notifier*: goroutines run. Locks have strong fairness: Go's `RWMutex` lets
  no reader pass a waiting writer and lets waiting readers in after a writer,
  so a lock that is free again and again is acquired. A write to a browser
  that reads again and again completes. `notifier_clients` assumes besides
  that a stalled browser reads again, breaks or fails a read;
  `notifier_stalled` drops that assumption, which nothing in the code enforces.
  A goroutine has one step enabled at a time, so fairness is stated of the
  disjunction of its steps (`Proceed`, `ProceedOf`).
- Nothing is assumed to be fair in `Accounts`, `Trie`, `Chat`, `Forms` and
  `Pages`: only safety is checked.

## 4. Proofs

All theorems hold for any sets of users, documents, connections, names and
requests, under the named assumptions on constants in each module (values that
stand for "nothing" are no documents; bounds are natural numbers).

*`MessagingProofs`.* `OnlyCreatorWrites` is not inductive: that a verdict
reached on a stale copy is still right follows from the fact that a creator
never changes (`SeenCreator`: the copy agrees with the stored document on the
creator, or the document is gone). That rests on identifiers: nobody names the
identifier of an insert under way (`NewIds`), everyone else names identifiers
already used (`Born`), and each operation works on its own collection
(`Kinds`). The inductive invariant is their conjunction with `TypeOK`,
`OnlyCreatorWrites` and `AnnouncedAfterCommit`. `DeletionIsFinal` is an action
property that follows from it and from what one step does to one document
(`Monotone`).

*`NotifierProofs`.* The invariant says who holds the lock (`LockHeld`), that a
copy about to become the list is up to date (`KeptOthers`), what a broadcast
still goes through (`Loop`), and where in the stream each client is: behind by
one if the present event is still to reach it (`Position`). A connected
client that the broadcast has still to reach is in its remainder (`Owed`), so
when that is empty everyone on the list has the event, also a client for which
it is the first (`CaughtUp`). Then every step is
a step of `EventStream` or leaves it alone (`NotifierImplementsStream`), and
with `StreamIsGapless` what each client received has no gap
(`NotifierIsGapless`).

*`AccountsProofs`.* `Held` says what a request has in hand at each step; with
`TypeOK` it makes `SessionsKeepTheirOwner` inductive: a `Save` writes the copy
of a session that was begun for the same account. `SignUpsRefuseTaken` needs
`KnownAreOthers` (a sign-up's own form differs from the accounts it knows,
which never change address or user name). `CurrentNameIsIndexed` needs
`Tracked`: of an undisturbed account one change is under way at most, and once
that has updated the account it carries the account's name. Names with a
doubled letter are excepted, since deleting another account's name may lose
them. The refinement
`AccountsImplementSessions` needs `Drawn` besides (a session is unborn as long
as it has no owner): then `BeginSession` is `Begin`, `Save` is `WriteBack`,
`EndSession` and `Expire` are `End`, and every other step changes no session.

*`MessagingProofs`, for the tabs.* The modules with a tab use the service
without failing calls, restarts or an end of RabbitMQ (`Undisturbed`), and what
a tab shows depends on what was announced to it. `CopiesAreVersions`: a
document in the hands of a request, in an answer or in an event is a version of
the document it belongs to (`Collections`), so lists never mix kinds. A deleted
channel that was announced is gone or going (`AnnouncedGoing`), a channel is
announced as new once (`AnnouncedOnce`), and nobody deletes the default channel
(`GeneralStays`). `NamesCarried`: while no two requests change the name of one
channel at a time, the last event about a channel still in the queue carries
the name the channel has. It is false without that premise, since two updates
may be announced in the other order than MongoDB executed them (a hazard).

*`BrowserProofs`.* The handler of a deletion folds `splice()` over indices of a
list that shrinks meanwhile. The provers cannot use the library's induction
theorems, which take an operator as a parameter. The proofs go another way: the
intermediate results of a fold are a function on sets of indices, whose
existence `Folding` shows; the numbers for which a property of those results
holds are a set; and a set of numbers that has 0 and every successor has all
(`NatSetInduction`, from the well-foundedness of `<`). So what the recursive
definition of a fold computes is proved here for every list. The result: an
event adds its channel at the end of the list or takes it out, leaves the
others in their order (`HandledOrder`), changes no entry but its own
(`HandledEntries`), lists no channel twice and displays instead of a deleted
channel one of the list (`HandledIds`), and keeps the types (`HandledViews`).
`ThoseAre` and `SameOrder` are about selecting elements of a sequence.

*`FormsProofs`.* `CreatedAsPressed` rests on two facts: `submittedName` is the
name of the last press whose second is not over (`Submitted`; each press
appends to `pressed`, each end of a second removes the first), and a slot that
is not in use holds no request (`Slots`), so what a step of the service does to
its requests is never taken for something a form sends. `ActsOnWhatWasShown`
relates the channel a form acts on, which is the one displayed when it is sent,
to the one displayed when the user turned to the form (`Aimed`): they differ
only if the latter is gone or going, or the former is one he has created and
not deleted. That it stays so needs to know that a channel is announced once
and not known to the tab before (`KnownOnce`), and that the viewer deletes
nothing he has not heard of (`OwnKept`). `EditsKeepNames` is proved as
`FormsSpec /\ []OneAtATime => EditsKeepTheName`: a topic is sent with the name
the tab shows, and that is the name MongoDB has once the tab has heard of every
change (`NamesShown`, from `NamesCarried`). `OneAtATime` holds of every state
of the run `forms_safety`, which has one request. Two overlapping changes of
one name, announced in the wrong order, leave the tab with the older one for
good, though nothing is unheard any more; then a topic undoes the later change.

*`ChatProofs`.* `ChatTypesHold` holds whatever happens while fetches are under
way: what MongoDB returns and what events carry are documents of their
collection, in the order of insertion, with the default channel first
(`Natural`). `ListConverges` is `ChatSpec /\ []Calm => []ChannelsConverge`.
`Calm` is what the run `chat_calm` has in every state: nothing changes under a
fetch (`~Overlaps`), requests about channels are served one at a time
(`OneByOne`; messages may be served at the same time), and the list is not cut
off (`Uncut`). `chat_lost` shows what goes wrong without the first; without
the second two channels may be announced in the other order than they were
inserted; without the third a reload shows fewer. The invariant (`CalmInv`)
relates the list of a loaded tab, the queue and MongoDB: what is listed or
still to be announced is what is kept, or what the tab has still to hear the
deletion of (`ListedRight`); all of it is in the order of insertion
(`InOrder`); every entry is a version of its document, with the present name
unless an announcement is on its way (`ShownRight`); what is displayed is
listed (`CurrentListed`). The last needs the default channel: it is displayed
instead of a deleted channel, being the first of the list, and is never
deleted. When everything has settled nothing is on its way, and two lists of
the same entries in the same order are equal. That is about the lists of the
tab; the theorems are about the screen. A page that is there shows the channel
displayed and its messages as the tab has them (`ScreenRight`), and of the list
of channels the beginning, where the rest are channels without a creator
(`Rendered`, `ShownOf`): the handler throws only after such a channel was
appended (`ThrownShown`), and any other event, click or answer renders. Nothing
is proved of a page that disappears. `ChatUsesTheService` and
`FormsUseTheService` say that under both modules runs the service of
`Messaging`, so its theorems hold there.

*`ChatProofs`, for the messages.* The tab keeps a list of messages for each
channel it has displayed, and goes on maintaining all of them.
`NoGhostsShown` is `ChatSpec /\ []Calm /\ []InTurn => []NoGhosts`,
`MessagesListConverges` is
`ChatSpec /\ []Calm /\ []InTurn /\ []RoomForAll => []MessagesConverge`.

The premises. `InTurn` is `OneByOne` for requests of every kind: two edits of a
message that overlap may be announced in the other order, and the tab then
shows the older body for good. The deletions nobody waits for are not among
the requests; they are executed at any moment, and other requests are served
meanwhile. `RoomForAll` says that no channel has more messages than
`MessageLimit`, the code's 50; a longer list is cut off at the end, in a reload
too, but events go on adding to the tab's. All three hold in every state of
`chat_calm`, which has one request and few messages.

The argument. A change is committed before it is announced, so between the two
neither MongoDB nor the queue says what the tab will show. `Stream` is what it
has still to hear of: the queue, and the event of the request about to be
answered. Every step then does one of four things (`StreamMoves`): it takes the
first event, it appends one at the very moment at which the document changes
(`Announces`), it changes nothing, or it removes messages of a channel that is
gone or going, without a word (`Unannounced`). The invariant (`MessagesInv`)
has three parts.

- The stream is right (`StreamRight`): a channel comes before its messages, and
  messages come in the order of their insertion (`InTime`); an event carries
  the present body or a later one follows (`CarriedRight`); a message announced
  is stored, or its deletion follows, or its channel goes (`DeletedLater`);
  while a channel is still to be announced, so are all its messages
  (`AllAhead`). This needs that a message is posted only to a channel that
  exists or existed (`PostsHomed`, `Homed`), and that what is deleted without a
  word belongs to a channel that goes (`AllGoing`).
- Each list is right with respect to the stream (`ListsRight`): it is in
  the order of insertion, in front of everything still to be announced
  (`InLine`); it has only messages of its channel, with the present body
  unless an update is coming (`BodiesRight`); a message listed that is gone is
  one whose deletion is coming, or was told while another channel was displayed
  (`GhostsTold`).
- What a fetch returned is what a reload would show, and the lists of the
  default channel and of the displayed one are there or are being fetched
  (`FetchedRight`).

`AllListed` (a stored message is in the list of its channel, or coming) is
separate, as it alone needs `RoomForAll`. When everything has settled the
stream is empty: what is left in the list is what is stored, with its body and
in its order. What the handler makes of a list, whichever event it is, is one
relation between the list before and after (`Relays`, in `BrowserProofs`): the
event's message is appended, replaced or taken out, and all others stay in
their order.

*`PagesProofs`.* `ActsAsShown` relates two requests made at different times.
The invariant says what is true of a request as long as the page it was made
from is shown, and when that page is gone (`CallOK`): `fetchUser()` asks for
the session its page began with, and whoever a request acts for is the holder
of its session. `ShowsHolder` says that a page shows the holder of the session
it began with, or nobody. That holders never change (`Kept`) is what
`SessionTable` promises and `Accounts` implements.

*`TrieProofs`.* Paths are closed under prefixes and stay so whatever `Delete()`
cuts; a branch that is cut lies below a doubled letter. A steady name without
one is never cut, nor is any node above it, and what a search has to find it
has collected, found or lost to the limit, or there is a node on the way to the
name that the walk still has to come to (`must`; `Reached`, `NoneIsMissed`).
Every step of the walk keeps that, and so does every `Delete()`, since it cuts
no node on the way.
`TrieImplementsNameIndex` follows from the same fact about branches that are
cut: what `Delete()` loses besides its pair is what `NameIndex` lets it lose.

Model-checked only: liveness (`EveryRequestEnds`, `AnnouncedDeletionHappens`,
`EveryoneIsServed`, `TheGoneAreRemoved`), which is out of the proof system's
reach, as would be any argument with ENABLED. Every other property of a passing
run is a theorem, some under a premise that is named in the theorem and holds
in every state of the run.

## 5. Seen in reading, without a run

Most of these need no interleaving to see, and each is plain once told, so no
run is spent on them; most are listed as hazards, with a property that says
what holds in spite of them or a note.

- `findOneAndUpdate()` of a document deleted since the check returns `null`,
  which is answered with 200 and announced, although
  `models/channels/channel-store.js:35` says "It returns the updated channel."
- Deleting the name `ab` also deletes `aa` and all below it
  (`indexes/trie.go:110`), whose own deletion then returns false;
  `indexes/trie_test.go:79-82` expects true of an existing pair, with names
  that do not meet. `PlainNamesAreKept` says what is kept.
- `render()` reads `message.creator.photoURL` (`Messages.js:404, 406`), and the
  service stores a message with the creator `null` when the request has no
  user: everybody who displays its channel loses the page. The model has it
  (`Screen`), and the properties of `Chat` are about pages that are there.
- Editing a topic sends the channel's name along (`Messages.js:326`), so it
  undoes an edit of the name that is under way; `EditsKeepTheName` says when.
- Create pressed twice within a second creates two channels of the later name.
- A late answer to a sign-out removes whatever authorization is stored by then.
- Channel names are not unique, although `models/channels/channel.js:5` says so.
- A request whose session is over is forwarded with `X-User: null`; a message
  posted so has no creator and nobody can edit or delete it. A channel created
  so is not shown before something else is rendered.
- A deletion of a message told while another channel is displayed leaves the
  message in the list of its channel until that is fetched again.
- The queue is declared with `durable: false`, although `index.js:68-70` says
  that it survives the server.
- When the connection to RabbitMQ ends, the notifier writes empty frames in a
  busy loop, and neither side opens a new connection.
- `getAll()` has no sort: the "latest 50 messages" are the oldest, and the
  101st channel is not fetched.
- A new account is not indexed before the gateway restarts or the profile
  changes; changing a first name that equals the user name removes the entry
  of the user name; a name set through an older copy of a session leaves an
  older entry behind.
- Two sign-ups that overlap may create accounts with one address.

## 6. What is not modelled

- Link previews: `main.go` proxies `/v1/summary` to another service, so no route
  of this gateway reaches the code, a fold over tokens without state.
- Signing and validation of session identifiers, password hashes: cryptography.
- Which backend a request is forwarded to (round robin under a lock): all work
  on the same database and queue.
- The deletion of an account (`Delete()` has no caller).
- The height of the trie (`Size()`), which tests alone read; the aliasing of a
  node's slice of values by a search.
- Entries of e-mail addresses in the index: they are added when the gateway
  starts and never deleted, unless a name equals one.
- Time stamps, descriptions, layout, the sidebar of narrow screens (the same
  forms again), CORS headers, in-memory stores (tests only), the generated
  service worker, which nothing registers, scripts, and
  `servers/messaging/channelstore.js`, which nothing requires.

## 7. Plan

Done, in this order: `Messaging` and its proofs, `EventStream`, `Notifier` and
its proofs, `Browser`, `Chat`, `NameIndex`, `Accounts` and its proofs, `Trie`
and its proofs, `SessionTable` and its refinement by `Accounts`, `Pages` and
its proofs, `Forms`, `BrowserProofs`, the proofs of `Forms`, those of `Chat`
for the list of channels and then for the lists of messages, and the refinement
of `NameIndex` by `Trie`; then what is rendered of the tab's lists, and the
walk of a search in steps.

Left, should the code change there or somebody want more:

1. `Chat` with two requests at a time (order of events against order of
   writes) and with two tabs.
2. `Trie`: value slices with their aliasing.

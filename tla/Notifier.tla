------------------------------- MODULE Notifier -------------------------------
(***************************************************************************)
(* The gateway's notifier (servers/gateway/handlers/websockets.go): one    *)
(* goroutine takes events from RabbitMQ and writes each to every client;   *)
(* one goroutine per client, running AddClient, registers it, reads from   *)
(* it until that fails, and unregisters it.  They share the list of        *)
(* clients, which a read-write lock protects.  The broadcast holds the     *)
(* read lock while it writes to the network.                               *)
(*                                                                         *)
(* Events are numbered in the order of their publication; RabbitMQ keeps   *)
(* that order.  The list of clients is a set, and a broadcast goes through *)
(* it in any order: no property may depend on that order.                  *)
(***************************************************************************)
EXTENDS Naturals, Sequences

CONSTANTS
  Clients,       \* connections of browsers, each used once
  MaxEvents,     \* bound of the model: how many events are published
  BrokerStops    \* whether the RabbitMQ server may die

ASSUME ClientsAssumption == Clients \cap {"free", "read", "nobody"} = {}

ASSUME BoundAssumption == MaxEvents \in Nat /\ BrokerStops \in BOOLEAN

VARIABLES
  published,     \* how many events have been published
  taken,         \* how many of them the notifier has taken from the queue
  mq,            \* the connection to RabbitMQ: "open" or "closed"
  clients,       \* n.clients
  mx,            \* n.mx: "free", "read", or the client whose goroutine wrote
  pc,            \* where start() is: "waiting", "locking" or "writing"
  current,       \* the event it has taken, Blank for the zero Delivery
  toNotify,      \* clients the loop has not come to yet
  target,        \* the client it writes to, or "nobody"
  phase,         \* where each client's AddClient goroutine is
  kept,          \* its sliceClients
  socket,        \* the state of each client's connection
  got            \* the events each client has received

vars == <<published, taken, mq, clients, mx, pc, current, toNotify, target,
          phase, kept, socket, got>>

brokerVars == <<published, mq>>
startVars  == <<taken, pc, current, toNotify, target, got>>
listVars   == <<clients, mx, kept>>

Blank == 0

-----------------------------------------------------------------------------

Init ==
  /\ published = 0 /\ taken = 0 /\ mq = "open"
  /\ clients = {} /\ mx = "free"
  /\ pc = "waiting" /\ current = Blank /\ toNotify = {}
  /\ target = "nobody"
  /\ phase = [c \in Clients |-> "new"]
  /\ kept = [c \in Clients |-> {}]
  /\ socket = [c \in Clients |-> "open"]
  /\ got = [c \in Clients |-> <<>>]

-----------------------------------------------------------------------------
(* RabbitMQ. *)

Publish ==
  /\ mq = "open"
  /\ published < MaxEvents
  /\ published' = published + 1
  /\ UNCHANGED <<mq, startVars, listVars, phase, socket>>

\* The connection ends and the channel of deliveries is closed; deliveries
\* nobody has taken are dropped.
BrokerStop ==
  /\ BrokerStops
  /\ mq = "open"
  /\ mq' = "closed"
  /\ UNCHANGED <<published, startVars, listVars, phase, socket>>

-----------------------------------------------------------------------------
(* The browser's end of a connection. *)

Connected(c) == phase[c] # "new" /\ socket[c] \in {"open", "stalled"}

\* The browser stops reading and the buffers between it and the gateway are
\* full: a write to it blocks.
PeerStalls(c) ==
  /\ Connected(c) /\ socket[c] = "open"
  /\ socket' = [socket EXCEPT ![c] = "stalled"]
  /\ UNCHANGED <<brokerVars, startVars, listVars, phase>>

PeerResumes(c) ==
  /\ socket[c] = "stalled"
  /\ socket' = [socket EXCEPT ![c] = "open"]
  /\ UNCHANGED <<brokerVars, startVars, listVars, phase>>

\* The browser or the network goes away.
PeerBreaks(c) ==
  /\ Connected(c)
  /\ socket' = [socket EXCEPT ![c] = "broken"]
  /\ UNCHANGED <<brokerVars, startVars, listVars, phase>>

-----------------------------------------------------------------------------
(* A client's goroutine: ServeHTTP upgrades the connection and starts      *)
(* AddClient.                                                              *)

Upgrade(c) ==
  /\ phase[c] = "new"
  /\ phase' = [phase EXCEPT ![c] = "adding"]
  /\ UNCHANGED <<brokerVars, startVars, listVars, socket>>

\* n.mx.Lock() before the client is added.
LockToAdd(c) ==
  /\ phase[c] = "adding"
  /\ mx = "free"
  /\ mx' = c
  /\ phase' = [phase EXCEPT ![c] = "appending"]
  /\ UNCHANGED <<brokerVars, startVars, clients, kept, socket>>

\* append(), Unlock(), and the loop of reads begins.
AppendClient(c) ==
  /\ phase[c] = "appending"
  /\ clients' = clients \cup {c}
  /\ mx' = "free"
  /\ phase' = [phase EXCEPT ![c] = "reading"]
  /\ UNCHANGED <<brokerVars, startVars, kept, socket>>

\* Mutant of ReadFails: Close() is called only once the lock is held.
ReadFailsUnclosed(c) ==
  /\ phase[c] = "reading"
  /\ phase' = [phase EXCEPT ![c] = "closing"]
  /\ UNCHANGED <<brokerVars, startVars, listVars, socket>>

\* NextReader() fails: the connection broke, the browser closed it, or what it
\* sent makes no sense.  The connection is closed at once, which also ends a
\* write that is blocked on it.
ReadFails(c) ==
  /\ phase[c] = "reading"
  /\ socket' = [socket EXCEPT ![c] = "closed"]
  /\ phase' = [phase EXCEPT ![c] = "closing"]
  /\ UNCHANGED <<brokerVars, startVars, listVars>>

\* Mutant of LockToRemove: RLock() instead of Lock().
RLockToRemove(c) ==
  /\ phase[c] = "closing"
  /\ mx \in {"free", "read"}
  /\ phase' = [phase EXCEPT ![c] = "copying"]
  /\ UNCHANGED <<brokerVars, startVars, listVars, socket>>

\* n.mx.Lock() before the client is removed.
LockToRemove(c) ==
  /\ phase[c] = "closing"
  /\ mx = "free"
  /\ mx' = c
  /\ phase' = [phase EXCEPT ![c] = "copying"]
  /\ UNCHANGED <<brokerVars, startVars, clients, kept, socket>>

\* The others are copied to sliceClients ...
CopyOthers(c) ==
  /\ phase[c] = "copying"
  /\ kept' = [kept EXCEPT ![c] = clients \ {c}]
  /\ phase' = [phase EXCEPT ![c] = "assigning"]
  /\ UNCHANGED <<brokerVars, startVars, clients, mx, socket>>

\* Mutant of AssignClients: the lock is not released.
AssignClientsLocked(c) ==
  /\ phase[c] = "assigning"
  /\ clients' = kept[c]
  /\ phase' = [phase EXCEPT ![c] = "done"]
  /\ UNCHANGED <<brokerVars, startVars, mx, kept, socket>>

\* ... which becomes the list of clients.
AssignClients(c) ==
  /\ phase[c] = "assigning"
  /\ clients' = kept[c]
  /\ mx' = "free"
  /\ phase' = [phase EXCEPT ![c] = "done"]
  /\ UNCHANGED <<brokerVars, startVars, kept, socket>>

-----------------------------------------------------------------------------
(* start(): the broadcasting goroutine. *)

\* Mutant of Take: a backlog is skipped.
TakeLatest ==
  /\ pc = "waiting"
  /\ mq = "open" /\ taken < published
  /\ taken' = published
  /\ current' = published
  /\ pc' = "locking"
  /\ UNCHANGED <<brokerVars, toNotify, target, got, listVars, phase,
                 socket>>

Take ==
  /\ pc = "waiting"
  /\ mq = "open" /\ taken < published
  /\ taken' = taken + 1
  /\ current' = taken + 1
  /\ pc' = "locking"
  /\ UNCHANGED <<brokerVars, toNotify, target, got, listVars, phase,
                 socket>>

\* Mutant of TakeZero: an empty frame is counted as an event.
TakeZeroCounted ==
  /\ pc = "waiting"
  /\ mq = "closed"
  /\ taken' = taken + 1
  /\ current' = Blank
  /\ pc' = "locking"
  /\ UNCHANGED <<brokerVars, toNotify, target, got, listVars, phase,
                 socket>>

\* A receive from a closed channel returns the zero Delivery, again and again.
TakeZero ==
  /\ pc = "waiting"
  /\ mq = "closed"
  /\ current' = Blank
  /\ pc' = "locking"
  /\ UNCHANGED <<brokerVars, taken, toNotify, target, got, listVars,
                 phase, socket>>

\* n.mx.RLock(); the range loop evaluates n.clients once.
LockToNotify ==
  /\ pc = "locking"
  /\ mx = "free"
  /\ mx' = "read"
  /\ toNotify' = clients
  /\ pc' = "writing"
  /\ UNCHANGED <<brokerVars, taken, current, target, got, clients,
                 kept, phase, socket>>

NextClient ==
  /\ pc = "writing" /\ target = "nobody"
  /\ \E c \in toNotify :
       target' = c /\ toNotify' = toNotify \ {c}
  /\ UNCHANGED <<brokerVars, taken, pc, current, got, listVars, phase,
                 socket>>

\* WriteMessage() to a client that reads.  One to a stalled client blocks.  The
\* zero Delivery is written as an empty frame.
Write(c) ==
  /\ target = c
  /\ socket[c] = "open"
  /\ IF current = Blank
     THEN UNCHANGED got
     ELSE got' = [got EXCEPT ![c] = Append(@, current)]
  /\ target' = "nobody"
  /\ UNCHANGED <<brokerVars, taken, pc, current, toNotify, listVars, phase,
                 socket>>

\* Mutant of WriteFails: an error ends the broadcast.
WriteFailsAborting(c) ==
  /\ target = c
  /\ socket[c] \in {"broken", "closed"}
  /\ target' = "nobody"
  /\ toNotify' = {}
  /\ UNCHANGED <<brokerVars, taken, pc, current, got, listVars, phase,
                 socket>>

\* WriteMessage() to a client that is gone fails: the error is logged.
WriteFails(c) ==
  /\ target = c
  /\ socket[c] \in {"broken", "closed"}
  /\ target' = "nobody"
  /\ UNCHANGED <<brokerVars, taken, pc, current, toNotify, got,
                 listVars, phase, socket>>

\* n.mx.RUnlock()
Unlock ==
  /\ pc = "writing" /\ target = "nobody" /\ toNotify = {}
  /\ mx' = "free"
  /\ pc' = "waiting"
  /\ UNCHANGED <<brokerVars, taken, current, toNotify, target, got,
                 clients, kept, phase, socket>>

-----------------------------------------------------------------------------

Peer(c) == PeerStalls(c) \/ PeerResumes(c) \/ PeerBreaks(c)

Goroutine(c) ==
  \/ Upgrade(c)
  \/ LockToAdd(c) \/ AppendClient(c)
  \/ ReadFails(c)
  \/ LockToRemove(c) \/ CopyOthers(c) \/ AssignClients(c)

Start ==
  \/ Take \/ TakeZero
  \/ LockToNotify
  \/ NextClient
  \/ \E c \in Clients : Write(c) \/ WriteFails(c)
  \/ Unlock

Next ==
  \/ Publish \/ BrokerStop
  \/ \E c \in Clients : Peer(c) \/ Goroutine(c)
  \/ Start

Spec == Init /\ [][Next]_vars

\* What the broadcasting goroutine and a client's goroutine do without having
\* to wait for anybody.  A read from a connection that broke fails.
Proceed == Take \/ TakeZero \/ NextClient \/ Unlock
           \/ \E c \in Clients : WriteFails(c)

ProceedOf(c) ==
  \/ AppendClient(c)
  \/ socket[c] = "broken" /\ ReadFails(c)
  \/ CopyOthers(c)
  \/ AssignClients(c)

\* Goroutines run.  A lock that is free again and again is acquired: Go's
\* RWMutex lets no reader pass a waiting writer, and a writer that unlocks lets
\* the waiting readers in first.  A write to a browser that reads again and
\* again completes.  At most one of the steps of a goroutine is enabled at a
\* time, so fairness of their disjunction is fairness of each.
Fairness ==
  /\ WF_vars(Proceed) /\ SF_vars(LockToNotify)
  /\ \A c \in Clients :
       /\ WF_vars(ProceedOf(c))
       /\ SF_vars(LockToAdd(c) \/ LockToRemove(c))
       /\ SF_vars(Write(c))

FairSpec == Spec /\ Fairness

\* What the code cannot enforce: a browser that stopped reading does not stay
\* connected for ever.  It reads again, breaks, or makes a read from it fail;
\* of a connection from which a read has failed nothing is assumed.
Unstall(c) ==
  /\ socket[c] = "stalled"
  /\ phase[c] \in {"adding", "appending", "reading"}
  /\ PeerResumes(c) \/ PeerBreaks(c) \/ ReadFails(c)

NoStallForever == \A c \in Clients : WF_vars(Unstall(c))

PatientSpec == FairSpec /\ NoStallForever

-----------------------------------------------------------------------------
(* Properties. *)

Unregistered == {"new", "adding", "appending", "done"}

Registered == {"reading", "closing", "copying", "assigning"}

\* Type invariant of the notifier's state.
TypeOK ==
  /\ published \in Nat /\ taken \in 0..published
  /\ mq \in {"open", "closed"}
  /\ clients \in SUBSET Clients
  /\ mx \in {"free", "read"} \cup Clients
  /\ pc \in {"waiting", "locking", "writing"}
  /\ current \in {Blank} \cup 1..published
  /\ toNotify \in SUBSET Clients
  /\ target \in Clients \cup {"nobody"}
  /\ phase \in [Clients -> Unregistered \cup Registered]
  /\ kept \in [Clients -> SUBSET Clients]
  /\ socket \in [Clients -> {"open", "stalled", "broken", "closed"}]
  /\ got \in [Clients -> Seq(Nat)]

\* Registering and removing clients loses none and leaves none behind, however
\* the goroutines interleave: the list holds the clients whose goroutine has
\* added them and has not yet removed them.
ListedIffRegistered == clients = {c \in Clients : phase[c] \in Registered}

\* No broadcast writes to a client whose goroutine has removed it and ended.
RemovedForGood ==
  \A c \in Clients : phase[c] = "done" => c \notin toNotify \cup {target}

\* When a broadcast is over, every client on the list that is still connected
\* has received the event, be it its first: none is passed over, although
\* others break, leave and come.
CaughtUp ==
  pc = "writing" /\ toNotify = {} /\ target = "nobody" /\ current # Blank =>
    \A c \in clients :
      socket[c] \in {"open", "stalled"} =>
        got[c] # <<>> /\ got[c][Len(got[c])] = current

\* The notifier implements the stream of events it promises: every client
\* reads it in order and without a gap, though clients come and go during
\* broadcasts and connections break between and during writes.
Stream == INSTANCE EventStream

ImplementsStream == Stream!Spec

\* A registered client receives every event published from then on, or its
\* connection or the one to RabbitMQ ends.
EveryoneIsServed ==
  \A c \in Clients, e \in 1..MaxEvents :
    c \in clients /\ taken < e /\ e <= published ~>
      \/ \E i \in 1..Len(got[c]) : got[c][i] = e
      \/ socket[c] \in {"broken", "closed"}
      \/ mq = "closed"

\* The data is broadcast to all connected clients: one that keeps reading gets
\* it, whatever the others do.
HealthyAreServed ==
  \A c \in Clients, e \in 1..MaxEvents :
    c \in clients /\ taken < e /\ e <= published ~>
      \/ \E i \in 1..Len(got[c]) : got[c][i] = e
      \/ socket[c] # "open"
      \/ mq = "closed"

\* A client whose connection broke is eventually off the list, although the
\* broadcast that failed to write to it does not remove it.
TheGoneAreRemoved ==
  \A c \in Clients :
    socket[c] = "broken" /\ c \in clients ~> c \notin clients

=============================================================================

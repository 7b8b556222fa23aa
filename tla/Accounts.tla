------------------------------- MODULE Accounts -------------------------------
(***************************************************************************)
(* Accounts and sessions of the gateway (servers/gateway/handlers/auth.go, *)
(* sessions, models/users): the handlers that sign a user up, in and out   *)
(* and change the profile, the accounts in MongoDB, the sessions in Redis  *)
(* and the index of names in the gateway's memory.                         *)
(*                                                                         *)
(* Every request has its goroutine, and every call to a store is a step.   *)
(* What precedes a request's first call touches nothing shared and is part *)
(* of that step; a request whose first call ends it with an error changes  *)
(* nothing and is left out.                                                *)
(* A session holds a copy of the profile.  Of the profile's two names one  *)
(* is modelled; the code treats the other alike.  Names and user names are *)
(* keys of the index as they are: both sides lower them before use.  The   *)
(* index is NameIndex: a deletion may lose names with a doubled letter.     *)
(* Entries of e-mail addresses are left out.                               *)
(***************************************************************************)
EXTENDS Naturals, FiniteSets

CONSTANTS
  Users,          \* object identifiers of accounts
  Sids,           \* session identifiers, which are random
  Emails,
  UserNames,
  Names,          \* first names, which may be the user names of others
  Empty,          \* the empty name
  Doubled,        \* the names and user names with a doubled letter
  Forms,          \* what people sign up with: e-mail, user name and name
  Requests,       \* concurrent HTTP requests
  Null,           \* no value
  Unborn,         \* an identifier that was not drawn yet
  Ended,          \* a session that was deleted or has expired
  Failures        \* whether calls to MongoDB and Redis may fail

Profiles == [email : Emails, userName : UserNames, name : Names]

Keys == UserNames \cup Names

States == [user : Users, name : Names]

ASSUME ConstantsAssumption ==
  /\ Empty \notin UserNames
  /\ Doubled \subseteq Keys \ {Empty}
  /\ Forms \subseteq Profiles
  /\ Unborn \notin Profiles
  /\ {Unborn, Ended} \cap States = {} /\ Unborn # Ended
  /\ Null \notin Users
  /\ Failures \in BOOLEAN

VARIABLES
  accounts,       \* the users collection of MongoDB
  sessions,       \* the session states in Redis
  index,          \* ctx.TrieStore, Null if it could not be loaded
  req,            \* the state of each request
  owner,          \* history: the account each session was begun for
  disturbed       \* history: accounts whose changes of name did not run alone

vars == <<accounts, sessions, index, req, owner, disturbed>>

Trie == INSTANCE NameIndex
          WITH Values <- Users, entries <- index, Fragile <- Doubled

-----------------------------------------------------------------------------

Stored(u) == accounts[u] # Unborn

StoredUsers == {u \in Users : Stored(u)}

Live(s) == sessions[s] \notin {Unborn, Ended}

Table == INSTANCE SessionTable
           WITH holder <- owner, live <- {s \in Sids : Live(s)}

NoRequest == [pc |-> "idle", op |-> "none", user |-> Null, sid |-> Null,
              form |-> Null, name |-> Null, old |-> Null, known |-> {}]

At(r, op, pc) == req[r].op = op /\ req[r].pc = pc

Active(r) == req[r].pc # "idle"

Move(r, pc) == req' = [req EXCEPT ![r].pc = pc]

\* The handler answers, with success or with an error.
Return(r) == req' = [req EXCEPT ![r] = NoRequest]

\* AddTrie(): the index as it is loaded when the gateway starts.
Loaded ==
  {<<accounts[u].userName, u>> : u \in StoredUsers} \cup
  {<<accounts[u].name, u>> : u \in StoredUsers}

-----------------------------------------------------------------------------

Init ==
  /\ accounts = [u \in Users |-> Unborn]
  /\ sessions = [s \in Sids |-> Unborn]
  /\ index = {}
  /\ req = [r \in Requests |-> NoRequest]
  /\ owner = [s \in Sids |-> Null]
  /\ disturbed = {}

\* The gateway dies and is started again.  It goes on without an index if the
\* accounts cannot be read.
Restart ==
  /\ req' = [r \in Requests |-> NoRequest]
  /\ \/ index' = Loaded
     \/ Failures /\ index' = Null
  /\ disturbed' = {}
  /\ UNCHANGED <<accounts, sessions, owner>>

\* Redis drops a session nobody used for an hour.  A request under way has
\* used its session, and is over long before.
Expire(s) ==
  /\ Live(s)
  /\ \A r \in Requests : req[r].sid # s
  /\ sessions' = [sessions EXCEPT ![s] = Ended]
  /\ UNCHANGED <<accounts, index, req, owner, disturbed>>

-----------------------------------------------------------------------------
(* POST /v1/users: sign up.                                                *)

\* Mutant of SignUp: the account is inserted at once, as if the collection had
\* unique indexes.
SignUpUnchecked(r) ==
  /\ ~Active(r)
  /\ \E form \in Forms :
       req' = [req EXCEPT ![r] =
         [NoRequest EXCEPT !.pc = "insert", !.op = "signUp",
                           !.form = form, !.known = StoredUsers]]
  /\ UNCHANGED <<accounts, sessions, index, owner, disturbed>>

\* GetByEmail(): nobody has the address.
SignUp(r) ==
  /\ ~Active(r)
  /\ \E form \in Forms :
       /\ \A u \in StoredUsers : accounts[u].email # form.email
       /\ req' = [req EXCEPT ![r] =
            [NoRequest EXCEPT !.pc = "userName", !.op = "signUp",
                              !.form = form, !.known = StoredUsers]]
  /\ UNCHANGED <<accounts, sessions, index, owner, disturbed>>

\* GetByUserName()
CheckUserName(r) ==
  /\ At(r, "signUp", "userName")
  /\ IF \E u \in StoredUsers : accounts[u].userName = req[r].form.userName
     THEN Return(r) ELSE Move(r, "insert")
  /\ UNCHANGED <<accounts, sessions, index, owner, disturbed>>

\* Insert().  The index is not told of the new account.
Insert(r) ==
  /\ At(r, "signUp", "insert")
  /\ \E u \in Users :
       /\ ~Stored(u)
       /\ accounts' = [accounts EXCEPT ![u] = req[r].form]
       /\ req' = [req EXCEPT ![r] =
            [NoRequest EXCEPT !.pc = "begin", !.op = "signUp", !.user = u,
                              !.name = req[r].form.name]]
  /\ UNCHANGED <<sessions, index, owner, disturbed>>

\* MongoDB has inserted the account, but the answer was lost.
InsertFails(r) ==
  /\ Failures
  /\ At(r, "signUp", "insert")
  /\ \E u \in Users :
       /\ ~Stored(u)
       /\ accounts' = [accounts EXCEPT ![u] = req[r].form]
  /\ Return(r)
  /\ UNCHANGED <<sessions, index, owner, disturbed>>

-----------------------------------------------------------------------------
(* POST /v1/sessions: sign in.                                             *)

\* Mutant of SignIn: that nobody has the address is not looked at.
SignInNobody(r) ==
  /\ ~Active(r)
  /\ req' = [req EXCEPT ![r] =
       [NoRequest EXCEPT !.pc = "begin", !.op = "signIn"]]
  /\ UNCHANGED <<accounts, sessions, index, owner, disturbed>>

\* GetByEmail() finds the account and Authenticate() accepts the password.
SignIn(r) ==
  /\ ~Active(r)
  /\ \E u \in StoredUsers :
       req' = [req EXCEPT ![r] =
         [NoRequest EXCEPT !.pc = "begin", !.op = "signIn", !.user = u,
                           !.name = accounts[u].name]]
  /\ UNCHANGED <<accounts, sessions, index, owner, disturbed>>

\* Mutant of BeginSession: the identifier is one that is in use.
BeginSessionAgain(r) ==
  /\ req[r].pc = "begin"
  /\ \E s \in Sids :
       sessions' = [sessions EXCEPT ![s] =
                      [user |-> req[r].user, name |-> req[r].name]]
  /\ Return(r)
  /\ UNCHANGED <<accounts, index, owner, disturbed>>

\* BeginSession(), after either: a new identifier, and Save().
BeginSession(r) ==
  /\ req[r].pc = "begin"
  /\ \E s \in Sids :
       /\ sessions[s] = Unborn
       /\ sessions' = [sessions EXCEPT ![s] =
                         [user |-> req[r].user, name |-> req[r].name]]
       /\ owner' = [owner EXCEPT ![s] = req[r].user]
  /\ Return(r)
  /\ UNCHANGED <<accounts, index, disturbed>>

-----------------------------------------------------------------------------
(* PATCH /v1/users/me: change the profile.  A body that cannot be decoded  *)
(* is answered with 400, and the handler goes on with empty names.         *)

\* A change of profile that has read its session and is not over.
Patching(r, u) == req[r].op = "patchMe" /\ req[r].user = u

\* GetState() finds the session: the handler has a copy of it, and renews it.
PatchMe(r) ==
  /\ ~Active(r)
  /\ \E s \in Sids, name \in Names :
       LET u == sessions[s].user IN
       /\ Live(s)
       /\ req' = [req EXCEPT ![r] =
            [NoRequest EXCEPT
               !.pc = "update", !.op = "patchMe", !.sid = s, !.user = u,
               !.name = name, !.old = sessions[s].name]]
       /\ disturbed' = IF \E p \in Requests : Patching(p, u)
                       THEN disturbed \cup {u} ELSE disturbed
  /\ UNCHANGED <<accounts, sessions, index, owner>>

\* UserStore.Update()
Update(r) ==
  /\ At(r, "patchMe", "update")
  /\ accounts' = [accounts EXCEPT ![req[r].user].name = req[r].name]
  /\ Move(r, "save")
  /\ UNCHANGED <<sessions, index, owner, disturbed>>

\* SessionStore.Save() writes the state whether or not the session lives.
Save(r) ==
  /\ At(r, "patchMe", "save")
  /\ sessions' = [sessions EXCEPT ![req[r].sid] =
                    [user |-> req[r].user, name |-> req[r].name]]
  /\ Move(r, "unindex")
  /\ UNCHANGED <<accounts, index, owner, disturbed>>

\* Either may fail, and the handler goes on.
UpdateFails(r) ==
  /\ Failures
  /\ At(r, "patchMe", "update")
  /\ Move(r, "save")
  /\ disturbed' = disturbed \cup {req[r].user}
  /\ UNCHANGED <<accounts, sessions, index, owner>>

SaveFails(r) ==
  /\ Failures
  /\ At(r, "patchMe", "save")
  /\ Move(r, "unindex")
  /\ UNCHANGED <<accounts, sessions, index, owner, disturbed>>

\* TrieStore.Delete() of the name the session had.  Without an index it panics,
\* which ends the request.
Unindex(r) ==
  /\ At(r, "patchMe", "unindex")
  /\ IF index = Null THEN Return(r) /\ UNCHANGED index
     ELSE Move(r, "index") /\ Trie!Delete(req[r].old, req[r].user)
  /\ UNCHANGED <<accounts, sessions, owner, disturbed>>

\* Mutant of Index: the name is added only if it is a new one.
IndexChanged(r) ==
  /\ At(r, "patchMe", "index")
  /\ IF req[r].name = req[r].old THEN UNCHANGED index
     ELSE Trie!Add(req[r].name, req[r].user)
  /\ Return(r)
  /\ UNCHANGED <<accounts, sessions, owner, disturbed>>

\* TrieStore.Add() of the new name, and the answer.  (There is an index:
\* Delete() had one.)
Index(r) ==
  /\ At(r, "patchMe", "index") /\ index # Null
  /\ Trie!Add(req[r].name, req[r].user)
  /\ Return(r)
  /\ UNCHANGED <<accounts, sessions, owner, disturbed>>

-----------------------------------------------------------------------------
(* DELETE /v1/sessions/mine: sign out.                                     *)

\* EndSession(), which does not ask whether the session lives.
EndSession(s) ==
  /\ sessions[s] # Unborn
  /\ sessions' = [sessions EXCEPT ![s] = Ended]
  /\ UNCHANGED <<accounts, index, req, owner, disturbed>>

-----------------------------------------------------------------------------

\* A call to a store fails without an effect, and ends its request.
CallFails(r) ==
  /\ Failures
  /\ req[r].pc \in {"userName", "insert", "begin"}
  /\ Return(r)
  /\ UNCHANGED <<accounts, sessions, index, owner, disturbed>>

Arrive(r) == SignUp(r) \/ SignIn(r) \/ PatchMe(r)

Advance(r) ==
  \/ CheckUserName(r) \/ Insert(r) \/ InsertFails(r)
  \/ BeginSession(r)
  \/ Update(r) \/ UpdateFails(r) \/ Save(r) \/ SaveFails(r)
  \/ Unindex(r) \/ Index(r)
  \/ CallFails(r)

Next ==
  \/ \E r \in Requests : Arrive(r) \/ Advance(r)
  \/ \E s \in Sids : EndSession(s) \/ Expire(s)
  \/ Restart

Spec == Init /\ [][Next]_vars

-----------------------------------------------------------------------------
(* Properties.                                                             *)

Reqs == [pc    : {"idle", "userName", "insert", "begin", "update", "save",
                  "unindex", "index"},
         op    : {"none", "signUp", "signIn", "patchMe"},
         user  : Users \cup {Null},
         sid   : Sids \cup {Null},
         form  : Forms \cup {Null},
         name  : Names \cup {Null},
         old   : Names \cup {Null},
         known : SUBSET Users]

\* Type invariant of the accounts, the sessions and the requests.
TypeOK ==
  /\ accounts \in [Users -> Profiles \cup {Unborn}]
  /\ sessions \in [Sids -> States \cup {Unborn, Ended}]
  /\ index \in {Null} \cup SUBSET (Keys \X Users)
  /\ req \in [Requests -> Reqs]
  /\ owner \in [Sids -> Users \cup {Null}]
  /\ disturbed \in SUBSET Users

\* A session stands for one account from its beginning on: however sign-ins,
\* profile changes, sign-outs and expiries interleave, and although a profile
\* change writes back a copy it has read earlier, a live session never holds
\* the state of another account, or of one that is not stored.
SessionsKeepTheirOwner ==
  \A s \in Sids :
    Live(s) => sessions[s].user = owner[s] /\ Stored(sessions[s].user)

\* The four handlers, whose requests overlap, fail and are cut off by restarts,
\* give the sessions SessionTable promises: an identifier never changes hands,
\* and nothing but a sign-in or sign-up gives one out.
ImplementsSessions == Table!Spec

\* An account that was there when a sign-up began has another address and
\* another user name than the account the sign-up creates.  (Sign-ups that
\* overlap are not kept apart.)
SignUpsRefuseTaken ==
  [][\A r \in Requests : At(r, "signUp", "insert") /\ req'[r] # req[r] =>
       \A u \in Users : ~Stored(u) /\ Stored(u)' =>
         \A v \in req[r].known :
           /\ accounts[v].email # accounts'[u].email
           /\ accounts[v].userName # accounts'[u].userName]_vars

\* A session that has ended comes back only by the hand of a profile change
\* that had read it before it ended and was still under way.
EndedUnlessUnderWay ==
  [][\A s \in Sids :
       sessions[s] = Ended /\ sessions'[s] # Ended =>
         \E r \in Requests :
           req[r].sid = s /\ req[r].op = "patchMe" /\ req[r].pc = "save"]_vars

Indexed(w, u) == index # Null /\ <<w, u>> \in index

\* An account the index knows is found under the name it has now, whatever other
\* accounts' names are deleted, and also when the change came from a session
\* that holds an older copy of the profile, unless two changes overlapped or the
\* account could not be updated.  (A name with a doubled letter may be lost when
\* another is deleted.)
CurrentNameIsIndexed ==
  \A u \in StoredUsers \ disturbed :
    (/\ \E w \in Keys : Indexed(w, u)
     /\ \A r \in Requests : ~Patching(r, u))
    => accounts[u].name \in Doubled \/ Indexed(accounts[u].name, u)

=============================================================================

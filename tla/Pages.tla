-------------------------------- MODULE Pages --------------------------------
(***************************************************************************)
(* The pages of the application in the tabs of one browser (SignIn.js,     *)
(* SignUp.js, App.js and the session part of Messages.js), the             *)
(* authorization they share in localStorage, and the gateway behind them:  *)
(* sessions (sessions/session.go) and the proxy (main.go) that tells the   *)
(* messaging service who sends a request.                                  *)
(*                                                                         *)
(* A request carries the authorization that was stored when it was made,   *)
(* is executed some time later and answered later still; by then the tab   *)
(* may show another page, and another tab may have signed in or out.  The  *)
(* sessions are a SessionTable, which Accounts implements; whether         *)
(* credentials are accepted is the business of Accounts, too.              *)
(***************************************************************************)
EXTENDS Naturals

CONSTANTS
  Users,        \* people who sign up and in
  Sids,         \* session identifiers
  Clipped,      \* those whose text begins with one of the letters of "Bearer"
  Tabs,         \* tabs of the browser
  Requests,     \* bound of the model: requests under way at a time
  Null,         \* no value
  Pending,      \* not answered yet
  Refused,      \* answered with an error
  Done          \* answered with success and without a value

ASSUME PagesAssumption ==
  /\ Clipped \subseteq Sids
  /\ Null \notin Users \cup Sids \cup Tabs
  /\ {Pending, Refused, Done} \cap (Users \cup Sids \cup {Null}) = {}
  /\ Pending # Refused /\ Pending # Done /\ Refused # Done
  /\ Users \cap Sids = {}

VARIABLES
  holder, live, \* the sessions
  storage,      \* localStorage.authorization
  page,         \* what each tab shows
  user,         \* this.state.user of its Messages page, Null before it is known
  began,        \* history: the authorization that page began with
  req           \* the requests under way

sessionVars == <<holder, live>>
tabVars == <<storage, page, user, began>>
vars == <<sessionVars, tabVars, req>>

Table == INSTANCE SessionTable

-----------------------------------------------------------------------------
(* Requests.                                                               *)

NoRequest == [kind |-> "none", tab |-> Null, who |-> Null, sid |-> Null,
              began |-> Null, answer |-> Null]

\* fetch(): the headers carry the authorization stored now (handleHeaders()).
\* who is the user the page shows, or who fills in the form.
Call(kind, t, who) ==
  [kind |-> kind, tab |-> t, who |-> who, sid |-> storage,
   began |-> began[t], answer |-> Pending]

Free(r) == req[r] = NoRequest

Waiting(r, kind) == req[r].kind = kind /\ req[r].answer = Pending

Answered(r, kind) == req[r].kind = kind /\ req[r].answer # Pending

Send(r, call) == Free(r) /\ req' = [req EXCEPT ![r] = call]

Reply(r, answer) == req' = [req EXCEPT ![r].answer = answer]

Finish(r) == req' = [req EXCEPT ![r] = NoRequest]

\* Mutant of Unmounted: the state is shared by all Messages pages of the tab.
UnmountedInName(t) == req

\* The Messages page of the tab is unmounted: it ignores the answer of its
\* fetchUser().  The handlers of other answers do their work all the same.
Unmounted(t) ==
  [r \in Requests |->
     IF req[r].kind = "me" /\ req[r].tab = t THEN NoRequest ELSE req[r]]

\* The tab loads the application anew: nobody handles its answers any more.
Unloaded(t) ==
  [r \in Requests |->
     IF req[r].tab # t THEN req[r]
     ELSE IF req[r].kind = "me" THEN NoRequest
     ELSE [req[r] EXCEPT !.tab = Null]]

-----------------------------------------------------------------------------

Init ==
  /\ Table!Init
  /\ storage = Null
  /\ page = [t \in Tabs |-> "signin"]
  /\ user = [t \in Tabs |-> Null]
  /\ began = [t \in Tabs |-> Null]
  /\ req = [r \in Requests |-> NoRequest]

-----------------------------------------------------------------------------
(* The routes of App.js.                                                   *)

\* A Messages page is created, knows nobody, and asks who it is for.  The
\* other calls are the ones still under way.
ShowMessages(t, r, calls) ==
  /\ page' = [page EXCEPT ![t] = "messages"]
  /\ user' = [user EXCEPT ![t] = Null]
  /\ began' = [began EXCEPT ![t] = storage']
  /\ req' = [calls EXCEPT ![r] =
       [NoRequest EXCEPT !.kind = "me", !.tab = t, !.sid = storage',
                         !.began = storage', !.answer = Pending]]

ShowForm(t, p, calls) ==
  /\ page' = [page EXCEPT ![t] = p]
  /\ user' = [user EXCEPT ![t] = Null]
  /\ began' = [began EXCEPT ![t] = Null]
  /\ req' = calls

\* A Messages page that finds nothing stored goes to the sign-in page.
Open(t, r, p, calls) ==
  /\ UNCHANGED <<sessionVars, storage>>
  /\ IF p # "messages" THEN ShowForm(t, p, calls)
     ELSE IF storage = Null THEN ShowForm(t, "signin", calls)
     ELSE Free(r) /\ ShowMessages(t, r, calls)

Forms == {"signin", "signup"}

Paths == Forms \cup {"messages"}

\* A link, or the browser's history: the application stays.
Follow(t, r) ==
  \E p \in Paths \ {page[t]} : Open(t, r, p, Unmounted(t))

\* An address, or a reload: the application starts anew.
Load(t, r) ==
  \E p \in Paths : Open(t, r, p, Unloaded(t))

-----------------------------------------------------------------------------
(* What the user of a tab does.                                            *)

\* Either form; its button can be pressed again before the answer.
Submit(t, r) ==
  /\ page[t] \in Forms
  /\ \E u \in Users : Send(r, Call("login", t, u))
  /\ UNCHANGED <<sessionVars, tabVars>>

SignOut(t, r) ==
  /\ page[t] = "messages"
  /\ Send(r, Call("signout", t, Null))
  /\ UNCHANGED <<sessionVars, tabVars>>

\* A message, a channel, a topic: whatever the proxy forwards.
Post(t, r) ==
  /\ page[t] = "messages"
  /\ Send(r, Call("post", t, user[t]))
  /\ UNCHANGED <<sessionVars, tabVars>>

\* handleEditName() sends the last name of the user it shows along.
EditName(t, r) ==
  /\ page[t] = "messages"
  /\ Send(r, Call("rename", t, user[t]))
  /\ UNCHANGED <<sessionVars, tabVars>>

-----------------------------------------------------------------------------
(* The gateway.                                                            *)

\* strings.Trim() takes "Bearer " for a set of letters and strips them from
\* both ends.  An identifier ends in "==", but what is left of one that begins
\* with such a letter is not valid.
GetSessionID(sid) == IF sid \in Clipped THEN Null ELSE sid

\* GetState() finds a session.
Known(sid) == GetSessionID(sid) \in live

\* An error is printed, and the user is nil.
GetCurrentUser(sid) ==
  IF Known(sid) THEN holder[GetSessionID(sid)] ELSE Null

\* POST /v1/sessions or /v1/users, accepted: BeginSession().
LogIn(r) ==
  \E s \in Sids :
    /\ Waiting(r, "login")
    /\ Table!Begin(s, req[r].who)
    /\ Reply(r, s)
    /\ UNCHANGED tabVars

RefuseLogIn(r) ==
  /\ Waiting(r, "login")
  /\ Reply(r, Refused)
  /\ UNCHANGED <<sessionVars, tabVars>>

\* GET /v1/users/me
UsersMe(r) ==
  /\ Waiting(r, "me")
  /\ Reply(r, IF Known(req[r].sid) THEN GetCurrentUser(req[r].sid)
              ELSE Refused)
  /\ UNCHANGED <<sessionVars, tabVars>>

\* DELETE /v1/sessions/mine: EndSession() does not ask whether it lives.
SessionsMine(r) ==
  LET sid == GetSessionID(req[r].sid) IN
  /\ Waiting(r, "signout")
  /\ IF sid = Null THEN Reply(r, Refused) /\ UNCHANGED sessionVars
     ELSE Reply(r, Done) /\ Table!End(sid)
  /\ UNCHANGED tabVars

\* PATCH /v1/users/me: the session says whose profile it is, and is written
\* back later.
PatchMe(r) ==
  /\ Waiting(r, "rename")
  /\ Reply(r, IF Known(req[r].sid) THEN GetCurrentUser(req[r].sid)
              ELSE Refused)
  /\ UNCHANGED <<sessionVars, tabVars>>

SaveProfile(r) ==
  /\ Answered(r, "rename")
  /\ IF req[r].answer = Refused THEN UNCHANGED sessionVars
     ELSE Table!WriteBack(req[r].sid)
  /\ Finish(r)
  /\ UNCHANGED tabVars

\* The Director of NewServiceProxy() sets X-User: that is who posts.
Forward(r) ==
  /\ Waiting(r, "post")
  /\ Reply(r, GetCurrentUser(req[r].sid))
  /\ UNCHANGED <<sessionVars, tabVars>>

\* An hour without use.
Expire(s) ==
  /\ s \in live
  /\ Table!End(s)
  /\ UNCHANGED <<tabVars, req>>

-----------------------------------------------------------------------------
(* Answers.                                                                *)

Handled(r, kind) == Answered(r, kind) /\ req[r].tab # Null

\* The Messages page is created unless the tab already shows one.
LoggedIn(r) ==
  LET t == req[r].tab IN
  /\ Handled(r, "login") /\ req[r].answer # Refused
  /\ storage' = req[r].answer
  /\ IF page[t] = "messages"
     THEN Finish(r) /\ UNCHANGED <<page, user, began>>
     ELSE ShowMessages(t, r, Unmounted(t))
  /\ UNCHANGED sessionVars

\* Whatever is stored by now is removed, whatever page the tab shows is left.
SignedOut(r) ==
  LET t == req[r].tab IN
  /\ Handled(r, "signout") /\ req[r].answer # Refused
  /\ storage' = Null
  /\ ShowForm(t, "signin", [Unmounted(t) EXCEPT ![r] = NoRequest])
  /\ UNCHANGED sessionVars

\* Mutant of FetchedUser: the body of an error is taken for a user.
FetchedAnything(r) ==
  /\ Handled(r, "me")
  /\ user' = [user EXCEPT ![req[r].tab] = req[r].answer]
  /\ Finish(r)
  /\ UNCHANGED <<sessionVars, storage, page, began>>

\* A body that is no JSON is not taken for a user.
FetchedUser(r) ==
  /\ Handled(r, "me") /\ req[r].answer # Refused
  /\ user' = [user EXCEPT ![req[r].tab] = req[r].answer]
  /\ Finish(r)
  /\ UNCHANGED <<sessionVars, storage, page, began>>

\* An error, an answer nobody waits for or that changes nothing, and a request
\* or an answer that is lost.
Drop(r) ==
  /\ ~Free(r)
  /\ Finish(r)
  /\ UNCHANGED <<sessionVars, tabVars>>

-----------------------------------------------------------------------------

Next ==
  \/ \E t \in Tabs, r \in Requests :
       \/ Follow(t, r) \/ Load(t, r)
       \/ Submit(t, r) \/ SignOut(t, r) \/ Post(t, r) \/ EditName(t, r)
  \/ \E r \in Requests :
       \/ LogIn(r) \/ RefuseLogIn(r) \/ UsersMe(r) \/ SessionsMine(r)
       \/ PatchMe(r) \/ SaveProfile(r) \/ Forward(r)
       \/ LoggedIn(r) \/ SignedOut(r) \/ FetchedUser(r) \/ Drop(r)
  \/ \E s \in Sids : Expire(s)

Spec == Init /\ [][Next]_vars

-----------------------------------------------------------------------------
(* Properties.                                                             *)

Calls == [kind   : {"none", "login", "signout", "post", "rename", "me"},
          tab    : Tabs \cup {Null},
          who    : Users \cup {Null},
          sid    : Sids \cup {Null},
          began  : Sids \cup {Null},
          answer : Users \cup Sids \cup {Null, Pending, Refused, Done}]

\* Type invariant of the sessions, the tabs and the requests.
TypeOK ==
  /\ holder \in [Sids -> Users \cup {Null}]
  /\ live \in SUBSET Sids
  /\ storage \in Sids \cup {Null}
  /\ page \in [Tabs -> Paths]
  /\ user \in [Tabs -> Users \cup {Null}]
  /\ began \in [Tabs -> Sids \cup {Null}]
  /\ req \in [Requests -> Calls]

\* What is posted from a page that shows a user, and the profile that is
\* changed from it, are that user's or nobody's, unless the authorization in
\* localStorage was replaced since the page was created: although the page
\* learns its user from one request and acts with others, although sessions
\* end and are written back meanwhile, and although answers come late.
ActsAsShown ==
  \A r \in Requests :
    /\ req[r].kind \in {"post", "rename"} /\ req[r].answer \in Users
    /\ req[r].who # Null /\ req[r].sid = req[r].began
    => req[r].answer = req[r].who

\* GetSessionID() accepts the authorization the gateway has given out: while
\* the session lives, the browser that stores it is known.
SignedInIsKnown == storage \in live => Known(storage)

=============================================================================

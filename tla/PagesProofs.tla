----------------------------- MODULE PagesProofs -----------------------------
(***************************************************************************)
(* Proofs about the pages, for any number of people, sessions, tabs and    *)
(* requests under way.                                                     *)
(***************************************************************************)
EXTENDS Pages, TLAPS

\* What is true of a request q where the tabs' pages began with b and the
\* sessions belong to h: a form's answer is a session, fetchUser() asks for
\* the session its page began with, and who a request acts for, and whoever is
\* shown on a page that began with the same session, is the session's holder.
CallOK(q, b, h) ==
  /\ q \in Calls
  /\ q.kind = "login" =>
       q.who \in Users /\ q.answer \in Sids \cup {Pending, Refused}
  /\ q.kind = "me" =>
       /\ q.tab \in Tabs /\ q.sid \in Sids /\ q.sid = b[q.tab]
       /\ q.answer \in Users \cup {Null, Pending, Refused}
  /\ q.kind = "rename" /\ q.answer \notin {Pending, Refused} => q.sid \in Sids
  /\ q.kind \in {"me", "post", "rename"} /\ q.answer \in Users =>
       q.sid \in Sids /\ h[q.sid] = q.answer
  /\ q.kind \in {"post", "rename"} /\ q.who # Null /\ q.sid = q.began =>
       q.sid \in Sids /\ h[q.sid] = q.who

CallsOK(calls, b, h) ==
  /\ calls \in [Requests -> Calls]
  /\ \A r \in Requests : CallOK(calls[r], b, h)

\* A page shows the holder of the session it began with, or nobody.
ShowsHolder(u, b, h) ==
  \A t \in Tabs : u[t] # Null => b[t] \in Sids /\ h[b[t]] = u[t]

Inv ==
  /\ TypeOK
  /\ CallsOK(req, began, holder)
  /\ ShowsHolder(user, began, holder)

\* No session changes hands.
Kept(h, g) == \A s \in Sids : h[s] # Null => g[s] = h[s]

-----------------------------------------------------------------------------
(* Requests.                                                               *)

LEMMA NoRequestOK ==
  ASSUME NEW b, NEW h
  PROVE  CallOK(NoRequest, b, h)
  BY PagesAssumption DEF NoRequest, CallOK, Calls

\* A request stays what it is while sessions begin, end and are written back.
LEMMA CallStays ==
  ASSUME NEW b, NEW h, NEW g, Kept(h, g), NEW q, CallOK(q, b, h)
  PROVE  CallOK(q, b, g)
  BY PagesAssumption DEF CallOK, Kept

\* And while a page that did not make it is replaced.
LEMMA CallOutlivesPage ==
  ASSUME NEW b \in [Tabs -> Sids \cup {Null}], NEW h, NEW t \in Tabs, NEW v,
         NEW q, CallOK(q, b, h), q.kind # "me" \/ q.tab # t
  PROVE  CallOK(q, [b EXCEPT ![t] = v], h)
  BY DEF CallOK

LEMMA UnmountedCalls ==
  ASSUME Inv, NEW t \in Tabs, NEW v
  PROVE  CallsOK(Unmounted(t), [began EXCEPT ![t] = v], holder)
<1>1. began \in [Tabs -> Sids \cup {Null}]
  BY DEF Inv, TypeOK
<1>2. ASSUME NEW r \in Requests
      PROVE  CallOK(Unmounted(t)[r], [began EXCEPT ![t] = v], holder)
  <2>1. CallOK(req[r], began, holder)
    BY DEF Inv, CallsOK
  <2>2. CASE req[r].kind = "me" /\ req[r].tab = t
    BY <2>2, NoRequestOK DEF Unmounted
  <2>3. CASE ~(req[r].kind = "me" /\ req[r].tab = t)
    <3>1. Unmounted(t)[r] = req[r]
      BY <2>3 DEF Unmounted
    <3>. QED
      BY <1>1, <2>1, <2>3, <3>1, CallOutlivesPage
  <2>. QED
    BY <2>2, <2>3
<1>3. Unmounted(t) \in [Requests -> Calls]
  BY <1>2 DEF Unmounted, CallOK
<1>. QED
  BY <1>2, <1>3 DEF CallsOK

LEMMA UnloadedCalls ==
  ASSUME Inv, NEW t \in Tabs, NEW v
  PROVE  CallsOK(Unloaded(t), [began EXCEPT ![t] = v], holder)
<1>1. began \in [Tabs -> Sids \cup {Null}]
  BY DEF Inv, TypeOK
<1>2. ASSUME NEW r \in Requests
      PROVE  CallOK(Unloaded(t)[r], [began EXCEPT ![t] = v], holder)
  <2>1. CallOK(req[r], began, holder) /\ req[r] \in Calls
    BY DEF Inv, CallsOK, CallOK
  <2>2. CASE req[r].tab # t
    <3>1. Unloaded(t)[r] = req[r]
      BY <2>2 DEF Unloaded
    <3>. QED
      BY <1>1, <2>1, <2>2, <3>1, CallOutlivesPage
  <2>3. CASE req[r].tab = t /\ req[r].kind = "me"
    BY <2>3, NoRequestOK DEF Unloaded
  <2>4. CASE req[r].tab = t /\ req[r].kind # "me"
    <3>1. Unloaded(t)[r] = [req[r] EXCEPT !.tab = Null]
      BY <2>4 DEF Unloaded
    <3>2. CallOK([req[r] EXCEPT !.tab = Null], began, holder)
      BY <2>1, <2>4 DEF CallOK, Calls
    <3>3. [req[r] EXCEPT !.tab = Null].kind # "me"
      BY <2>1, <2>4 DEF Calls
    <3>. QED
      BY <1>1, <3>1, <3>2, <3>3, CallOutlivesPage
  <2>. QED
    BY <2>2, <2>3, <2>4
<1>3. Unloaded(t) \in [Requests -> Calls]
  BY <1>2 DEF Unloaded, CallOK
<1>. QED
  BY <1>2, <1>3 DEF CallsOK

\* One request changes and the others stay.
LEMMA OneCall ==
  ASSUME NEW b, NEW h, NEW calls, CallsOK(calls, b, h),
         NEW r \in Requests, NEW q, CallOK(q, b, h)
  PROVE  CallsOK([calls EXCEPT ![r] = q], b, h)
  BY DEF CallsOK, CallOK

LEMMA CallsStay ==
  ASSUME NEW b, NEW h, NEW g, Kept(h, g), NEW calls, CallsOK(calls, b, h)
  PROVE  CallsOK(calls, b, g)
  BY CallStays DEF CallsOK

\* A request is answered, while sessions begin, end and are written back.
LEMMA Replied ==
  ASSUME Inv, NEW r \in Requests, NEW a, Reply(r, a), Kept(holder, holder'),
         CallOK([req[r] EXCEPT !.answer = a], began, holder'),
         UNCHANGED tabVars, holder' \in [Sids -> Users \cup {Null}],
         live' \in SUBSET Sids
  PROVE  Inv'
<1>1. CallsOK(req, began, holder')
  BY CallsStay DEF Inv
<1>2. req' = [req EXCEPT ![r] = [req[r] EXCEPT !.answer = a]]
  BY DEF Reply
<1>3. CallsOK(req', began', holder')
  BY <1>1, <1>2, OneCall DEF tabVars
<1>4. ShowsHolder(user', began', holder')
  BY DEF Inv, ShowsHolder, Kept, tabVars
<1>5. TypeOK'
  BY <1>3 DEF Inv, TypeOK, CallsOK, tabVars
<1>. QED
  BY <1>3, <1>4, <1>5 DEF Inv

\* A request is over, while sessions begin, end and are written back.
LEMMA Finished ==
  ASSUME Inv, NEW r \in Requests, Finish(r), UNCHANGED <<tabVars, holder>>,
         live' \in SUBSET Sids
  PROVE  Inv'
<1>1. CallsOK(req', began, holder)
  BY OneCall, NoRequestOK DEF Finish, Inv
<1>2. TypeOK'
  BY <1>1 DEF Inv, TypeOK, CallsOK, tabVars
<1>. QED
  BY <1>1, <1>2 DEF Inv, tabVars

\* A request is sent.
LEMMA Sent ==
  ASSUME Inv, NEW r \in Requests, NEW q, Send(r, q),
         CallOK(q, began, holder), UNCHANGED <<tabVars, sessionVars>>
  PROVE  Inv'
<1>1. CallsOK(req', began, holder)
  BY OneCall DEF Send, Inv
<1>2. TypeOK'
  BY <1>1 DEF Inv, TypeOK, CallsOK, tabVars, sessionVars
<1>. QED
  BY <1>1, <1>2 DEF Inv, tabVars, sessionVars

-----------------------------------------------------------------------------
(* Pages.                                                                  *)

\* The page of a tab is replaced by one that shows nobody.
LEMMA Replaced ==
  ASSUME Inv, NEW t \in Tabs, NEW p \in Paths, NEW v \in Sids \cup {Null},
         page' = [page EXCEPT ![t] = p], user' = [user EXCEPT ![t] = Null],
         began' = [began EXCEPT ![t] = v], storage' \in Sids \cup {Null},
         UNCHANGED sessionVars, CallsOK(req', began', holder)
  PROVE  Inv'
<1>1. TypeOK'
  BY DEF Inv, TypeOK, CallsOK, sessionVars
<1>2. ShowsHolder(user', began', holder')
  BY DEF Inv, TypeOK, ShowsHolder, sessionVars
<1>. QED
  BY <1>1, <1>2 DEF Inv, sessionVars

LEMMA FormShown ==
  ASSUME Inv, NEW t \in Tabs, NEW p \in Forms, NEW calls,
         ShowForm(t, p, calls), storage' \in Sids \cup {Null},
         UNCHANGED sessionVars,
         CallsOK(calls, [began EXCEPT ![t] = Null], holder)
  PROVE  Inv'
<1>1. CallsOK(req', began', holder)
  BY DEF ShowForm
<1>. QED
  BY <1>1, Replaced DEF ShowForm, Paths

LEMMA MessagesShown ==
  ASSUME Inv, NEW t \in Tabs, NEW r \in Requests, NEW calls,
         ShowMessages(t, r, calls), storage' \in Sids,
         UNCHANGED sessionVars,
         CallsOK(calls, [began EXCEPT ![t] = storage'], holder)
  PROVE  Inv'
<1> DEFINE q == [NoRequest EXCEPT !.kind = "me", !.tab = t, !.sid = storage',
                                  !.began = storage', !.answer = Pending]
<1>1. began' = [began EXCEPT ![t] = storage'] /\ began'[t] = storage'
  BY DEF ShowMessages, Inv, TypeOK
<1>2. CallOK(q, began', holder)
  <2>1. Pending \notin Users
    BY PagesAssumption
  <2>. QED
    BY <1>1, <2>1 DEF NoRequest, CallOK, Calls
<1>3. CallsOK(req', began', holder)
  <2>1. req' = [calls EXCEPT ![r] = q]
    BY DEF ShowMessages
  <2>. HIDE DEF q
  <2>. QED
    BY <1>1, <1>2, <2>1, OneCall
<1>. QED
  BY <1>3, Replaced DEF ShowMessages, Paths

LEMMA Opened ==
  ASSUME Inv, NEW t \in Tabs, NEW r \in Requests, NEW p \in Paths, NEW calls,
         Open(t, r, p, calls),
         \A v : CallsOK(calls, [began EXCEPT ![t] = v], holder)
  PROVE  Inv'
<1>1. storage \in Sids \cup {Null} /\ UNCHANGED <<sessionVars, storage>>
  BY DEF Open, Inv, TypeOK
<1>2. CASE p # "messages"
  <2>1. p \in Forms /\ ShowForm(t, p, calls)
    BY <1>2 DEF Open, Paths
  <2>. QED
    BY <1>1, <2>1, FormShown
<1>3. CASE p = "messages" /\ storage = Null
  <2>1. "signin" \in Forms /\ ShowForm(t, "signin", calls)
    BY <1>3 DEF Open, Forms
  <2>. QED
    BY <1>1, <2>1, FormShown
<1>4. CASE p = "messages" /\ storage # Null
  <2>1. ShowMessages(t, r, calls) /\ storage' \in Sids
    BY <1>1, <1>4 DEF Open
  <2>. QED
    BY <1>1, <2>1, MessagesShown
<1>. QED
  BY <1>2, <1>3, <1>4

-----------------------------------------------------------------------------
(* The steps of a tab.                                                     *)

LEMMA UserSteps ==
  ASSUME Inv, NEW t \in Tabs, NEW r \in Requests,
         \/ Follow(t, r) \/ Load(t, r)
         \/ Submit(t, r) \/ SignOut(t, r) \/ Post(t, r) \/ EditName(t, r)
  PROVE  Inv'
<1>0. /\ storage \in Sids \cup {Null} /\ began[t] \in Sids \cup {Null}
      /\ user[t] \in Users \cup {Null}
      /\ user[t] # Null => began[t] \in Sids /\ holder[began[t]] = user[t]
  BY DEF Inv, TypeOK, ShowsHolder
<1>1. CASE Follow(t, r)
  BY <1>1, Opened, UnmountedCalls DEF Follow
<1>2. CASE Load(t, r)
  BY <1>2, Opened, UnloadedCalls DEF Load
<1>3. CASE Submit(t, r)
  <2>1. PICK u \in Users : Send(r, Call("login", t, u))
    BY <1>3 DEF Submit
  <2>2. CallOK(Call("login", t, u), began, holder)
    BY <1>0 DEF CallOK, Call, Calls
  <2>. QED
    BY <1>3, <2>1, <2>2, Sent DEF Submit
<1>4. CASE SignOut(t, r)
  <2>1. CallOK(Call("signout", t, Null), began, holder)
    BY <1>0 DEF CallOK, Call, Calls
  <2>. QED
    BY <1>4, <2>1, Sent DEF SignOut
<1>5. Pending \notin Users
  BY PagesAssumption
<1>6. CASE Post(t, r)
  <2>1. CallOK(Call("post", t, user[t]), began, holder)
    BY <1>0, <1>5 DEF CallOK, Call, Calls
  <2>. QED
    BY <1>6, <2>1, Sent DEF Post
<1>7. CASE EditName(t, r)
  <2>1. CallOK(Call("rename", t, user[t]), began, holder)
    BY <1>0, <1>5 DEF CallOK, Call, Calls
  <2>. QED
    BY <1>7, <2>1, Sent DEF EditName
<1>. QED
  BY <1>1, <1>2, <1>3, <1>4, <1>6, <1>7

LEMMA AnswerSteps ==
  ASSUME Inv, NEW r \in Requests,
         LoggedIn(r) \/ SignedOut(r) \/ FetchedUser(r) \/ Drop(r)
  PROVE  Inv'
<1> DEFINE t == req[r].tab
<1>0. /\ req[r] \in Calls /\ CallOK(req[r], began, holder)
      /\ CallsOK(req, began, holder) /\ t \in Tabs \cup {Null}
  BY DEF Inv, CallsOK, CallOK, Calls
<1>1. CASE LoggedIn(r)
  <2>1. t \in Tabs /\ storage' = req[r].answer /\ UNCHANGED sessionVars
    BY <1>0, <1>1 DEF LoggedIn, Handled
  <2>2. req[r].answer \in Sids /\ req[r].kind = "login"
    BY <1>0, <1>1 DEF LoggedIn, Handled, Answered, CallOK
  <2>3. CASE page[t] = "messages"
    <3>1. Finish(r) /\ UNCHANGED <<page, user, began>>
      BY <1>1, <2>3 DEF LoggedIn
    <3>2. CallsOK(req', began, holder)
      BY <1>0, <3>1, OneCall, NoRequestOK DEF Finish
    <3>3. TypeOK'
      BY <2>1, <2>2, <3>1, <3>2 DEF Inv, TypeOK, CallsOK, sessionVars
    <3>. QED
      BY <2>1, <3>1, <3>2, <3>3 DEF Inv, sessionVars
  <2>4. CASE page[t] # "messages"
    <3>1. ShowMessages(t, r, Unmounted(t))
      BY <1>1, <2>4 DEF LoggedIn
    <3>2. CallsOK(Unmounted(t), [began EXCEPT ![t] = storage'], holder)
      BY <2>1, UnmountedCalls
    <3>. HIDE DEF t
    <3>. QED
      BY <2>1, <2>2, <3>1, <3>2, MessagesShown
  <2>. QED
    BY <2>3, <2>4
<1>2. CASE SignedOut(r)
  <2>1. t \in Tabs /\ storage' = Null /\ UNCHANGED sessionVars
    BY <1>0, <1>2 DEF SignedOut, Handled
  <2>2. ShowForm(t, "signin", [Unmounted(t) EXCEPT ![r] = NoRequest])
    BY <1>2 DEF SignedOut
  <2>3. CallsOK([Unmounted(t) EXCEPT ![r] = NoRequest],
                [began EXCEPT ![t] = Null], holder)
    BY <2>1, UnmountedCalls, NoRequestOK, OneCall
  <2>. QED
    BY <2>1, <2>2, <2>3, FormShown DEF Forms
<1>3. CASE FetchedUser(r)
  <2>1. /\ t \in Tabs /\ req[r].kind = "me"
        /\ req[r].answer \in Users \cup {Null}
        /\ req[r].answer # Null =>
             began[t] \in Sids /\ holder[began[t]] = req[r].answer
    BY <1>0, <1>3 DEF FetchedUser, Handled, Answered, CallOK
  <2>2. /\ user' = [user EXCEPT ![t] = req[r].answer] /\ Finish(r)
        /\ UNCHANGED <<sessionVars, storage, page, began>>
    BY <1>3 DEF FetchedUser
  <2>3. CallsOK(req', began, holder)
    BY <1>0, <2>2, OneCall, NoRequestOK DEF Finish
  <2>4. TypeOK'
    BY <2>1, <2>2, <2>3 DEF Inv, TypeOK, CallsOK, sessionVars
  <2>5. ShowsHolder(user', began, holder)
    BY <2>1, <2>2 DEF Inv, TypeOK, ShowsHolder
  <2>. QED
    BY <2>2, <2>3, <2>4, <2>5 DEF Inv, sessionVars
<1>4. CASE Drop(r)
  BY <1>4, Finished DEF Drop, sessionVars, Inv, TypeOK
<1>. QED
  BY <1>1, <1>2, <1>3, <1>4

-----------------------------------------------------------------------------
(* The steps of the gateway.                                               *)

\* Who the gateway takes a request for, and with which identifier.
LEMMA KnownHolder ==
  ASSUME Inv, NEW sid, Known(sid)
  PROVE  /\ sid \in Sids /\ GetCurrentUser(sid) = holder[sid]
         /\ holder[sid] \in Users \cup {Null}
  BY PagesAssumption DEF Known, GetCurrentUser, GetSessionID, Inv, TypeOK

LEMMA SessionsKept ==
  ASSUME Inv, NEW s \in Sids,
         \/ \E u \in Users : Table!Begin(s, u)
         \/ Table!End(s) \/ Table!WriteBack(s)
  PROVE  /\ Kept(holder, holder')
         /\ holder' \in [Sids -> Users \cup {Null}] /\ live' \in SUBSET Sids
  BY DEF Inv, TypeOK, Kept, Table!Begin, Table!End, Table!WriteBack

LEMMA GatewaySteps ==
  ASSUME Inv, NEW r \in Requests,
         \/ LogIn(r) \/ RefuseLogIn(r) \/ UsersMe(r) \/ SessionsMine(r)
         \/ PatchMe(r) \/ SaveProfile(r) \/ Forward(r)
  PROVE  Inv'
<1>0. /\ req[r] \in Calls /\ CallOK(req[r], began, holder)
      /\ holder \in [Sids -> Users \cup {Null}] /\ live \in SUBSET Sids
      /\ Kept(holder, holder)
  BY DEF Inv, CallsOK, CallOK, TypeOK, Kept
<1> DEFINE user_ == IF Known(req[r].sid) THEN GetCurrentUser(req[r].sid)
                    ELSE Refused
<1>1. CASE LogIn(r)
  <2>1. PICK s \in Sids :
          /\ Waiting(r, "login") /\ Table!Begin(s, req[r].who)
          /\ Reply(r, s) /\ UNCHANGED tabVars
    BY <1>1 DEF LogIn
  <2>2. req[r].who \in Users
    BY <1>0, <2>1 DEF CallOK, Waiting
  <2>3. /\ Kept(holder, holder')
        /\ holder' \in [Sids -> Users \cup {Null}] /\ live' \in SUBSET Sids
    BY <2>1, <2>2, SessionsKept
  <2>4. CallOK([req[r] EXCEPT !.answer = s], began, holder')
    BY <1>0, <2>1 DEF CallOK, Calls, Waiting
  <2>. QED
    BY <2>1, <2>3, <2>4, Replied
<1>2. CASE RefuseLogIn(r)
  <2>1. CallOK([req[r] EXCEPT !.answer = Refused], began, holder)
    BY <1>0, <1>2 DEF CallOK, Calls, Waiting, RefuseLogIn
  <2>. QED
    BY <1>0, <1>2, <2>1, Replied DEF RefuseLogIn, sessionVars
<1>3. CASE UsersMe(r)
  <2>1. CallOK([req[r] EXCEPT !.answer = user_], began, holder)
    BY <1>0, <1>3, KnownHolder, PagesAssumption
    DEF CallOK, Calls, Waiting, UsersMe
  <2>. QED
    BY <1>0, <1>3, <2>1, Replied DEF UsersMe, sessionVars
<1>4. CASE SessionsMine(r)
  <2> DEFINE sid == GetSessionID(req[r].sid)
  <2>1. req[r].kind = "signout" /\ UNCHANGED tabVars
    BY <1>4 DEF SessionsMine, Waiting
  <2>2. CASE sid = Null
    <3>1. Reply(r, Refused) /\ UNCHANGED sessionVars
      BY <1>4, <2>2 DEF SessionsMine
    <3>2. CallOK([req[r] EXCEPT !.answer = Refused], began, holder)
      BY <1>0, <2>1 DEF CallOK, Calls
    <3>. QED
      BY <1>0, <2>1, <3>1, <3>2, Replied DEF sessionVars
  <2>3. CASE sid # Null
    <3>1. Reply(r, Done) /\ Table!End(sid) /\ sid \in Sids
      BY <1>0, <1>4, <2>3 DEF SessionsMine, GetSessionID, Calls
    <3>2. CallOK([req[r] EXCEPT !.answer = Done], began, holder')
      BY <1>0, <2>1 DEF CallOK, Calls
    <3>. HIDE DEF sid
    <3>. QED
      BY <2>1, <3>1, <3>2, SessionsKept, Replied
  <2>. QED
    BY <2>2, <2>3
<1>5. CASE PatchMe(r)
  <2>1. CallOK([req[r] EXCEPT !.answer = user_], began, holder)
    BY <1>0, <1>5, KnownHolder, PagesAssumption
    DEF CallOK, Calls, Waiting, PatchMe
  <2>. QED
    BY <1>0, <1>5, <2>1, Replied DEF PatchMe, sessionVars
<1>6. CASE SaveProfile(r)
  <2>1. CASE req[r].answer = Refused
    BY <1>0, <1>6, <2>1, Finished DEF SaveProfile, sessionVars
  <2>2. CASE req[r].answer # Refused
    <3>1. req[r].sid \in Sids /\ Table!WriteBack(req[r].sid)
      BY <1>0, <1>6, <2>2 DEF SaveProfile, Answered, CallOK
    <3>2. UNCHANGED holder /\ live' \in SUBSET Sids
      BY <3>1, SessionsKept DEF Table!WriteBack
    <3>. QED
      BY <1>6, <3>2, Finished DEF SaveProfile, tabVars
  <2>. QED
    BY <2>1, <2>2
<1>7. CASE Forward(r)
  <2>1. \/ req[r].sid \in Sids
           /\ GetCurrentUser(req[r].sid) = holder[req[r].sid]
           /\ holder[req[r].sid] \in Users \cup {Null}
        \/ GetCurrentUser(req[r].sid) = Null
    BY KnownHolder DEF GetCurrentUser
  <2>2. CallOK([req[r] EXCEPT !.answer = GetCurrentUser(req[r].sid)],
               began, holder)
    BY <1>0, <1>7, <2>1, PagesAssumption DEF CallOK, Calls, Waiting, Forward
  <2>. QED
    BY <1>0, <1>7, <2>2, Replied DEF Forward, sessionVars
<1>. QED
  BY <1>1, <1>2, <1>3, <1>4, <1>5, <1>6, <1>7

LEMMA ExpirySteps ==
  ASSUME Inv, NEW s \in Sids, Expire(s)
  PROVE  Inv'
<1>1. UNCHANGED <<tabVars, req, holder>> /\ live' \in SUBSET Sids
  BY SessionsKept DEF Expire, Table!End
<1>. QED
  BY <1>1 DEF Inv, TypeOK, tabVars

-----------------------------------------------------------------------------
(* The theorems.                                                           *)

LEMMA InitInv == Init => Inv
<1>. SUFFICES ASSUME Init PROVE Inv
  OBVIOUS
<1>1. CallsOK(req, began, holder)
  <2>1. \A r \in Requests : CallOK(req[r], began, holder)
    BY NoRequestOK DEF Init
  <2>. QED
    BY <2>1 DEF CallsOK, CallOK, Init
<1>2. TypeOK
  BY <1>1 DEF Init, Table!Init, TypeOK, CallsOK, Paths, Forms
<1>. QED
  BY <1>1, <1>2 DEF Inv, ShowsHolder, Init

\* What Inv says of pages and requests holds in every state.
THEOREM Invariant == Spec => []Inv
<1>1. Inv /\ [Next]_vars => Inv'
  <2>1. Inv /\ UNCHANGED vars => Inv'
    BY DEF vars, tabVars, sessionVars, Inv, TypeOK
  <2>. QED
    BY <2>1, UserSteps, AnswerSteps, GatewaySteps, ExpirySteps DEF Next
<1>. QED
  BY <1>1, InitInv, PTL DEF Spec

\* Sessions, tabs and requests have their types.
THEOREM TypeCorrect == Spec => []TypeOK
  BY Invariant, PTL DEF Inv

\* What is posted from a page that shows a user, and the profile changed from
\* it, are that user's or nobody's, as long as the authorization the page
\* began with is the one stored when the user acts.
THEOREM TabsActAsShown == Spec => []ActsAsShown
<1>1. Inv => ActsAsShown
  BY DEF Inv, CallsOK, CallOK, ActsAsShown
<1>. QED
  BY <1>1, Invariant, PTL

=============================================================================

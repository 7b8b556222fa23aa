---------------------------- MODULE AccountsProofs ----------------------------
(***************************************************************************)
(* Proofs about accounts and sessions, for any number of accounts,         *)
(* sessions, names and concurrent requests, and any failures.              *)
(***************************************************************************)
EXTENDS Accounts, TLAPS

\* What a request has in hand, step by step: the form of a sign-up, the stored
\* account a session is begun for, the session whose profile is changed.
Held ==
  \A r \in Requests :
    LET q == req[r] IN
    /\ q.pc \in {"userName", "insert"} => q.op = "signUp" /\ q.form \in Forms
    /\ q.pc = "begin" =>
         /\ q.op # "patchMe"
         /\ q.user \in Users /\ Stored(q.user) /\ q.name \in Names
    /\ q.op = "patchMe" =>
         /\ q.user \in Users /\ Stored(q.user)
         /\ q.name \in Names /\ q.old \in Names
         /\ q.sid \in Sids /\ sessions[q.sid] # Unborn
         /\ owner[q.sid] = q.user

Inv == TypeOK /\ Held /\ SessionsKeepTheirOwner

-----------------------------------------------------------------------------
(* Steps.                                                                  *)

LEMMA NoRequestType == NoRequest \in Reqs
  BY DEF NoRequest, Reqs

\* The steps of a request change the state of no other.
LEMMA OthersWait ==
  ASSUME NEW r \in Requests, Arrive(r) \/ Advance(r), TypeOK,
         NEW t \in Requests, t # r
  PROVE  req'[t] = req[t]
  BY DEF Arrive, SignUp, SignIn, PatchMe, Advance, CheckUserName, Insert,
         InsertFails, BeginSession, Update, UpdateFails, Save, SaveFails,
         Unindex, Index, CallFails, Move, Return, TypeOK

\* An account that is stored stays stored, with its address and user name.
LEMMA AccountsStay ==
  ASSUME Inv, Next, NEW u \in Users, Stored(u)
  PROVE  /\ Stored(u)' /\ accounts'[u] \in Profiles
         /\ accounts'[u].email = accounts[u].email
         /\ accounts'[u].userName = accounts[u].userName
<1>1. accounts[u] \in Profiles
  BY DEF Inv, TypeOK, Stored
<1>2. CASE UNCHANGED accounts
  BY <1>1, <1>2 DEF Stored
<1>3. ASSUME NEW r \in Requests, Insert(r) \/ InsertFails(r)
      PROVE  accounts'[u] = accounts[u]
  BY <1>3 DEF Insert, InsertFails, Inv, TypeOK
<1>4. ASSUME NEW r \in Requests, Update(r)
      PROVE  /\ accounts'[u] \in Profiles
             /\ accounts'[u].email = accounts[u].email
             /\ accounts'[u].userName = accounts[u].userName
  <2>1. req[r].user \in Users /\ req[r].name \in Names
    BY <1>4 DEF Update, At, Inv, Held
  <2>2. \/ accounts'[u] = accounts[u]
        \/ accounts'[u] = [accounts[u] EXCEPT !.name = req[r].name]
    BY <1>4, <2>1 DEF Update, Inv, TypeOK
  <2>. QED
    BY <1>1, <2>1, <2>2 DEF Profiles
<1>5. \/ UNCHANGED accounts
      \/ \E r \in Requests : Insert(r) \/ InsertFails(r) \/ Update(r)
  BY DEF Next, Arrive, Advance, SignUp, SignIn, PatchMe, CheckUserName,
         BeginSession, UpdateFails, Save, SaveFails, Unindex, Index, CallFails,
         EndSession, Expire, Restart
<1>. QED
  BY <1>1, <1>2, <1>3, <1>4, <1>5, ConstantsAssumption DEF Stored

\* A session that was begun is not begun again.
LEMMA SessionsStay ==
  ASSUME Inv, Next, NEW s \in Sids, sessions[s] # Unborn
  PROVE  sessions'[s] # Unborn /\ owner'[s] = owner[s]
<1>1. CASE UNCHANGED <<sessions, owner>>
  BY <1>1
<1>2. ASSUME NEW r \in Requests, BeginSession(r)
      PROVE  UNCHANGED <<sessions[s], owner[s]>>
  BY <1>2 DEF BeginSession, Inv, TypeOK
<1>3. ASSUME NEW r \in Requests, Save(r)
      PROVE  sessions'[s] # Unborn /\ UNCHANGED owner
  <2>1. [user |-> req[r].user, name |-> req[r].name] \in States
    BY <1>3 DEF Save, At, Inv, Held, States
  <2>2. \/ sessions'[s] = sessions[s]
        \/ sessions'[s] = [user |-> req[r].user, name |-> req[r].name]
    BY <1>3 DEF Save, Inv, TypeOK
  <2>. QED
    BY <1>3, <2>1, <2>2, ConstantsAssumption DEF Save
<1>4. ASSUME NEW e \in Sids, EndSession(e) \/ Expire(e)
      PROVE  sessions'[s] # Unborn /\ UNCHANGED owner
  BY <1>4, ConstantsAssumption DEF EndSession, Expire, Inv, TypeOK
<1>5. \/ UNCHANGED <<sessions, owner>>
      \/ \E r \in Requests : BeginSession(r) \/ Save(r)
      \/ \E e \in Sids : EndSession(e) \/ Expire(e)
  BY DEF Next, Arrive, Advance, SignUp, SignIn, PatchMe, CheckUserName, Insert,
         InsertFails, Update, UpdateFails, SaveFails, Unindex, Index,
         CallFails, Restart
<1>. QED
  BY <1>1, <1>2, <1>3, <1>4, <1>5

-----------------------------------------------------------------------------
(* The invariant.                                                          *)

\* The state of a request after one of its own steps.
LEMMA RequestTypes ==
  ASSUME Inv, NEW r \in Requests, Arrive(r) \/ Advance(r)
  PROVE  req' \in [Requests -> Reqs]
<1>1. req \in [Requests -> Reqs] /\ req[r] \in Reqs
  BY DEF Inv, TypeOK
<1>2. CASE Return(r)
  BY <1>1, <1>2, NoRequestType DEF Return
<1>3. ASSUME NEW pc \in {"insert", "save", "unindex", "index"}, Move(r, pc)
      PROVE  req' \in [Requests -> Reqs]
  BY <1>1, <1>3 DEF Move, Reqs
<1>4. CASE SignUp(r)
  <2>1. PICK form \in Forms :
          req' = [req EXCEPT ![r] =
            [NoRequest EXCEPT !.pc = "userName", !.op = "signUp",
                              !.form = form, !.known = StoredUsers]]
    BY <1>4 DEF SignUp
  <2>2. StoredUsers \subseteq Users
    BY DEF StoredUsers
  <2>. QED
    BY <1>1, <2>1, <2>2 DEF NoRequest, Reqs
<1>5. CASE SignIn(r)
  <2>1. PICK u \in StoredUsers :
          req' = [req EXCEPT ![r] =
            [NoRequest EXCEPT !.pc = "begin", !.op = "signIn", !.user = u,
                              !.name = accounts[u].name]]
    BY <1>5 DEF SignIn
  <2>2. u \in Users /\ accounts[u].name \in Names
    BY DEF StoredUsers, Stored, Inv, TypeOK, Profiles
  <2>. QED
    BY <1>1, <2>1, <2>2 DEF NoRequest, Reqs
<1>6. CASE PatchMe(r)
  <2>1. PICK s \in Sids, name \in Names :
          /\ Live(s)
          /\ req' = [req EXCEPT ![r] =
               [NoRequest EXCEPT
                  !.pc = "update", !.op = "patchMe", !.sid = s,
                  !.user = sessions[s].user, !.name = name,
                  !.old = sessions[s].name]]
    BY <1>6 DEF PatchMe
  <2>2. sessions[s] \in States
    BY <2>1 DEF Live, Inv, TypeOK
  <2>. QED
    BY <1>1, <2>1, <2>2 DEF NoRequest, Reqs, States
<1>7. CASE Insert(r)
  <2>1. PICK u \in Users :
          req' = [req EXCEPT ![r] =
            [NoRequest EXCEPT !.pc = "begin", !.op = "signUp", !.user = u,
                              !.name = req[r].form.name]]
    BY <1>7 DEF Insert
  <2>2. req[r].form \in Forms
    BY <1>7 DEF Insert, At, Inv, Held
  <2>3. req[r].form.name \in Names
    BY <2>2, ConstantsAssumption DEF Profiles
  <2>. QED
    BY <1>1, <2>1, <2>3 DEF NoRequest, Reqs
<1>8. \/ Return(r)
      \/ \E pc \in {"insert", "save", "unindex", "index"} : Move(r, pc)
      \/ SignUp(r) \/ SignIn(r) \/ PatchMe(r) \/ Insert(r)
  BY DEF Arrive, Advance, CheckUserName, InsertFails, BeginSession, Update,
         UpdateFails, Save, SaveFails, Unindex, Index, CallFails
<1>. QED
  BY <1>2, <1>3, <1>4, <1>5, <1>6, <1>7, <1>8

LEMMA TypesStay == Inv /\ [Next]_vars => TypeOK'
<1> SUFFICES ASSUME Inv, [Next]_vars PROVE TypeOK'
  OBVIOUS
<1> USE DEF Inv
<1>1. ASSUME NEW r \in Requests, Arrive(r) \/ Advance(r),
             accounts' \in [Users -> Profiles \cup {Unborn}],
             sessions' \in [Sids -> States \cup {Unborn, Ended}],
             index' \in {Null} \cup SUBSET (Keys \X Users),
             owner' \in [Sids -> Users \cup {Null}],
             disturbed' \in SUBSET Users
      PROVE  TypeOK'
  BY <1>1, RequestTypes DEF TypeOK
<1>2. ASSUME NEW r \in Requests,
             SignUp(r) \/ SignIn(r) \/ CheckUserName(r) \/ SaveFails(r)
               \/ CallFails(r)
      PROVE  TypeOK'
  BY <1>1, <1>2 DEF Arrive, Advance, SignUp, SignIn, CheckUserName, SaveFails,
                    CallFails, TypeOK
<1>3. ASSUME NEW r \in Requests, Insert(r) \/ InsertFails(r) PROVE TypeOK'
  <2>1. req[r].form \in Profiles
    BY <1>3, ConstantsAssumption DEF Insert, InsertFails, At, Held
  <2>. QED
    BY <1>1, <1>3, <2>1 DEF Advance, Insert, InsertFails, TypeOK
<1>4. ASSUME NEW r \in Requests, BeginSession(r) PROVE TypeOK'
  <2>1. [user |-> req[r].user, name |-> req[r].name] \in States
    BY <1>4 DEF BeginSession, Held, States
  <2>2. req[r].user \in Users
    BY <1>4 DEF BeginSession, Held
  <2>. QED
    BY <1>1, <1>4, <2>1, <2>2 DEF Advance, BeginSession, TypeOK
<1>5. ASSUME NEW r \in Requests, PatchMe(r) PROVE TypeOK'
  <2>1. disturbed' \in SUBSET Users
    <3>1. PICK s \in Sids, name \in Names :
            /\ Live(s)
            /\ disturbed' = IF \E p \in Requests : Patching(p, sessions[s].user)
                            THEN disturbed \cup {sessions[s].user}
                            ELSE disturbed
      BY <1>5 DEF PatchMe
    <3>2. sessions[s].user \in Users
      BY <3>1 DEF Live, TypeOK, States
    <3>. QED
      BY <3>1, <3>2 DEF TypeOK
  <2>. QED
    BY <1>1, <1>5, <2>1 DEF Arrive, PatchMe, TypeOK
<1>6. ASSUME NEW r \in Requests, Update(r) \/ UpdateFails(r) PROVE TypeOK'
  <2>1. req[r].user \in Users /\ Stored(req[r].user) /\ req[r].name \in Names
    BY <1>6 DEF Update, UpdateFails, At, Held
  <2>2. CASE Update(r)
    <3>1. accounts[req[r].user] \in Profiles
      BY <2>1 DEF Stored, TypeOK
    <3>2. [accounts[req[r].user] EXCEPT !.name = req[r].name] \in Profiles
      BY <2>1, <3>1 DEF Profiles
    <3>3. accounts' \in [Users -> Profiles \cup {Unborn}]
      BY <2>1, <2>2, <3>2 DEF Update, TypeOK
    <3>. QED
      BY <1>1, <2>2, <3>3 DEF Advance, Update, TypeOK
  <2>3. CASE UpdateFails(r)
    BY <1>1, <2>1, <2>3 DEF Advance, UpdateFails, TypeOK
  <2>. QED
    BY <1>6, <2>2, <2>3
<1>7. ASSUME NEW r \in Requests, Save(r) PROVE TypeOK'
  <2>1. [user |-> req[r].user, name |-> req[r].name] \in States
    BY <1>7 DEF Save, At, Held, States
  <2>. QED
    BY <1>1, <1>7, <2>1 DEF Advance, Save, TypeOK
<1>8. ASSUME NEW r \in Requests, Unindex(r) \/ Index(r) PROVE TypeOK'
  <2>1. /\ req[r].user \in Users /\ req[r].name \in Keys
        /\ Index(r) => index # Null
    BY <1>8 DEF Unindex, Index, At, Held, Keys
  <2>2. index' \in {Null} \cup SUBSET (Keys \X Users)
    <3>1. CASE index = Null
      BY <1>8, <2>1, <3>1 DEF Unindex, TypeOK
    <3>2. CASE index # Null /\ Unindex(r)
      BY <3>2 DEF Unindex, Trie!Delete, TypeOK
    <3>3. CASE index # Null /\ Index(r)
      BY <2>1, <3>3 DEF Index, Trie!Add, TypeOK
    <3>. QED
      BY <1>8, <3>1, <3>2, <3>3
  <2>. QED
    BY <1>1, <1>8, <2>2 DEF Advance, Unindex, Index, TypeOK
<1>9. ASSUME NEW s \in Sids, EndSession(s) \/ Expire(s) PROVE TypeOK'
  BY <1>9 DEF EndSession, Expire, TypeOK
<1>10. CASE Restart
  <2>1. Loaded \in SUBSET (Keys \X Users)
    BY DEF Loaded, StoredUsers, Stored, TypeOK, Profiles, Keys
  <2>2. index' \in {Null} \cup SUBSET (Keys \X Users)
    BY <1>10, <2>1 DEF Restart
  <2>. QED
    BY <1>10, <2>2, NoRequestType DEF Restart, TypeOK
<1>11. CASE UNCHANGED vars
  BY <1>11 DEF vars, TypeOK
<1>. QED
  BY <1>2, <1>3, <1>4, <1>5, <1>6, <1>7, <1>8, <1>9, <1>10, <1>11
     DEF Next, Arrive, Advance

LEMMA HeldStays == Inv /\ [Next]_vars => Held'
<1> SUFFICES ASSUME Inv, [Next]_vars PROVE Held'
  OBVIOUS
<1> USE DEF Inv
<1> DEFINE Holding(q) ==
      /\ q.pc \in {"userName", "insert"} => q.op = "signUp" /\ q.form \in Forms
      /\ q.pc = "begin" =>
           /\ q.op # "patchMe"
           /\ q.user \in Users /\ Stored(q.user) /\ q.name \in Names
      /\ q.op = "patchMe" =>
           /\ q.user \in Users /\ Stored(q.user)
           /\ q.name \in Names /\ q.old \in Names
           /\ q.sid \in Sids /\ sessions[q.sid] # Unborn
           /\ owner[q.sid] = q.user
<1>1. ASSUME NEW t \in Requests PROVE Holding(req[t])
  BY DEF Held
<1>2. SUFFICES ASSUME Next, NEW t \in Requests PROVE Holding(req[t])'
  BY <1>1 DEF Held, vars, Stored
\* What was in hand stays valid.
<1>3. ASSUME NEW q, Holding(q) PROVE Holding(q)'
  BY <1>2, <1>3, AccountsStay, SessionsStay
<1>4. CASE req'[t] = req[t]
  BY <1>1, <1>3, <1>4
<1>5. CASE req'[t] = NoRequest
  BY <1>5 DEF NoRequest
<1>6. ASSUME NEW pc \in {"insert", "save", "unindex", "index"}, Move(t, pc),
             pc = "insert" => req[t].pc = "userName",
             pc # "insert" => req[t].op = "patchMe"
      PROVE  Holding(req[t])'
  <2>1. req[t] \in Reqs /\ req'[t] = [req[t] EXCEPT !.pc = pc]
    BY <1>6 DEF Move, TypeOK
  <2>2. Holding(req'[t])
    BY <1>1, <1>6, <2>1 DEF Reqs
  <2>. QED
    BY <1>3, <2>2
<1>7. CASE SignUp(t)
  BY <1>7 DEF SignUp, NoRequest, TypeOK
<1>8. CASE SignIn(t)
  <2>1. PICK u \in StoredUsers :
          req' = [req EXCEPT ![t] =
            [NoRequest EXCEPT !.pc = "begin", !.op = "signIn", !.user = u,
                              !.name = accounts[u].name]]
    BY <1>8 DEF SignIn
  <2>2. u \in Users /\ Stored(u) /\ accounts[u].name \in Names
    BY DEF StoredUsers, Stored, TypeOK, Profiles
  <2>3. Holding(req'[t])
    BY <2>1, <2>2 DEF NoRequest, TypeOK
  <2>. QED
    BY <1>3, <2>3
<1>9. CASE PatchMe(t)
  <2>1. PICK s \in Sids, name \in Names :
          /\ Live(s)
          /\ req' = [req EXCEPT ![t] =
               [NoRequest EXCEPT
                  !.pc = "update", !.op = "patchMe", !.sid = s,
                  !.user = sessions[s].user, !.name = name,
                  !.old = sessions[s].name]]
    BY <1>9 DEF PatchMe
  <2>2. /\ sessions[s] \in States /\ sessions[s] # Unborn
        /\ owner[s] = sessions[s].user /\ Stored(sessions[s].user)
    BY <2>1 DEF Live, TypeOK, SessionsKeepTheirOwner
  <2>3. Holding(req'[t])
    BY <2>1, <2>2 DEF NoRequest, TypeOK, States
  <2>. QED
    BY <1>3, <2>3
<1>10. CASE Insert(t)
  <2>1. req[t].form \in Forms
    BY <1>10 DEF Insert, At, Held
  <2>2. req[t].form \in Profiles /\ req[t].form # Unborn
    BY <2>1, ConstantsAssumption
  <2>3. PICK u \in Users :
          /\ accounts' = [accounts EXCEPT ![u] = req[t].form]
          /\ req' = [req EXCEPT ![t] =
               [NoRequest EXCEPT !.pc = "begin", !.op = "signUp", !.user = u,
                                 !.name = req[t].form.name]]
    BY <1>10 DEF Insert
  <2>4. Stored(u)' /\ req[t].form.name \in Names
    BY <2>2, <2>3 DEF Stored, Profiles, TypeOK
  <2>. QED
    BY <2>3, <2>4 DEF NoRequest, TypeOK
<1>11. CASE Arrive(t) \/ Advance(t)
  <2>1. \/ Return(t)
        \/ \E pc \in {"insert", "save", "unindex", "index"} :
             /\ Move(t, pc)
             /\ pc = "insert" => req[t].pc = "userName"
             /\ pc # "insert" => req[t].op = "patchMe"
        \/ SignUp(t) \/ SignIn(t) \/ PatchMe(t) \/ Insert(t)
    BY <1>11 DEF Arrive, Advance, CheckUserName, InsertFails, BeginSession,
                 Update, UpdateFails, Save, SaveFails, Unindex, Index,
                 CallFails, At
  <2>. QED
    BY <1>5, <1>6, <1>7, <1>8, <1>9, <1>10, <2>1 DEF Return, TypeOK
<1>12. \/ Arrive(t) \/ Advance(t)
       \/ req'[t] = req[t]
       \/ req'[t] = NoRequest
  BY <1>2, OthersWait DEF Next, EndSession, Expire, Restart
<1>. QED
  BY <1>4, <1>5, <1>11, <1>12

LEMMA OwnersStay == Inv /\ [Next]_vars => SessionsKeepTheirOwner'
<1> SUFFICES ASSUME Inv, [Next]_vars, NEW s \in Sids, Live(s)'
             PROVE  /\ sessions'[s].user = owner'[s]
                    /\ accounts'[sessions'[s].user] # Unborn
  BY DEF SessionsKeepTheirOwner, Stored
<1> USE DEF Inv
<1>1. CASE UNCHANGED vars
  BY <1>1 DEF vars, SessionsKeepTheirOwner, Live, Stored
<1>2. CASE Next /\ UNCHANGED <<sessions[s], owner[s]>>
  <2>1. /\ Live(s) /\ sessions[s].user = owner[s]
        /\ Stored(sessions[s].user)
    BY <1>2 DEF Live, SessionsKeepTheirOwner
  <2>2. sessions[s].user \in Users
    BY <2>1 DEF Live, TypeOK, States
  <2>. QED
    BY <1>2, <2>1, <2>2, AccountsStay DEF Stored
<1>3. ASSUME NEW r \in Requests, BeginSession(r), ~UNCHANGED sessions[s]
      PROVE  /\ sessions'[s].user = owner'[s]
             /\ accounts'[sessions'[s].user] # Unborn
  <2>1. /\ sessions'[s] = [user |-> req[r].user, name |-> req[r].name]
        /\ owner'[s] = req[r].user /\ UNCHANGED accounts
    BY <1>3 DEF BeginSession, TypeOK
  <2>2. Stored(req[r].user)
    BY <1>3 DEF BeginSession, Held
  <2>. QED
    BY <2>1, <2>2 DEF Stored
<1>4. ASSUME NEW r \in Requests, Save(r), ~UNCHANGED sessions[s]
      PROVE  /\ sessions'[s].user = owner'[s]
             /\ accounts'[sessions'[s].user] # Unborn
  <2>1. /\ sessions'[s] = [user |-> req[r].user, name |-> req[r].name]
        /\ s = req[r].sid /\ UNCHANGED <<owner, accounts>>
    BY <1>4 DEF Save, TypeOK
  <2>2. Stored(req[r].user) /\ owner[s] = req[r].user
    BY <1>4, <2>1 DEF Save, At, Held
  <2>. QED
    BY <2>1, <2>2 DEF Stored
<1>5. \/ UNCHANGED vars
      \/ Next /\ UNCHANGED <<sessions[s], owner[s]>>
      \/ \E r \in Requests :
           (BeginSession(r) \/ Save(r)) /\ ~UNCHANGED sessions[s]
  <2>1. ASSUME NEW r \in Requests, BeginSession(r), UNCHANGED sessions[s]
        PROVE  UNCHANGED owner[s]
    <3>1. [user |-> req[r].user, name |-> req[r].name] \in States
      BY <2>1 DEF BeginSession, Held, States
    <3>. QED
      BY <2>1, <3>1, ConstantsAssumption DEF BeginSession, TypeOK
  <2>2. ASSUME NEW r \in Requests, Save(r) PROVE UNCHANGED owner
    BY <2>2 DEF Save
  <2>3. ASSUME NEW e \in Sids, EndSession(e) \/ Expire(e)
        PROVE  UNCHANGED <<sessions[s], owner[s]>>
    BY <2>3 DEF EndSession, Expire, Live, TypeOK
  <2>4. \/ UNCHANGED vars
        \/ Next /\ UNCHANGED <<sessions, owner>>
        \/ Next /\ \E r \in Requests : BeginSession(r) \/ Save(r)
        \/ Next /\ \E e \in Sids : EndSession(e) \/ Expire(e)
    BY DEF Next, Arrive, Advance, SignUp, SignIn, PatchMe, CheckUserName,
           Insert, InsertFails, Update, UpdateFails, SaveFails, Unindex,
           Index, CallFails, Restart
  <2>. QED
    BY <2>1, <2>2, <2>3, <2>4
<1>. QED
  BY <1>1, <1>2, <1>3, <1>4, <1>5

LEMMA InitInv == Init => Inv
<1>1. Init => TypeOK
  BY NoRequestType DEF Init, TypeOK
<1>2. Init => Held
  BY DEF Init, Held, NoRequest
<1>3. Init => SessionsKeepTheirOwner
  BY DEF Init, SessionsKeepTheirOwner, Live
<1>. QED
  BY <1>1, <1>2, <1>3 DEF Inv

\* The inductive invariant holds in every behaviour.
THEOREM Invariant == Spec => []Inv
<1>1. Inv /\ [Next]_vars => Inv'
  BY TypesStay, HeldStays, OwnersStay DEF Inv
<1>. QED
  BY <1>1, InitInv, PTL DEF Spec

\* The state of accounts, sessions and requests has its type.
THEOREM TypeCorrect == Spec => []TypeOK
  BY Invariant, PTL DEF Inv

\* A session stands for one stored account from its beginning on.
THEOREM SessionsAreTheirOwners == Spec => []SessionsKeepTheirOwner
  BY Invariant, PTL DEF Inv

-----------------------------------------------------------------------------
(* The refinement of SessionTable.                                         *)

\* An identifier has an owner from the moment it is drawn.
Drawn == \A s \in Sids : sessions[s] = Unborn <=> owner[s] = Null

LiveSids == {s \in Sids : Live(s)}

\* The steps that change a session, or whose it is.
LEMMA SessionSteps ==
  ASSUME [Next]_vars
  PROVE  \/ UNCHANGED <<sessions, owner>>
         \/ \E r \in Requests : BeginSession(r) \/ Save(r)
         \/ \E s \in Sids : EndSession(s) \/ Expire(s)
  BY DEF vars, Next, Arrive, Advance, SignUp, SignIn, PatchMe, CheckUserName,
         Insert, InsertFails, Update, UpdateFails, SaveFails, Unindex, Index,
         CallFails, Restart

\* BeginSession() draws an identifier for an account that is stored.
LEMMA BeginBegins ==
  ASSUME Inv, Drawn, NEW r \in Requests, BeginSession(r)
  PROVE  \E s \in Sids, u \in Users :
           /\ sessions[s] = Unborn
           /\ sessions' = [sessions EXCEPT ![s] = [user |-> u,
                                                 name |-> req[r].name]]
           /\ sessions'[s] \in States /\ Live(s)'
           /\ owner' = [owner EXCEPT ![s] = u]
<1>1. req[r].user \in Users /\ req[r].name \in Names
  BY DEF BeginSession, Inv, Held
<1>2. PICK s \in Sids :
        /\ sessions[s] = Unborn
        /\ sessions' = [sessions EXCEPT ![s] =
                          [user |-> req[r].user, name |-> req[r].name]]
        /\ owner' = [owner EXCEPT ![s] = req[r].user]
  BY DEF BeginSession
<1>3. sessions'[s] = [user |-> req[r].user, name |-> req[r].name]
  BY <1>2 DEF Inv, TypeOK
<1>4. sessions'[s] \in States
  BY <1>1, <1>3 DEF States
<1>5. sessions'[s] # Unborn /\ sessions'[s] # Ended
  BY <1>4, ConstantsAssumption
<1>. QED
  BY <1>1, <1>2, <1>4, <1>5 DEF Live

\* Save() writes the state of an identifier that was drawn.
LEMMA SaveSaves ==
  ASSUME Inv, NEW r \in Requests, Save(r)
  PROVE  \E s \in Sids :
           /\ sessions[s] # Unborn /\ Live(s)' /\ UNCHANGED owner
           /\ \A x \in Sids \ {s} : sessions'[x] = sessions[x]
<1>1. /\ req[r].user \in Users /\ req[r].name \in Names
      /\ req[r].sid \in Sids /\ sessions[req[r].sid] # Unborn
  BY DEF Save, At, Inv, Held
<1>2. sessions' = [sessions EXCEPT ![req[r].sid] =
                    [user |-> req[r].user, name |-> req[r].name]]
  BY DEF Save
<1>3. sessions'[req[r].sid] = [user |-> req[r].user, name |-> req[r].name]
  BY <1>1, <1>2 DEF Inv, TypeOK
<1>4. sessions'[req[r].sid] \in States
  BY <1>1, <1>3 DEF States
<1>5. sessions'[req[r].sid] # Unborn /\ sessions'[req[r].sid] # Ended
  BY <1>4, ConstantsAssumption
<1>6. \A x \in Sids \ {req[r].sid} : sessions'[x] = sessions[x]
  BY <1>2 DEF Inv, TypeOK
<1>. QED
  BY <1>1, <1>5, <1>6 DEF Live, Save

\* Sign-out and expiry end the session of an identifier that was drawn.
LEMMA EndEnds ==
  ASSUME Inv, NEW s \in Sids, EndSession(s) \/ Expire(s)
  PROVE  /\ sessions[s] # Unborn /\ sessions'[s] = Ended /\ UNCHANGED owner
         /\ \A x \in Sids \ {s} : sessions'[x] = sessions[x]
  BY DEF EndSession, Expire, Live, Inv, TypeOK

LEMMA DrawnStays == Inv /\ Drawn /\ [Next]_vars => Drawn'
<1>. SUFFICES ASSUME Inv, Drawn, [Next]_vars PROVE Drawn'
  OBVIOUS
<1>1. CASE UNCHANGED <<sessions, owner>>
  BY <1>1 DEF Drawn
<1>2. ASSUME NEW r \in Requests, BeginSession(r) PROVE Drawn'
  <2>1. PICK s \in Sids, u \in Users :
          /\ sessions[s] = Unborn
          /\ sessions' = [sessions EXCEPT ![s] = [user |-> u,
                                                 name |-> req[r].name]]
          /\ sessions'[s] \in States /\ Live(s)'
          /\ owner' = [owner EXCEPT ![s] = u]
    BY <1>2, BeginBegins
  <2>2. owner'[s] = u /\ sessions'[s] # Unborn
    BY <2>1 DEF Live, Inv, TypeOK
  <2>3. \A x \in Sids \ {s} :
          sessions'[x] = sessions[x] /\ owner'[x] = owner[x]
    BY <2>1 DEF Inv, TypeOK
  <2>. QED
    BY <2>2, <2>3, ConstantsAssumption DEF Drawn
<1>3. ASSUME NEW r \in Requests, Save(r) PROVE Drawn'
  BY <1>3, SaveSaves DEF Drawn, Live
<1>4. ASSUME NEW s \in Sids, EndSession(s) \/ Expire(s) PROVE Drawn'
  BY <1>4, EndEnds, ConstantsAssumption DEF Drawn
<1>. QED
  BY <1>1, <1>2, <1>3, <1>4, SessionSteps

LEMMA InitImplements == Init => Drawn /\ Table!Init
  BY ConstantsAssumption DEF Init, Drawn, Table!Init, Live

\* Every step of the handlers is a step of the table, or none.
LEMMA StepImplements ==
  Inv /\ Drawn /\ [Next]_vars => [Table!Next]_<<owner, LiveSids>>
<1>. SUFFICES ASSUME Inv, Drawn, [Next]_vars
              PROVE  Table!Next \/ UNCHANGED <<owner, LiveSids>>
  OBVIOUS
<1>1. CASE UNCHANGED <<sessions, owner>>
  BY <1>1 DEF LiveSids, Live
<1>2. ASSUME NEW r \in Requests, BeginSession(r) PROVE Table!Next
  <2>1. PICK s \in Sids, u \in Users :
          /\ sessions[s] = Unborn
          /\ sessions' = [sessions EXCEPT ![s] = [user |-> u,
                                                 name |-> req[r].name]]
          /\ sessions'[s] \in States /\ Live(s)'
          /\ owner' = [owner EXCEPT ![s] = u]
    BY <1>2, BeginBegins
  <2>2. \A x \in Sids \ {s} : sessions'[x] = sessions[x]
    BY <2>1 DEF Inv, TypeOK
  <2>3. LiveSids' = LiveSids \cup {s}
    BY <2>1, <2>2 DEF LiveSids, Live
  <2>4. owner[s] = Null
    BY <2>1 DEF Drawn
  <2>5. Table!Begin(s, u)
    BY <2>1, <2>3, <2>4 DEF Table!Begin, LiveSids
  <2>. QED
    BY <2>5 DEF Table!Next
<1>3. ASSUME NEW r \in Requests, Save(r) PROVE Table!Next
  <2>1. PICK s \in Sids :
          /\ sessions[s] # Unborn /\ Live(s)' /\ UNCHANGED owner
          /\ \A x \in Sids \ {s} : sessions'[x] = sessions[x]
    BY <1>3, SaveSaves
  <2>2. LiveSids' = LiveSids \cup {s}
    BY <2>1 DEF LiveSids, Live
  <2>3. Table!WriteBack(s)
    BY <2>1, <2>2 DEF Table!WriteBack, LiveSids, Drawn
  <2>. QED
    BY <2>3 DEF Table!Next
<1>4. ASSUME NEW s \in Sids, EndSession(s) \/ Expire(s) PROVE Table!Next
  <2>1. /\ sessions[s] # Unborn /\ sessions'[s] = Ended /\ UNCHANGED owner
        /\ \A x \in Sids \ {s} : sessions'[x] = sessions[x]
    BY <1>4, EndEnds
  <2>2. LiveSids' = LiveSids \ {s}
    BY <2>1 DEF LiveSids, Live
  <2>3. Table!End(s)
    BY <2>1, <2>2 DEF Table!End, LiveSids, Drawn
  <2>. QED
    BY <2>3 DEF Table!Next
<1>. QED
  BY <1>1, <1>2, <1>3, <1>4, SessionSteps

\* The four handlers, whose requests overlap, fail and are cut off by restarts,
\* give the sessions SessionTable promises.
THEOREM AccountsImplementSessions == Spec => ImplementsSessions
<1>1. Init => Drawn /\ Table!Init
  BY InitImplements
<1>2. Inv /\ Drawn /\ [Next]_vars
        => Drawn' /\ [Table!Next]_<<owner, LiveSids>>
  BY DrawnStays, StepImplements
<1>3. Inv /\ Drawn /\ [Next]_vars
        => [Table!Next]_<<owner, {s \in Sids : Live(s)}>>
  BY <1>2 DEF LiveSids
<1>. QED
  BY <1>1, <1>2, <1>3, Invariant, PTL DEF Spec, ImplementsSessions, Table!Spec

-----------------------------------------------------------------------------
(* Ended sessions.                                                         *)

\* A session that has ended comes back only by the hand of a profile change
\* that had read it before it ended and was still under way.
THEOREM EndedStayEnded == Spec => EndedUnlessUnderWay
<1> DEFINE UnderWay(s) ==
      \E r \in Requests :
        req[r].sid = s /\ req[r].op = "patchMe" /\ req[r].pc = "save"
<1>1. ASSUME Inv, [Next]_vars, NEW s \in Sids, sessions[s] = Ended,
             sessions'[s] # Ended
      PROVE  UnderWay(s)
  <2>1. ASSUME NEW r \in Requests, BeginSession(r) PROVE FALSE
    BY <1>1, <2>1, ConstantsAssumption DEF BeginSession, Inv, TypeOK
  <2>2. ASSUME NEW r \in Requests, Save(r) PROVE UnderWay(s)
    BY <1>1, <2>2 DEF Save, At, Inv, TypeOK
  <2>3. ASSUME NEW e \in Sids, EndSession(e) \/ Expire(e) PROVE FALSE
    BY <1>1, <2>3 DEF EndSession, Expire, Inv, TypeOK
  <2>4. \/ \E r \in Requests : BeginSession(r) \/ Save(r)
        \/ \E e \in Sids : EndSession(e) \/ Expire(e)
    BY <1>1 DEF vars, Next, Arrive, Advance, SignUp, SignIn, PatchMe,
           CheckUserName, Insert, InsertFails, Update, UpdateFails,
           SaveFails, Unindex, Index, CallFails, Restart
  <2>. QED
    BY <2>1, <2>2, <2>3, <2>4
<1>2. ASSUME Inv, [Next]_vars
      PROVE  [\A s \in Sids : sessions[s] = Ended /\ sessions'[s] # Ended
                => UnderWay(s)]_vars
  BY <1>1, <1>2
<1>. QED
  BY <1>2, Invariant, PTL DEF Spec, EndedUnlessUnderWay

-----------------------------------------------------------------------------
(* Sign-ups.                                                               *)

\* The accounts a sign-up knows have another address, and another user name
\* once that is checked.
KnownAreOthers ==
  \A r \in Requests : req[r].pc \in {"userName", "insert"} =>
    \A v \in req[r].known :
      /\ v \in Users /\ Stored(v)
      /\ accounts[v].email # req[r].form.email
      /\ req[r].pc = "insert" =>
           accounts[v].userName # req[r].form.userName

LEMMA KnownStay == Inv /\ KnownAreOthers /\ [Next]_vars => KnownAreOthers'
<1> SUFFICES ASSUME Inv, KnownAreOthers, [Next]_vars, NEW t \in Requests,
                    req'[t].pc \in {"userName", "insert"},
                    NEW v \in req'[t].known
             PROVE  /\ v \in Users /\ Stored(v)'
                    /\ accounts'[v].email # req'[t].form.email
                    /\ req'[t].pc = "insert" =>
                         accounts'[v].userName # req'[t].form.userName
  BY DEF KnownAreOthers
<1> DEFINE Other(q) ==
      /\ v \in Users /\ Stored(v)
      /\ accounts[v].email # q.form.email
      /\ q.pc = "insert" => accounts[v].userName # q.form.userName
<1>1. ASSUME Other(req'[t])
      PROVE  /\ v \in Users /\ Stored(v)'
             /\ accounts'[v].email # req'[t].form.email
             /\ req'[t].pc = "insert" =>
                  accounts'[v].userName # req'[t].form.userName
  BY <1>1, AccountsStay DEF vars, Stored
<1>2. CASE req'[t] = req[t]
  BY <1>1, <1>2 DEF KnownAreOthers
<1>3. CASE req'[t] = NoRequest
  BY <1>3 DEF NoRequest
<1>4. CASE SignUp(t)
  <2>1. PICK form \in Forms :
          /\ \A u \in StoredUsers : accounts[u].email # form.email
          /\ req' = [req EXCEPT ![t] =
               [NoRequest EXCEPT !.pc = "userName", !.op = "signUp",
                                 !.form = form, !.known = StoredUsers]]
    BY <1>4 DEF SignUp
  <2>2. /\ req'[t].known = StoredUsers /\ req'[t].form = form
        /\ req'[t].pc = "userName"
    BY <2>1 DEF NoRequest, Inv, TypeOK
  <2>. QED
    BY <1>1, <2>1, <2>2 DEF StoredUsers
<1>5. CASE CheckUserName(t) /\ Move(t, "insert")
  <2>1. /\ req[t] \in Reqs /\ req'[t] = [req[t] EXCEPT !.pc = "insert"]
        /\ req[t].pc = "userName"
    BY <1>5 DEF Move, CheckUserName, At, Inv, TypeOK
  <2>2. req'[t].known = req[t].known /\ req'[t].form = req[t].form
    BY <2>1 DEF Reqs
  <2>3. ~Return(t)
    BY <1>5, <2>1 DEF Return, NoRequest, Inv, TypeOK
  <2>4. accounts[v].userName # req[t].form.userName
    BY <1>5, <2>1, <2>2, <2>3 DEF CheckUserName, KnownAreOthers, StoredUsers
  <2>. QED
    BY <1>1, <2>1, <2>2, <2>4 DEF KnownAreOthers
<1>6. CASE Arrive(t) \/ Advance(t)
  <2>1. req[t] \in Reqs /\ req \in [Requests -> Reqs]
    BY DEF Inv, TypeOK
  <2>2. ASSUME NEW pc \in {"save", "unindex", "index"} PROVE ~Move(t, pc)
    BY <2>1 DEF Move, Reqs
  <2>3. ~Return(t)
    BY <2>1 DEF Return, NoRequest
  <2>4. ~SignIn(t) /\ ~PatchMe(t) /\ ~Insert(t)
    BY <2>1 DEF SignIn, PatchMe, Insert, NoRequest
  <2>5. SignUp(t) \/ (CheckUserName(t) /\ Move(t, "insert"))
    BY <1>6, <2>2, <2>3, <2>4
       DEF Arrive, Advance, CheckUserName, InsertFails, BeginSession, Update,
           UpdateFails, Save, SaveFails, Unindex, Index, CallFails
  <2>. QED
    BY <1>4, <1>5, <2>5
<1>7. \/ Arrive(t) \/ Advance(t)
      \/ req'[t] = req[t]
      \/ req'[t] = NoRequest
  BY OthersWait DEF Next, EndSession, Expire, Restart, vars, Inv
<1>. QED
  BY <1>2, <1>3, <1>6, <1>7

\* An account that was there when a sign-up began has another address and
\* another user name than the account the sign-up creates.
THEOREM TakenAreRefused == Spec => SignUpsRefuseTaken
<1> DEFINE Refused ==
      \A r \in Requests : At(r, "signUp", "insert") /\ req'[r] # req[r] =>
        \A u \in Users : ~Stored(u) /\ Stored(u)' =>
          \A v \in req[r].known :
            /\ accounts[v].email # accounts'[u].email
            /\ accounts[v].userName # accounts'[u].userName
<1>1. ASSUME Inv, KnownAreOthers, [Next]_vars PROVE [Refused]_vars
  <2>1. SUFFICES ASSUME Next, NEW r \in Requests, At(r, "signUp", "insert"),
                        req'[r] # req[r], NEW u \in Users, ~Stored(u),
                        Stored(u)', NEW v \in req[r].known
                 PROVE  /\ accounts[v].email # accounts'[u].email
                        /\ accounts[v].userName # accounts'[u].userName
    BY <1>1
  <2>2. ~UNCHANGED accounts
    BY <2>1 DEF Stored
  <2>3. Arrive(r) \/ Advance(r)
    BY <1>1, <2>1, <2>2, OthersWait
       DEF Next, EndSession, Expire, Restart, Inv
  <2>4. Insert(r) \/ InsertFails(r)
    BY <2>1, <2>2, <2>3 DEF Arrive, Advance, SignUp, SignIn, PatchMe,
       CheckUserName, BeginSession, Update, UpdateFails, Save, SaveFails,
       Unindex, Index, CallFails, At
  <2>5. accounts'[u] = req[r].form
    BY <2>1, <2>4, <1>1 DEF Insert, InsertFails, Stored, Inv, TypeOK
  <2>. QED
    BY <1>1, <2>1, <2>5 DEF KnownAreOthers, At
<1>2. Init => KnownAreOthers
  BY DEF Init, KnownAreOthers, NoRequest
<1>3. Spec => []KnownAreOthers
  BY <1>2, Invariant, KnownStay, PTL DEF Spec
<1>. QED
  BY <1>1, <1>3, Invariant, PTL DEF Spec, SignUpsRefuseTaken

-----------------------------------------------------------------------------
(* The index.                                                              *)

\* Only stored accounts are indexed.  Of an undisturbed account there is at
\* most one change under way; once that has updated the account it carries the
\* account's name; and without one the index has that name, if it has any, and
\* the name has no doubled letter.
Tracked(u) ==
  /\ \A w \in Keys : Indexed(w, u) => Stored(u)
  /\ \A r, p \in Requests :
       Patching(r, u) /\ Patching(p, u) => r = p \/ u \in disturbed
  /\ \A r \in Requests :
       Patching(r, u) /\ req[r].pc # "update" =>
         u \in disturbed \/ accounts[u].name = req[r].name
  /\ (/\ Stored(u) /\ u \notin disturbed
      /\ \E w \in Keys : Indexed(w, u)
      /\ \A r \in Requests : ~Patching(r, u))
     => accounts[u].name \in Doubled \/ Indexed(accounts[u].name, u)

IdleIsIdle == \A r \in Requests : ~Active(r) => req[r].op = "none"

IndexInv == IdleIsIdle /\ \A u \in Users : Tracked(u)

LEMMA IndexInit == Init => IndexInv
  BY DEF Init, IndexInv, IdleIsIdle, Tracked, Patching, NoRequest, Indexed

LEMMA IdleStays == Inv /\ IdleIsIdle /\ [Next]_vars => IdleIsIdle'
<1> SUFFICES ASSUME Inv, IdleIsIdle, [Next]_vars, NEW t \in Requests,
                    req'[t].pc = "idle"
             PROVE  req'[t].op = "none"
  BY DEF IdleIsIdle, Active
<1>1. req[t] \in Reqs /\ req \in [Requests -> Reqs]
  BY DEF Inv, TypeOK
<1>2. CASE req'[t] = req[t]
  BY <1>2 DEF IdleIsIdle, Active
<1>3. CASE req'[t] = NoRequest
  BY <1>3 DEF NoRequest
<1>4. CASE Arrive(t) \/ Advance(t)
  <2>1. ASSUME NEW pc \in {"insert", "save", "unindex", "index"}
        PROVE  ~Move(t, pc)
    BY <1>1 DEF Move, Reqs
  <2>2. ~SignUp(t) /\ ~SignIn(t) /\ ~PatchMe(t) /\ ~Insert(t)
    BY <1>1 DEF SignUp, SignIn, PatchMe, Insert, NoRequest
  <2>3. Return(t)
    BY <1>4, <2>1, <2>2
       DEF Arrive, Advance, CheckUserName, InsertFails, BeginSession, Update,
           UpdateFails, Save, SaveFails, Unindex, Index, CallFails
  <2>. QED
    BY <1>1, <1>3, <2>3 DEF Return
<1>5. \/ Arrive(t) \/ Advance(t)
      \/ req'[t] = req[t]
      \/ req'[t] = NoRequest
  BY OthersWait DEF Next, EndSession, Expire, Restart, vars, Inv
<1>. QED
  BY <1>2, <1>3, <1>4, <1>5

\* A step that leaves an account, its entries under names without a doubled
\* letter and its changes alone.
LEMMA UntouchedStay ==
  ASSUME NEW u \in Users, Tracked(u),
         UNCHANGED accounts[u],
         u \in disturbed => u \in disturbed',
         \A w \in Keys : Indexed(w, u)' => Indexed(w, u),
         \A w \in Keys \ Doubled :
           index' # Null /\ Indexed(w, u) => Indexed(w, u)',
         Stored(u) => accounts[u].name \in Keys,
         \A r \in Requests :
           /\ Patching(r, u)' <=> Patching(r, u)
           /\ Patching(r, u)' /\ req'[r].pc # "update" =>
                req[r].pc # "update" /\ UNCHANGED req[r].name
  PROVE  Tracked(u)'
<1>1. \A w \in Keys : Indexed(w, u)' => Indexed(w, u) /\ index' # Null
  BY DEF Indexed
<1>. QED
  BY <1>1 DEF Tracked, Stored

LEMMA NameIsKey ==
  ASSUME Inv, NEW u \in Users, Stored(u) PROVE accounts[u].name \in Keys
  BY DEF Inv, TypeOK, Stored, Profiles, Keys

\* Requests that change no profile.
LEMMA NoPatchTracked ==
  ASSUME Inv, IndexInv, NEW u \in Users, NEW r \in Requests,
         SignUp(r) \/ SignIn(r) \/ CheckUserName(r) \/ Insert(r)
           \/ InsertFails(r) \/ BeginSession(r) \/ CallFails(r)
  PROVE  Tracked(u)'
<1>1. req[r].op # "patchMe" /\ req[r] \in Reqs /\ req \in [Requests -> Reqs]
  BY DEF SignUp, SignIn, CheckUserName, Insert, InsertFails, BeginSession,
         CallFails, At, Inv, Held, IndexInv, IdleIsIdle, TypeOK
<1>2. req'[r].op # "patchMe"
  <2>1. ASSUME Move(r, "insert") PROVE req'[r].op = req[r].op
    BY <1>1, <2>1 DEF Move
  <2>2. Return(r) => req'[r].op = "none"
    BY <1>1 DEF Return, NoRequest
  <2>3. SignUp(r) \/ SignIn(r) \/ Insert(r) => req'[r].op # "patchMe"
    BY <1>1 DEF SignUp, SignIn, Insert, NoRequest
  <2>4. \/ Move(r, "insert") \/ Return(r)
        \/ SignUp(r) \/ SignIn(r) \/ Insert(r)
    BY DEF CheckUserName, InsertFails, BeginSession, CallFails
  <2>. QED
    BY <1>1, <2>1, <2>2, <2>3, <2>4
<1>3. \A t \in Requests : t # r => req'[t] = req[t]
  BY OthersWait DEF Arrive, Advance, Inv
<1>4. \A t \in Requests : /\ Patching(t, u)' <=> Patching(t, u)
                          /\ Patching(t, u)' => req'[t] = req[t]
  BY <1>1, <1>2, <1>3 DEF Patching
<1>5. UNCHANGED <<index, disturbed>> /\ Tracked(u)
  BY DEF SignUp, SignIn, CheckUserName, Insert, InsertFails, BeginSession,
         CallFails, IndexInv
<1>6. CASE UNCHANGED accounts[u]
  BY <1>4, <1>5, <1>6, NameIsKey, UntouchedStay DEF Indexed
<1>7. CASE ~Stored(u)
  <2>1. \A w \in Keys : ~Indexed(w, u)'
    BY <1>5, <1>7 DEF Tracked, Indexed
  <2>2. \A t \in Requests : ~Patching(t, u)'
    BY <1>4, <1>7 DEF Patching, Inv, Held
  <2>. QED
    BY <2>1, <2>2 DEF Tracked
<1>8. UNCHANGED accounts[u] \/ ~Stored(u)
  BY DEF SignUp, SignIn, CheckUserName, Insert, InsertFails, BeginSession,
         CallFails, Inv, TypeOK, Stored
<1>. QED
  BY <1>6, <1>7, <1>8

\* The beginning of a change of profile.
LEMMA PatchTracked ==
  ASSUME Inv, IndexInv, NEW u \in Users, NEW r \in Requests, PatchMe(r)
  PROVE  Tracked(u)'
<1>1. PICK s \in Sids, name \in Names :
        /\ req' = [req EXCEPT ![r] =
             [NoRequest EXCEPT
                !.pc = "update", !.op = "patchMe", !.sid = s,
                !.user = sessions[s].user, !.name = name,
                !.old = sessions[s].name]]
        /\ disturbed' = IF \E p \in Requests : Patching(p, sessions[s].user)
                        THEN disturbed \cup {sessions[s].user} ELSE disturbed
  BY DEF PatchMe
<1>2. /\ req'[r].op = "patchMe" /\ req'[r].user = sessions[s].user
      /\ req'[r].pc = "update"
      /\ \A t \in Requests : t # r => req'[t] = req[t]
  BY <1>1 DEF NoRequest, Inv, TypeOK
<1>3. ~Patching(r, u)
  BY DEF PatchMe, Patching, IndexInv, IdleIsIdle
<1>4. UNCHANGED <<accounts, index>> /\ Tracked(u)
  BY DEF PatchMe, IndexInv
<1>5. CASE u # sessions[s].user
  <2>1. \A t \in Requests : /\ Patching(t, u)' <=> Patching(t, u)
                            /\ Patching(t, u)' => req'[t] = req[t]
    BY <1>2, <1>3, <1>5 DEF Patching
  <2>. QED
    BY <1>1, <1>4, <2>1, NameIsKey, UntouchedStay DEF Indexed
<1>6. CASE u = sessions[s].user
  <2>1. Patching(r, u)'
    BY <1>2, <1>6 DEF Patching
  <2>2. \A t \in Requests : Patching(t, u)' /\ t # r =>
          /\ u \in disturbed'
          /\ Patching(t, u) /\ req'[t] = req[t]
    BY <1>1, <1>2, <1>6 DEF Patching
  <2>3. \A w \in Keys : Indexed(w, u)' => Stored(u)'
    BY <1>4 DEF Tracked, Stored, Indexed
  <2>. QED
    BY <1>2, <2>1, <2>2, <2>3 DEF Tracked
<1>. QED
  BY <1>5, <1>6

\* The steps of a change of profile.
LEMMA ChangeTracked ==
  ASSUME Inv, IndexInv, NEW u \in Users, NEW r \in Requests,
         Update(r) \/ UpdateFails(r) \/ Save(r) \/ SaveFails(r)
           \/ Unindex(r) \/ Index(r)
  PROVE  Tracked(u)'
<1> DEFINE v == req[r].user
<1>1. /\ req[r].op = "patchMe" /\ req[r] \in Reqs /\ req \in [Requests -> Reqs]
      /\ v \in Users /\ Stored(v) /\ req[r].name \in Names
  BY DEF Update, UpdateFails, Save, SaveFails, Unindex, Index, At, Inv, Held,
         TypeOK
<1>2. \A t \in Requests : t # r => req'[t] = req[t]
  BY OthersWait DEF Advance, Inv
<1>3. \/ Return(r) /\ (Index(r) \/ index' = Null)
      \/ /\ ~Index(r)
         /\ req'[r].op = "patchMe" /\ req'[r].user = v
         /\ req'[r].pc # "update" /\ req'[r].name = req[r].name
  <2>1. ASSUME NEW pc \in {"save", "unindex", "index"}, Move(r, pc)
        PROVE  /\ req'[r].op = "patchMe" /\ req'[r].user = v
               /\ req'[r].pc # "update" /\ req'[r].name = req[r].name
    BY <1>1, <2>1 DEF Move, Reqs
  <2>2. Index(r) => Return(r)
    BY DEF Index
  <2>3. \/ Index(r)
        \/ Return(r) /\ index' = Null
        \/ \E pc \in {"save", "unindex", "index"} : Move(r, pc)
    BY DEF Update, UpdateFails, Save, SaveFails, Unindex
  <2>. QED
    BY <2>1, <2>2, <2>3
<1>4. Tracked(u)
  BY DEF IndexInv
<1>5. CASE u # v
  <2>1. ~Patching(r, u) /\ ~Patching(r, u)'
    BY <1>1, <1>3, <1>5 DEF Patching, Return, NoRequest
  <2>2. \A t \in Requests : /\ Patching(t, u)' <=> Patching(t, u)
                            /\ Patching(t, u)' => req'[t] = req[t]
    BY <1>2, <2>1 DEF Patching
  <2>3. UNCHANGED accounts[u] /\ (u \in disturbed => u \in disturbed')
    BY <1>5 DEF Update, UpdateFails, Save, SaveFails, Unindex, Index, Inv,
                TypeOK
  <2>4. /\ \A w \in Keys : Indexed(w, u)' => Indexed(w, u)
        /\ \A w \in Keys \ Doubled :
             index' # Null /\ Indexed(w, u) => Indexed(w, u)'
    <3>1. CASE UNCHANGED index
      BY <3>1 DEF Indexed
    <3>2. CASE index # Null /\ Trie!Delete(req[r].old, v)
      BY <1>5, <3>2 DEF Trie!Delete, Indexed
    <3>3. CASE index # Null /\ Trie!Add(req[r].name, v)
      BY <1>5, <3>3 DEF Trie!Add, Indexed
    <3>. QED
      BY <3>1, <3>2, <3>3
         DEF Update, UpdateFails, Save, SaveFails, Unindex, Index
  <2>. QED
    BY <1>4, <2>2, <2>3, <2>4, NameIsKey, UntouchedStay
<1>6. CASE u = v /\ ~Index(r) /\ req'[r].op = "patchMe"
  <2>0. /\ req'[r].op = "patchMe" /\ req'[r].user = v
        /\ req'[r].pc # "update" /\ req'[r].name = req[r].name
    BY <1>1, <1>3, <1>6 DEF Return, NoRequest
  <2>1. Patching(r, u) /\ Patching(r, u)'
    BY <1>1, <1>6, <2>0 DEF Patching
  <2>2. \A t \in Requests : t # r /\ Patching(t, u)' => u \in disturbed'
    <3>1. \A t \in Requests : t # r /\ Patching(t, u)' => u \in disturbed
      BY <1>2, <1>4, <2>1 DEF Patching, Tracked
    <3>. QED
      BY <1>6, <3>1
         DEF Update, UpdateFails, Save, SaveFails, Unindex, Index
  <2>3. Stored(u)'
    BY <1>1, <1>6, AccountsStay DEF Next, Advance
  <2>4. u \in disturbed' \/ accounts'[u].name = req'[r].name
    <3>1. CASE Update(r)
      <4>1. accounts[u] \in Profiles
        BY <1>1, <1>6 DEF Inv, TypeOK, Stored
      <4>2. accounts'[u] = [accounts[u] EXCEPT !.name = req[r].name]
        BY <1>6, <3>1 DEF Update, Inv, TypeOK
      <4>3. accounts'[u].name = req[r].name
        BY <4>1, <4>2 DEF Profiles
      <4>. QED
        BY <1>6, <2>0, <4>3
    <3>2. CASE UpdateFails(r)
      BY <1>6, <3>2 DEF UpdateFails
    <3>3. CASE Save(r) \/ SaveFails(r) \/ Unindex(r)
      <4>1. req[r].pc # "update" /\ UNCHANGED <<accounts, disturbed>>
        BY <3>3 DEF Save, SaveFails, Unindex, At
      <4>2. u \in disturbed \/ accounts[u].name = req[r].name
        BY <1>4, <2>1, <4>1 DEF Tracked
      <4>. QED
        BY <1>6, <2>0, <4>1, <4>2
    <3>. QED
      BY <1>6, <3>1, <3>2, <3>3
  <2>. QED
    BY <2>0, <2>1, <2>2, <2>3, <2>4, <1>4 DEF Tracked, Indexed
<1>7. CASE index' = Null /\ Return(r) /\ ~Index(r)
  <2>1. \A t \in Requests : Patching(t, u)' =>
          t # r /\ Patching(t, u) /\ req'[t] = req[t]
    BY <1>1, <1>2, <1>7 DEF Patching, Return, NoRequest
  <2>2. UNCHANGED <<accounts, disturbed>> \/ Index(r)
    BY <1>1, <1>7 DEF Update, UpdateFails, Save, SaveFails, Unindex, Move,
                      Return, NoRequest
  <2>. QED
    BY <1>4, <1>7, <2>1, <2>2 DEF Tracked, Indexed
<1>8. CASE u = v /\ Index(r)
  <2>1. Patching(r, u) /\ ~Patching(r, u)'
    BY <1>1, <1>3, <1>8 DEF Patching, Return, NoRequest
  <2>2. \A t \in Requests : Patching(t, u)' =>
          Patching(t, u) /\ req'[t] = req[t] /\ u \in disturbed
    BY <1>2, <1>4, <2>1 DEF Patching, Tracked
  <2>3. /\ UNCHANGED <<accounts, disturbed>> /\ req[r].pc # "update"
        /\ index' = index \cup {<<req[r].name, u>>}
    BY <1>8 DEF Index, At, Trie!Add
  <2>4. u \in disturbed \/ accounts[u].name = req[r].name
    BY <1>4, <2>1, <2>3 DEF Tracked
  <2>5. Stored(u)'
    BY <1>1, <1>8, <2>3 DEF Stored
  <2>. QED
    BY <2>2, <2>3, <2>4, <2>5 DEF Tracked, Indexed
<1>. QED
  BY <1>3, <1>5, <1>6, <1>7, <1>8

LEMMA RestartTracked ==
  ASSUME Inv, NEW u \in Users, Restart PROVE Tracked(u)'
<1>1. \A t \in Requests : ~Patching(t, u)'
  BY DEF Restart, Patching, NoRequest
<1>2. (index' = Loaded \/ index' = Null) /\ UNCHANGED accounts
  BY DEF Restart
<1>3. \A w \in Keys : Indexed(w, u)' => Stored(u)'
  BY <1>2 DEF Loaded, StoredUsers, Stored, Indexed
<1>4. Stored(u)' /\ index' # Null => Indexed(accounts[u].name, u)'
  BY <1>2 DEF Loaded, StoredUsers, Stored, Indexed
<1>. QED
  BY <1>1, <1>3, <1>4 DEF Tracked, Indexed

LEMMA IndexStays == Inv /\ IndexInv /\ [Next]_vars => IndexInv'
<1> SUFFICES ASSUME Inv, IndexInv, [Next]_vars, NEW u \in Users
             PROVE  Tracked(u)'
  BY IdleStays DEF IndexInv
<1>1. CASE UNCHANGED vars
  <2>1. /\ UNCHANGED <<accounts, disturbed, index, req>> /\ Tracked(u)
        /\ \A r \in Requests : Patching(r, u)' <=> Patching(r, u)
    BY <1>1 DEF vars, Patching, IndexInv
  <2>. QED
    BY <2>1, NameIsKey, UntouchedStay DEF Indexed
<1>2. ASSUME NEW s \in Sids, EndSession(s) \/ Expire(s) PROVE Tracked(u)'
  <2>1. /\ UNCHANGED <<accounts, disturbed, index, req>> /\ Tracked(u)
        /\ \A r \in Requests : Patching(r, u)' <=> Patching(r, u)
    BY <1>2 DEF EndSession, Expire, Patching, IndexInv
  <2>. QED
    BY <2>1, NameIsKey, UntouchedStay DEF Indexed
<1>. QED
  BY <1>1, <1>2, NoPatchTracked, PatchTracked, ChangeTracked, RestartTracked
     DEF Next, Arrive, Advance

\* An account the index knows is found under the name it has now, whatever other
\* names are deleted, unless the name has a doubled letter, two changes
\* overlapped, or the account could not be updated.
THEOREM CurrentNamesAreFound == Spec => []CurrentNameIsIndexed
<1>1. IndexInv => CurrentNameIsIndexed
  BY DEF IndexInv, Tracked, CurrentNameIsIndexed, StoredUsers
<1>. QED
  BY <1>1, Invariant, IndexInit, IndexStays, PTL DEF Spec

=============================================================================

---- MODULE Sessions ----
(***************************************************************************)
(* Who a request acts as: the session store, the cookies of the browsers,  *)
(* and the requests that sign in, sign out, register or do something else. *)
(* Every statement on a store is a step, so requests of one browser or of  *)
(* several come in between; a statement can fail, a reply can be lost, an  *)
(* account can be deleted. What requests do to the event is in WebHandlers.*)
(***************************************************************************)
EXTENDS Naturals

CONSTANTS Browsers, Requests, SessionIDs, UserIDs, Admin,
          NoUser, NoCookie, NoRequest, SignedOut

ASSUME SessionsAssumption ==
    /\ Admin \in UserIDs
    /\ NoUser \notin UserIDs /\ SignedOut \notin UserIDs \cup {NoUser}
    /\ NoCookie \notin SessionIDs

VARIABLES
    store,     \* table sessions: the user of each session
    used,      \* the session ids that were generated; each is generated once
    expired,   \* the sessions whose expiry time has passed
    accounts,  \* the users of package event
    gone,      \* the users that were deleted; their ids are not generated again
    jar,       \* the session cookie of each browser
    told,      \* what the last answer told the browser: the user it is signed in as, that it
               \* is signed out, or (NoUser) neither for certain
    req        \* the requests that are being handled

sessionVars == <<store, used, expired, accounts, gone, jar, told, req>>
data == <<store, used, expired, accounts, gone>>

SignKinds == {"login", "register", "sign-out"}
Kinds == SignKinds \cup {"other"}

\* uid: the user to sign in; user, who: what RequestUser returned to the middleware and to the
\* handler; set: the cookie in the answer; says: what the answer tells about being signed in; told,
\* gone: how that was when a request that is about something else was sent.
RequestType ==
    [b : Browsers, kind : Kinds, cookie : SessionIDs \cup {NoCookie},
     stage : {"sent", "logged", "handler", "checked", "session", "save", "delete", "reply"},
     uid : UserIDs \cup {NoUser}, user : UserIDs \cup {NoUser}, who : UserIDs \cup {NoUser},
     set : SessionIDs \cup {NoCookie}, says : UserIDs \cup {NoUser, SignedOut},
     told : UserIDs \cup {NoUser, SignedOut}, gone : SUBSET UserIDs, contested : BOOLEAN]

\* The type invariant; a session belongs to a user who has had an account.
SessionsTypeOK ==
    /\ store \in [SessionIDs -> UserIDs \cup {NoUser}]
    /\ used \subseteq SessionIDs /\ expired \subseteq used
    /\ \A s \in SessionIDs : store[s] # NoUser => s \in used /\ store[s] \in accounts \cup gone
    /\ accounts \subseteq UserIDs /\ gone \subseteq UserIDs \ accounts
    /\ jar \in [Browsers -> used \cup {NoCookie}]
    /\ told \in [Browsers -> UserIDs \cup {NoUser, SignedOut}]
    /\ \A r \in Requests : req[r] \in RequestType \cup {NoRequest}
    /\ DOMAIN req = Requests

SessionsInit ==
    /\ store = [s \in SessionIDs |-> NoUser]
    /\ used = {} /\ expired = {}
    /\ accounts = {Admin} /\ gone = {}
    /\ jar = [b \in Browsers |-> NoCookie]
    /\ told = [b \in Browsers |-> NoUser]
    /\ req = [r \in Requests |-> NoRequest]

At(r, stage) == req[r] # NoRequest /\ req[r].stage = stage
Handles(r, kinds) == At(r, "handler") /\ req[r].kind \in kinds
Goes(r, stage) == req' = [req EXCEPT ![r].stage = stage]
Answers(r, says, set) ==
    req' = [req EXCEPT ![r] = [@ EXCEPT !.stage = "reply", !.says = says, !.set = set]]

\* Requests of the same browser that sign it in or out and overlap.
Rivals(b, kind) ==
    {q \in Requests : req[q] # NoRequest /\ req[q].b = b /\ {kind, req[q].kind} \subseteq SignKinds}

\* A browser sends a request, with the cookie that it has.
Send(r, b, kind, uid) ==
    /\ req[r] = NoRequest
    /\ kind = "login" \/ uid = NoUser
    /\ req' = [q \in Requests |->
          IF q = r
          THEN [b |-> b, kind |-> kind, cookie |-> jar[b], stage |-> "sent", uid |-> uid,
                user |-> NoUser, who |-> NoUser, set |-> NoCookie, says |-> NoUser,
                told |-> IF kind = "other" THEN told[b] ELSE NoUser,
                gone |-> IF kind = "other" THEN gone ELSE {},
                contested |-> Rivals(b, kind) # {}]
          ELSE IF q \in Rivals(b, kind) THEN [req[q] EXCEPT !.contested = TRUE] ELSE req[q]]
    /\ told' = IF kind \in SignKinds THEN [told EXCEPT ![b] = NoUser] ELSE told
    /\ UNCHANGED <<data, jar>>

-----------------------------------------------------------------------------
\* The user of the cookie's session, or NoUser: without a cookie, without a row, with an error
\* of store.Find, and for an expired session, which is deleted.
RequestSession(cookie, uid) ==
    \/ uid = NoUser /\ UNCHANGED store
    \/ /\ cookie \in SessionIDs \ expired
       /\ store[cookie] = uid
       /\ UNCHANGED store
    \/ /\ cookie \in expired
       /\ uid = NoUser
       /\ store' = [store EXCEPT ![cookie] = NoUser]

\* Mutant: the session is enough.
RequestSessionUser(cookie, u) == RequestSession(cookie, u)

\* The user of the request, when there still is an account. (An error of UserFind: Panic.)
RequestUser(cookie, u) == \E uid \in UserIDs \cup {NoUser} :
    /\ RequestSession(cookie, uid)
    /\ u = IF uid \in accounts THEN uid ELSE NoUser

Others == UNCHANGED <<used, expired, accounts, gone, jar, told>>

\* LogRequest asks for the user only to log it; /login is then handled for everybody.
LogRequest(r) == \E u \in UserIDs \cup {NoUser} :
    /\ At(r, "sent")
    /\ RequestUser(req[r].cookie, u)
    /\ Goes(r, IF req[r].kind = "login" THEN "handler" ELSE "logged")
    /\ Others

\* ServeHTTP: the routes of Active are there when FlagActive is set (an administrator may change
\* it at any time) and for whoever is signed in; those of UserAuth and Admin need a user.
ServeHTTP(r) == \E u \in UserIDs \cup {NoUser}, isActive \in BOOLEAN :
    /\ At(r, "logged")
    /\ RequestUser(req[r].cookie, u)
    /\ req' = [req EXCEPT ![r] = [@ EXCEPT
          !.user = u,
          !.stage = IF u # NoUser \/ (isActive /\ req[r].kind \in {"other", "register"})
                    THEN "handler" ELSE "reply"]]
    /\ Others

\* The handlers ask once more for the user, for whom they then act.
Handle(r) == \E u \in UserIDs \cup {NoUser} :
    /\ Handles(r, {"other"})
    /\ RequestUser(req[r].cookie, u)
    /\ req' = [req EXCEPT ![r] = [@ EXCEPT !.who = u, !.stage = "reply"]]
    /\ Others

-----------------------------------------------------------------------------
\* HandleSessionCreate: FindUser, then FlagActive, then FindOrCreateSession.
FindUser(r) ==
    /\ Handles(r, {"login"})
    /\ \/ req[r].uid \in accounts /\ Goes(r, "checked")
       \/ Answers(r, NoUser, NoCookie)
    /\ UNCHANGED <<data, jar, told>>

CheckActive(r) == \E isActive \in BOOLEAN :
    /\ At(r, "checked")
    /\ IF isActive \/ req[r].uid = Admin THEN Goes(r, "session") ELSE Answers(r, NoUser, NoCookie)
    /\ UNCHANGED <<data, jar, told>>

\* Mutant: any session will do.
FindAnySession(r) == \E uid \in UserIDs \cup {NoUser} :
    /\ At(r, "session")
    /\ RequestSession(req[r].cookie, uid)
    /\ IF uid # NoUser THEN Answers(r, req[r].uid, NoCookie) ELSE Goes(r, "save")
    /\ Others

\* Mutant: the session that there is gets the new user.
RebindSession(r) ==
    /\ At(r, "session")
    /\ \/ /\ req[r].cookie \in SessionIDs \ expired
          /\ store[req[r].cookie] # NoUser
          /\ store' = [store EXCEPT ![req[r].cookie] = req[r].uid]
          /\ Answers(r, req[r].uid, NoCookie)
       \/ Goes(r, "save") /\ UNCHANGED store
    /\ Others

FindOrCreateSession(r) == \E uid \in UserIDs \cup {NoUser} :
    /\ At(r, "session")
    /\ RequestSession(req[r].cookie, uid)
    /\ IF uid = req[r].uid THEN Answers(r, uid, NoCookie) ELSE Goes(r, "save")
    /\ Others

\* Mutant: the error of NewUser is not looked at.
HandleUserCreateAnyway(r) ==
    /\ Handles(r, {"register"})
    /\ \E u \in UserIDs \ (accounts \cup gone) :
          /\ accounts' \in {accounts \cup {u}, accounts}
          /\ req' = [req EXCEPT ![r] = [@ EXCEPT !.stage = "save", !.uid = u]]
    /\ UNCHANGED <<store, used, expired, gone, jar, told>>

\* HandleUserCreate: NewUser, unless something is wrong with the form, then NewSession.
HandleUserCreate(r) ==
    /\ Handles(r, {"register"})
    /\ \/ \E u \in UserIDs \ (accounts \cup gone) :
             /\ accounts' = accounts \cup {u}
             /\ req' = [req EXCEPT ![r] = [@ EXCEPT !.stage = "save", !.uid = u]]
       \/ Answers(r, NoUser, NoCookie) /\ UNCHANGED accounts
    /\ UNCHANGED <<store, used, expired, gone, jar, told>>

NewSession(r) == \E s \in SessionIDs \ used :
    /\ At(r, "save")
    /\ store' = [store EXCEPT ![s] = req[r].uid]
    /\ used' = used \cup {s}
    /\ Answers(r, req[r].uid, s)
    /\ UNCHANGED <<expired, accounts, gone, jar, told>>

\* DeleteSessionByRequest: without a session there is nothing to delete.
DeleteSessionByRequest(r) == \E uid \in UserIDs \cup {NoUser} :
    /\ Handles(r, {"sign-out"})
    /\ RequestSession(req[r].cookie, uid)
    /\ IF uid = NoUser THEN Answers(r, SignedOut, NoCookie) ELSE Goes(r, "delete")
    /\ Others

DeleteSession(r) ==
    /\ At(r, "delete")
    /\ store' = [store EXCEPT ![req[r].cookie] = NoUser]
    /\ Answers(r, SignedOut, NoCookie)
    /\ Others

-----------------------------------------------------------------------------
End(r) == req' = [req EXCEPT ![r] = NoRequest]

\* The answer arrives. Of answers to requests that overlapped, nobody can say which is the last.
Reply(r) ==
    /\ At(r, "reply")
    /\ LET q == req[r] IN
       /\ jar' = IF q.set = NoCookie THEN jar ELSE [jar EXCEPT ![q.b] = q.set]
       /\ told' = IF q.contested \/ q.says = NoUser THEN told ELSE [told EXCEPT ![q.b] = q.says]
    /\ End(r)
    /\ UNCHANGED data

\* A store returns an error and the handler panics, the server stops, or the answer is lost.
Panic(r) ==
    /\ req[r] # NoRequest
    /\ End(r)
    /\ UNCHANGED <<data, jar, told>>

\* What others do meanwhile.
Expire == \E s \in used \ expired :
    /\ expired' = expired \cup {s}
    /\ UNCHANGED <<store, used, accounts, gone, jar, told, req>>

DeleteUser == \E u \in accounts :
    /\ accounts' = accounts \ {u}
    /\ gone' = gone \cup {u}
    /\ UNCHANGED <<store, used, expired, jar, told, req>>

SessionsNext ==
    \/ \E r \in Requests :
          \/ \E b \in Browsers, kind \in Kinds, uid \in UserIDs \cup {NoUser} : Send(r, b, kind, uid)
          \/ LogRequest(r) \/ ServeHTTP(r) \/ Handle(r)
          \/ FindUser(r) \/ CheckActive(r) \/ FindOrCreateSession(r)
          \/ HandleUserCreate(r) \/ NewSession(r)
          \/ DeleteSessionByRequest(r) \/ DeleteSession(r)
          \/ Reply(r) \/ Panic(r)
    \/ Expire \/ DeleteUser

SessionsSpec == SessionsInit /\ [][SessionsNext]_sessionVars
-----------------------------------------------------------------------------
\* A browser that was told it is signed in as a user acts for that user or for nobody, whatever
\* sessions it has had before and whatever became of its earlier requests (FindOrCreateSession).
ActsAsTold == \A r \in Requests :
    req[r] # NoRequest /\ req[r].told \in UserIDs => req[r].who \in {req[r].told, NoUser}

\* The sessions of a deleted user stay in the store, but a request that was sent after the
\* account was deleted never acts for it (RequestUser looks the account up every time).
DeletedNeverActs == \A r \in Requests :
    req[r] # NoRequest => req[r].who \notin req[r].gone /\ req[r].user \notin req[r].gone

\* The middleware lets a request pass for one user and the handler asks again: it gets the same
\* user or none, although sessions begin, end and expire in between.
OneUser == \A r \in Requests :
    req[r] # NoRequest /\ req[r].user # NoUser => req[r].who \in {req[r].user, NoUser}

\* A browser that got the page of sessions/destroy acts for nobody until it signs in again.
SignedOutStays == \A r \in Requests :
    req[r] # NoRequest /\ req[r].told = SignedOut => req[r].who = NoUser
====

---- MODULE SessionsProofs ----
(***************************************************************************)
(* Proofs about Sessions, for any number of browsers, requests, session    *)
(* ids and users. A session never changes hands: that is why what an answer*)
(* said, what the middleware saw and what the handler gets agree.          *)
(***************************************************************************)
EXTENDS Sessions, TLAPS

\* The session is u's, or is nobody's any more; sessions that were generated stay like that.
BoundTo(st, us, s, u) == s \in us /\ st[s] \in {u, NoUser}

\* What is true of a request at every stage, of the tables st, us, ac, go.
Sound(q, st, us, ac, go) ==
    /\ q.cookie \in us \cup {NoCookie} /\ q.set \in us \cup {NoCookie}
    /\ q.stage \in {"checked", "session", "save"} => q.uid \in ac \cup go
    /\ q.stage \in {"checked", "session", "save", "delete"} => q.kind \in SignKinds
    /\ q.stage = "delete" => q.cookie \in us
    /\ q.stage # "reply" => q.set = NoCookie /\ q.says = NoUser
    /\ q.stage \in {"sent", "logged"} => q.user = NoUser /\ q.who = NoUser
    /\ q.gone \subseteq go /\ q.who \notin q.gone /\ q.user \notin q.gone
    /\ q.user # NoUser => BoundTo(st, us, q.cookie, q.user) /\ q.who \in {q.user, NoUser}
    /\ q.told \in UserIDs => BoundTo(st, us, q.cookie, q.told) /\ q.who \in {q.told, NoUser}
    /\ q.says \in UserIDs =>
          BoundTo(st, us, IF q.set = NoCookie THEN q.cookie ELSE q.set, q.says)
    /\ q.set # NoCookie => q.says \in UserIDs
    /\ q.says # NoUser => q.kind \in SignKinds

DataOK ==
    /\ store \in [SessionIDs -> UserIDs \cup {NoUser}]
    /\ used \subseteq SessionIDs /\ expired \subseteq used
    /\ \A s \in SessionIDs : store[s] # NoUser => s \in used /\ store[s] \in accounts \cup gone
    /\ accounts \subseteq UserIDs /\ gone \subseteq UserIDs \ accounts

BrowsersOK ==
    /\ jar \in [Browsers -> used \cup {NoCookie}]
    /\ told \in [Browsers -> UserIDs \cup {NoUser, SignedOut}]
    /\ \A b \in Browsers : told[b] \in UserIDs => BoundTo(store, used, jar[b], told[b])

RequestsOK ==
    /\ DOMAIN req = Requests
    /\ \A r \in Requests : req[r] # NoRequest =>
          req[r] \in RequestType /\ Sound(req[r], store, used, accounts, gone)

Signs(r) == req[r] # NoRequest /\ req[r].kind \in SignKinds

\* While a browser is being signed in or out, nothing is certain; without a rival the request has
\* the cookie that the browser still has.
RivalsOK ==
    /\ \A r \in Requests : Signs(r) => told[req[r].b] = NoUser
    /\ \A r \in Requests : Signs(r) /\ ~req[r].contested => jar[req[r].b] = req[r].cookie
    /\ \A r, q \in Requests :
          Signs(r) /\ Signs(q) /\ r # q /\ req[r].b = req[q].b => req[r].contested

SessionsInv == DataOK /\ BrowsersOK /\ RequestsOK /\ RivalsOK

\* What a step does to the tables.
Grows ==
    /\ used \subseteq used' /\ gone \subseteq gone' /\ accounts \cup gone \subseteq accounts' \cup gone'
    /\ \A s \in used : store'[s] \in {store[s], NoUser}

LEMMA TypesFollow == SessionsInv => SessionsTypeOK
BY DEF SessionsInv, DataOK, BrowsersOK, RequestsOK, SessionsTypeOK

LEMMA BoundStays ==
    ASSUME NEW st, NEW us, NEW st2, NEW us2, NEW s, NEW u,
           us \subseteq us2, \A x \in us : st2[x] \in {st[x], NoUser}, BoundTo(st, us, s, u)
    PROVE  BoundTo(st2, us2, s, u)
BY DEF BoundTo

LEMMA SoundStays ==
    ASSUME NEW q, NEW st, NEW us, NEW ac, NEW go, NEW st2, NEW us2, NEW ac2, NEW go2,
           us \subseteq us2, go \subseteq go2, ac \cup go \subseteq ac2 \cup go2,
           \A x \in us : st2[x] \in {st[x], NoUser},
           Sound(q, st, us, ac, go)
    PROVE  Sound(q, st2, us2, ac2, go2)
BY BoundStays DEF Sound

LEMMA BrowsersStay ==
    ASSUME BrowsersOK, Grows, UNCHANGED <<jar, told>>
    PROVE  BrowsersOK'
BY BoundStays DEF BrowsersOK, Grows

\* The steps of one request that leave the browsers alone.
LEMMA OneRequest ==
    ASSUME SessionsInv, DataOK', Grows, UNCHANGED <<jar, told>>,
           NEW r \in Requests, req[r] # NoRequest, req' = [req EXCEPT ![r] = req'[r]],
           req'[r] \in RequestType, req'[r].b = req[r].b, req'[r].kind = req[r].kind,
           req'[r].cookie = req[r].cookie, req'[r].contested = req[r].contested,
           Sound(req'[r], store', used', accounts', gone')
    PROVE  SessionsInv'
<1>1. \A q \in Requests : q # r => req'[q] = req[q]
    BY DEF SessionsInv, RequestsOK
<1>2. RequestsOK'
    <2>1. DOMAIN req' = Requests
        BY DEF SessionsInv, RequestsOK
    <2>2. ASSUME NEW q \in Requests, req'[q] # NoRequest
          PROVE  req'[q] \in RequestType /\ Sound(req'[q], store', used', accounts', gone')
        <3>1. CASE q = r
            BY <3>1
        <3>2. CASE q # r
            <4>1. req[q] \in RequestType /\ Sound(req[q], store, used, accounts, gone)
                BY <1>1, <2>2, <3>2 DEF SessionsInv, RequestsOK
            <4>2. Sound(req[q], store', used', accounts', gone')
                BY <4>1, SoundStays DEF Grows
            <4> QED
                BY <1>1, <3>2, <4>1, <4>2
        <3> QED
            BY <3>1, <3>2
    <2> QED
        BY <2>1, <2>2 DEF RequestsOK
<1>3. RivalsOK'
    <2>1. \A q \in Requests : Signs(q)' => Signs(q)
        BY <1>1 DEF Signs
    <2>2. \A q \in Requests : Signs(q)' =>
              req'[q].b = req[q].b /\ req'[q].cookie = req[q].cookie /\ req'[q].contested = req[q].contested
        BY <1>1
    <2> QED
        BY <2>1, <2>2 DEF SessionsInv, RivalsOK
<1> QED
    BY <1>2, <1>3, BrowsersStay DEF SessionsInv

\* A session lookup: what it returns is what is stored, and it ends sessions at most.
LEMMA Lookup ==
    ASSUME DataOK, NEW c \in used \cup {NoCookie}, NEW uid \in UserIDs \cup {NoUser},
           RequestSession(c, uid), UNCHANGED <<used, expired, accounts, gone>>
    PROVE  /\ DataOK' /\ Grows
           /\ uid # NoUser => BoundTo(store', used', c, uid) /\ store[c] = uid /\ c \in used
<1>1. \A s \in SessionIDs : store'[s] \in {store[s], NoUser}
    BY SessionsAssumption DEF DataOK, RequestSession
<1>2. store' \in [SessionIDs -> UserIDs \cup {NoUser}]
    BY SessionsAssumption DEF DataOK, RequestSession
<1>3. uid # NoUser => store' = store /\ c \in SessionIDs /\ store[c] = uid
    BY DEF RequestSession
<1> QED
    BY <1>1, <1>2, <1>3, SessionsAssumption DEF DataOK, Grows, BoundTo

\* The user of a request: one with an account, and the one that its session is bound to.
LEMMA LookupUser ==
    ASSUME DataOK, NEW c \in used \cup {NoCookie}, NEW u \in UserIDs \cup {NoUser},
           RequestUser(c, u), UNCHANGED <<used, expired, accounts, gone>>
    PROVE  /\ DataOK' /\ Grows
           /\ u # NoUser => BoundTo(store', used', c, u) /\ store[c] = u /\ u \in accounts
<1>1. PICK uid \in UserIDs \cup {NoUser} :
          RequestSession(c, uid) /\ u = IF uid \in accounts THEN uid ELSE NoUser
    BY DEF RequestUser
<1> QED
    BY <1>1, Lookup

Fields == {"b", "kind", "cookie", "stage", "uid", "user", "who", "set", "says", "told", "gone", "contested"}

LEMMA RequestFacts ==
    ASSUME SessionsInv, NEW r \in Requests, req[r] # NoRequest
    PROVE  /\ req[r] \in RequestType /\ Sound(req[r], store, used, accounts, gone)
           /\ req[r].cookie \in used \cup {NoCookie} /\ DataOK
BY DEF SessionsInv, RequestsOK, Sound

-----------------------------------------------------------------------------
LEMMA LogRequestKeeps ==
    ASSUME SessionsInv, NEW r \in Requests, LogRequest(r)
    PROVE  SessionsInv'
<1>1. PICK u \in UserIDs \cup {NoUser} : RequestUser(req[r].cookie, u)
    BY DEF LogRequest
<1>2. /\ req[r] # NoRequest /\ req[r].stage = "sent"
      /\ Goes(r, IF req[r].kind = "login" THEN "handler" ELSE "logged") /\ Others
    BY DEF LogRequest, At
<1>3. req[r] \in RequestType /\ req[r].cookie \in used \cup {NoCookie} /\ DataOK
    BY <1>2, RequestFacts
<1>4. DataOK' /\ Grows
    BY <1>1, <1>2, <1>3, LookupUser DEF Others
<1>5. Sound(req[r], store', used', accounts', gone')
    BY <1>2, <1>4, RequestFacts, SoundStays DEF Grows
<1>6. \/ req' = [req EXCEPT ![r] = [@ EXCEPT !.stage = "handler"]]
      \/ req' = [req EXCEPT ![r] = [@ EXCEPT !.stage = "logged"]]
    BY <1>2 DEF Goes
<1>7. /\ req' = [req EXCEPT ![r] = req'[r]]
      /\ \/ req'[r] = [req[r] EXCEPT !.stage = "handler"]
         \/ req'[r] = [req[r] EXCEPT !.stage = "logged"]
    BY <1>6 DEF SessionsInv, RequestsOK
<1>8. req'[r] \in RequestType /\ Sound(req'[r], store', used', accounts', gone')
    BY <1>2, <1>3, <1>5, <1>7 DEF RequestType, Sound
<1> QED
    BY <1>2, <1>3, <1>4, <1>7, <1>8, OneRequest DEF Others, RequestType

LEMMA ServeHTTPKeeps ==
    ASSUME SessionsInv, NEW r \in Requests, ServeHTTP(r)
    PROVE  SessionsInv'
<1>1. PICK u \in UserIDs \cup {NoUser}, isActive \in BOOLEAN :
          /\ RequestUser(req[r].cookie, u)
          /\ req' = [req EXCEPT ![r] = [@ EXCEPT
                !.user = u,
                !.stage = IF u # NoUser \/ (isActive /\ req[r].kind \in {"other", "register"})
                          THEN "handler" ELSE "reply"]]
    BY DEF ServeHTTP
<1>2. req[r] # NoRequest /\ req[r].stage = "logged" /\ Others
    BY DEF ServeHTTP, At
<1>3. req[r] \in RequestType /\ req[r].cookie \in used \cup {NoCookie} /\ DataOK
    BY <1>2, RequestFacts
<1>4. /\ DataOK' /\ Grows
      /\ u # NoUser => BoundTo(store', used', req[r].cookie, u) /\ u \in accounts
    BY <1>1, <1>2, <1>3, LookupUser DEF Others
<1>5. Sound(req[r], store', used', accounts', gone')
    BY <1>2, <1>4, RequestFacts, SoundStays DEF Grows
<1>6. PICK stage \in {"handler", "reply"} :
          req' = [req EXCEPT ![r] = [@ EXCEPT !.user = u, !.stage = stage]]
    BY <1>1
<1>7. /\ req' = [req EXCEPT ![r] = req'[r]]
      /\ req'[r] = [req[r] EXCEPT !.user = u, !.stage = stage]
    BY <1>6 DEF SessionsInv, RequestsOK
<1>8. u \notin req[r].gone
    BY <1>2, <1>3, <1>4, <1>5, SessionsAssumption DEF Sound, DataOK, Others, RequestType
<1>9. req'[r] \in RequestType
    BY <1>3, <1>7 DEF RequestType
<1>10. /\ req'[r].user = u /\ req'[r].stage \in {"handler", "reply"}
       /\ \A f \in Fields \ {"user", "stage"} : req'[r][f] = req[r][f]
    BY <1>3, <1>7 DEF RequestType, Fields
<1>11. Sound(req'[r], store', used', accounts', gone')
    BY <1>2, <1>4, <1>5, <1>8, <1>10 DEF Sound, Fields
<1> QED
    BY <1>2, <1>4, <1>7, <1>9, <1>10, <1>11, OneRequest DEF Others, Fields

\* The handler gets what the session is bound to: the middleware's user and the one that the
\* browser was told, or nobody.
LEMMA HandleKeeps ==
    ASSUME SessionsInv, NEW r \in Requests, Handle(r)
    PROVE  SessionsInv'
<1>1. PICK u \in UserIDs \cup {NoUser} :
          /\ RequestUser(req[r].cookie, u)
          /\ req' = [req EXCEPT ![r] = [@ EXCEPT !.who = u, !.stage = "reply"]]
    BY DEF Handle
<1>2. req[r] # NoRequest /\ req[r].stage = "handler" /\ Others
    BY DEF Handle, Handles, At
<1>3. req[r] \in RequestType /\ req[r].cookie \in used \cup {NoCookie} /\ DataOK
    BY <1>2, RequestFacts
<1>4. /\ DataOK' /\ Grows
      /\ u # NoUser => store[req[r].cookie] = u /\ u \in accounts
    BY <1>1, <1>2, <1>3, LookupUser DEF Others
<1>5. /\ Sound(req[r], store, used, accounts, gone)
      /\ Sound(req[r], store', used', accounts', gone')
    BY <1>2, <1>4, RequestFacts, SoundStays DEF Grows
<1>6. /\ req' = [req EXCEPT ![r] = req'[r]]
      /\ req'[r] = [req[r] EXCEPT !.who = u, !.stage = "reply"]
    BY <1>1 DEF SessionsInv, RequestsOK
<1>7. u \notin req[r].gone
    BY <1>2, <1>3, <1>4, <1>5, SessionsAssumption DEF Sound, DataOK, Others, RequestType
<1>8. /\ req[r].user # NoUser => u \in {req[r].user, NoUser}
      /\ req[r].told \in UserIDs => u \in {req[r].told, NoUser}
    BY <1>4, <1>5 DEF Sound, BoundTo
<1>9. req'[r] \in RequestType
    BY <1>3, <1>6 DEF RequestType
<1>10. /\ req'[r].who = u /\ req'[r].stage = "reply"
       /\ \A f \in Fields \ {"who", "stage"} : req'[r][f] = req[r][f]
    BY <1>3, <1>6 DEF RequestType, Fields
<1>11. Sound(req'[r], store', used', accounts', gone')
    BY <1>5, <1>7, <1>8, <1>10 DEF Sound, Fields
<1> QED
    BY <1>2, <1>4, <1>6, <1>9, <1>10, <1>11, OneRequest DEF Others, Fields

\* An answer without a cookie and without a user.
LEMMA PlainAnswer ==
    ASSUME SessionsInv, DataOK', Grows, UNCHANGED <<jar, told>>, NEW r \in Requests,
           req[r] # NoRequest, req[r].set = NoCookie, NEW says \in {NoUser, SignedOut},
           req[r].kind \in SignKinds, Answers(r, says, NoCookie)
    PROVE  SessionsInv'
<1>1. req[r] \in RequestType
    BY RequestFacts
<1>2. Sound(req[r], store', used', accounts', gone')
    BY RequestFacts, SoundStays DEF Grows
<1>3. /\ req' = [req EXCEPT ![r] = req'[r]]
      /\ req'[r] = [req[r] EXCEPT !.stage = "reply", !.says = says, !.set = NoCookie]
    BY DEF Answers, SessionsInv, RequestsOK
<1>4. req'[r] \in RequestType
    BY <1>1, <1>3 DEF RequestType
<1>5. /\ req'[r].stage = "reply" /\ req'[r].says = says
      /\ \A f \in Fields \ {"stage", "says"} : req'[r][f] = req[r][f]
    BY <1>1, <1>3 DEF RequestType, Fields
<1>6. Sound(req'[r], store', used', accounts', gone')
    BY <1>2, <1>5, SessionsAssumption DEF Sound, Fields
<1> QED
    BY <1>3, <1>4, <1>5, <1>6, OneRequest DEF Fields

LEMMA Quiet == SessionsInv /\ UNCHANGED data => DataOK' /\ Grows
BY DEF SessionsInv, DataOK, Grows, data

\* A signing request goes on to its next statement.
LEMMA GoesOn ==
    ASSUME SessionsInv, DataOK', Grows, UNCHANGED <<jar, told>>, NEW r \in Requests,
           req[r] # NoRequest, req[r].stage # "reply", req[r].kind \in SignKinds,
           NEW stage \in {"checked", "session", "save", "delete"}, Goes(r, stage),
           stage = "delete" => req[r].cookie \in used',
           stage # "delete" => req[r].uid \in accounts' \cup gone'
    PROVE  SessionsInv'
<1>1. req[r] \in RequestType
    BY RequestFacts
<1>2. Sound(req[r], store', used', accounts', gone')
    BY RequestFacts, SoundStays DEF Grows
<1>3. /\ req' = [req EXCEPT ![r] = req'[r]]
      /\ req'[r] = [req[r] EXCEPT !.stage = stage]
    BY DEF Goes, SessionsInv, RequestsOK
<1>4. req'[r] \in RequestType
    BY <1>1, <1>3 DEF RequestType
<1>5. /\ req'[r].stage = stage
      /\ \A f \in Fields \ {"stage"} : req'[r][f] = req[r][f]
    BY <1>1, <1>3 DEF RequestType, Fields
<1>6. Sound(req'[r], store', used', accounts', gone')
    BY <1>2, <1>5 DEF Sound, Fields
<1> QED
    BY <1>3, <1>4, <1>5, <1>6, OneRequest DEF Fields

LEMMA FindUserKeeps ==
    ASSUME SessionsInv, NEW r \in Requests, FindUser(r)
    PROVE  SessionsInv'
<1>1. /\ req[r] # NoRequest /\ req[r].stage = "handler" /\ req[r].kind = "login"
      /\ UNCHANGED <<jar, told>> /\ UNCHANGED data
    BY DEF FindUser, Handles, At
<1>2. DataOK' /\ Grows
    BY <1>1, Quiet
<1>3. req[r].set = NoCookie /\ req[r].kind \in SignKinds
    BY <1>1, RequestFacts DEF Sound, SignKinds
<1>4. CASE req[r].uid \in accounts /\ Goes(r, "checked")
    BY <1>1, <1>2, <1>3, <1>4, GoesOn DEF data
<1>5. CASE Answers(r, NoUser, NoCookie)
    BY <1>1, <1>2, <1>3, <1>5, PlainAnswer
<1> QED
    BY <1>4, <1>5 DEF FindUser

LEMMA CheckActiveKeeps ==
    ASSUME SessionsInv, NEW r \in Requests, CheckActive(r)
    PROVE  SessionsInv'
<1>1. /\ req[r] # NoRequest /\ req[r].stage = "checked"
      /\ UNCHANGED <<jar, told>> /\ UNCHANGED data
    BY DEF CheckActive, At
<1>2. DataOK' /\ Grows
    BY <1>1, Quiet
<1>3. req[r].set = NoCookie /\ req[r].kind \in SignKinds /\ req[r].uid \in accounts \cup gone
    BY <1>1, RequestFacts DEF Sound
<1>4. CASE Goes(r, "session")
    BY <1>1, <1>2, <1>3, <1>4, GoesOn DEF data
<1>5. CASE Answers(r, NoUser, NoCookie)
    BY <1>1, <1>2, <1>3, <1>5, PlainAnswer
<1> QED
    BY <1>4, <1>5 DEF CheckActive

\* An answer that says who the browser is signed in as.
LEMMA UserAnswer ==
    ASSUME SessionsInv, DataOK', Grows, UNCHANGED <<jar, told>>, NEW r \in Requests,
           req[r] # NoRequest, req[r].kind \in SignKinds,
           NEW u \in UserIDs, NEW s \in used' \cup {NoCookie}, Answers(r, u, s),
           used' \subseteq SessionIDs,
           BoundTo(store', used', IF s = NoCookie THEN req[r].cookie ELSE s, u)
    PROVE  SessionsInv'
<1>1. req[r] \in RequestType
    BY RequestFacts
<1>2. Sound(req[r], store', used', accounts', gone')
    BY RequestFacts, SoundStays DEF Grows
<1>3. /\ req' = [req EXCEPT ![r] = req'[r]]
      /\ req'[r] = [req[r] EXCEPT !.stage = "reply", !.says = u, !.set = s]
    BY DEF Answers, SessionsInv, RequestsOK
<1>4. req'[r] \in RequestType
    BY <1>1, <1>3 DEF RequestType
<1>5. /\ req'[r].stage = "reply" /\ req'[r].says = u /\ req'[r].set = s
      /\ \A f \in Fields \ {"stage", "says", "set"} : req'[r][f] = req[r][f]
    BY <1>1, <1>3 DEF RequestType, Fields
<1>6. Sound(req'[r], store', used', accounts', gone')
    BY <1>2, <1>5 DEF Sound, Fields
<1> QED
    BY <1>3, <1>4, <1>5, <1>6, OneRequest DEF Fields

LEMMA FindOrCreateSessionKeeps ==
    ASSUME SessionsInv, NEW r \in Requests, FindOrCreateSession(r)
    PROVE  SessionsInv'
<1>1. PICK uid \in UserIDs \cup {NoUser} :
          /\ RequestSession(req[r].cookie, uid)
          /\ IF uid = req[r].uid THEN Answers(r, uid, NoCookie) ELSE Goes(r, "save")
    BY DEF FindOrCreateSession
<1>2. req[r] # NoRequest /\ req[r].stage = "session" /\ Others
    BY DEF FindOrCreateSession, At
<1>3. /\ req[r].cookie \in used \cup {NoCookie} /\ DataOK
      /\ req[r].kind \in SignKinds /\ req[r].uid \in accounts \cup gone
    BY <1>2, RequestFacts DEF Sound
<1>4. /\ DataOK' /\ Grows
      /\ uid # NoUser => BoundTo(store', used', req[r].cookie, uid)
    BY <1>1, <1>2, <1>3, Lookup DEF Others
<1>5. CASE uid = req[r].uid
    <2>1. uid \in UserIDs
        BY <1>3, <1>5 DEF DataOK
    <2> QED
        BY <1>1, <1>2, <1>3, <1>4, <1>5, <2>1, UserAnswer, SessionsAssumption DEF Others, DataOK
<1>6. CASE uid # req[r].uid
    BY <1>1, <1>2, <1>3, <1>4, <1>6, GoesOn DEF Others
<1> QED
    BY <1>5, <1>6

LEMMA HandleUserCreateKeeps ==
    ASSUME SessionsInv, NEW r \in Requests, HandleUserCreate(r)
    PROVE  SessionsInv'
<1>1. /\ req[r] # NoRequest /\ req[r].stage = "handler" /\ req[r].kind = "register"
      /\ UNCHANGED <<store, used, expired, gone, jar, told>>
    BY DEF HandleUserCreate, Handles, At
<1>2. /\ req[r] \in RequestType /\ DataOK /\ Sound(req[r], store, used, accounts, gone)
      /\ req[r].set = NoCookie /\ req[r].kind \in SignKinds
    BY <1>1, RequestFacts DEF Sound, SignKinds
<1>3. CASE Answers(r, NoUser, NoCookie) /\ UNCHANGED accounts
    BY <1>1, <1>2, <1>3, Quiet, PlainAnswer DEF data
<1>4. ASSUME NEW u \in UserIDs \ (accounts \cup gone), accounts' = accounts \cup {u},
             req' = [req EXCEPT ![r] = [@ EXCEPT !.stage = "save", !.uid = u]]
      PROVE  SessionsInv'
    <2>1. DataOK' /\ Grows
        BY <1>1, <1>2, <1>4 DEF DataOK, Grows
    <2>2. Sound(req[r], store', used', accounts', gone')
        BY <1>2, <2>1, SoundStays DEF Grows
    <2>3. /\ req' = [req EXCEPT ![r] = req'[r]]
          /\ req'[r] = [req[r] EXCEPT !.stage = "save", !.uid = u]
        BY <1>4 DEF SessionsInv, RequestsOK
    <2>4. req'[r] \in RequestType
        BY <1>2, <2>3 DEF RequestType
    <2>5. /\ req'[r].stage = "save" /\ req'[r].uid = u
          /\ \A f \in Fields \ {"stage", "uid"} : req'[r][f] = req[r][f]
        BY <1>2, <2>3 DEF RequestType, Fields
    <2>6. Sound(req'[r], store', used', accounts', gone')
        BY <1>1, <1>2, <1>4, <2>2, <2>5 DEF Sound, Fields
    <2> QED
        BY <1>1, <2>1, <2>3, <2>4, <2>5, <2>6, OneRequest DEF Fields
<1> QED
    BY <1>3, <1>4 DEF HandleUserCreate

LEMMA NewSessionKeeps ==
    ASSUME SessionsInv, NEW r \in Requests, NewSession(r)
    PROVE  SessionsInv'
<1>1. PICK s \in SessionIDs \ used :
          /\ store' = [store EXCEPT ![s] = req[r].uid]
          /\ used' = used \cup {s}
          /\ Answers(r, req[r].uid, s)
    BY DEF NewSession
<1>2. /\ req[r] # NoRequest /\ req[r].stage = "save"
      /\ UNCHANGED <<expired, accounts, gone, jar, told>>
    BY DEF NewSession, At
<1>3. DataOK /\ req[r].kind \in SignKinds /\ req[r].uid \in accounts \cup gone
    BY <1>2, RequestFacts DEF Sound
<1>4. req[r].uid \in UserIDs
    BY <1>3 DEF DataOK
<1>5. store' \in [SessionIDs -> UserIDs \cup {NoUser}]
    BY <1>1, <1>3, <1>4 DEF DataOK
<1>6. store'[s] = req[r].uid /\ \A x \in SessionIDs \ {s} : store'[x] = store[x]
    BY <1>1, <1>3 DEF DataOK
<1>7. DataOK' /\ Grows
    BY <1>1, <1>2, <1>3, <1>5, <1>6 DEF DataOK, Grows
<1>8. BoundTo(store', used', IF s = NoCookie THEN req[r].cookie ELSE s, req[r].uid)
    BY <1>1, <1>6, SessionsAssumption DEF BoundTo
<1> QED
    BY <1>1, <1>2, <1>3, <1>4, <1>7, <1>8, UserAnswer DEF DataOK

LEMMA DeleteSessionByRequestKeeps ==
    ASSUME SessionsInv, NEW r \in Requests, DeleteSessionByRequest(r)
    PROVE  SessionsInv'
<1>1. PICK uid \in UserIDs \cup {NoUser} :
          /\ RequestSession(req[r].cookie, uid)
          /\ IF uid = NoUser THEN Answers(r, SignedOut, NoCookie) ELSE Goes(r, "delete")
    BY DEF DeleteSessionByRequest
<1>2. req[r] # NoRequest /\ req[r].stage = "handler" /\ req[r].kind = "sign-out" /\ Others
    BY DEF DeleteSessionByRequest, Handles, At
<1>3. /\ req[r].cookie \in used \cup {NoCookie} /\ DataOK
      /\ req[r].set = NoCookie /\ req[r].kind \in SignKinds
    BY <1>2, RequestFacts DEF Sound, SignKinds
<1>4. /\ DataOK' /\ Grows
      /\ uid # NoUser => req[r].cookie \in used
    BY <1>1, <1>2, <1>3, Lookup DEF Others
<1>5. CASE uid = NoUser
    BY <1>1, <1>2, <1>3, <1>4, <1>5, PlainAnswer DEF Others
<1>6. CASE uid # NoUser
    BY <1>1, <1>2, <1>3, <1>4, <1>6, GoesOn DEF Others
<1> QED
    BY <1>5, <1>6

LEMMA DeleteSessionKeeps ==
    ASSUME SessionsInv, NEW r \in Requests, DeleteSession(r)
    PROVE  SessionsInv'
<1>1. /\ req[r] # NoRequest /\ req[r].stage = "delete" /\ Others
      /\ store' = [store EXCEPT ![req[r].cookie] = NoUser] /\ Answers(r, SignedOut, NoCookie)
    BY DEF DeleteSession, At
<1>2. /\ req[r].cookie \in used /\ DataOK
      /\ req[r].set = NoCookie /\ req[r].kind \in SignKinds
    BY <1>1, RequestFacts DEF Sound
<1>3. DataOK' /\ Grows
    BY <1>1, <1>2 DEF DataOK, Grows, Others
<1> QED
    BY <1>1, <1>2, <1>3, PlainAnswer DEF Others

-----------------------------------------------------------------------------
\* A request that signs the browser in or out makes what it was told uncertain, and its rivals
\* and itself contested.
LEMMA SendKeeps ==
    ASSUME SessionsInv, NEW r \in Requests, NEW b \in Browsers, NEW kind \in Kinds,
           NEW uid \in UserIDs \cup {NoUser}, Send(r, b, kind, uid)
    PROVE  SessionsInv'
<1> DEFINE R == Rivals(b, kind)
<1>1. /\ req[r] = NoRequest /\ UNCHANGED jar /\ UNCHANGED data
      /\ told' = IF kind \in SignKinds THEN [told EXCEPT ![b] = NoUser] ELSE told
    BY DEF Send
<1>2. /\ DOMAIN req' = Requests
      /\ req'[r] = [b |-> b, kind |-> kind, cookie |-> jar[b], stage |-> "sent", uid |-> uid,
                    user |-> NoUser, who |-> NoUser, set |-> NoCookie, says |-> NoUser,
                    told |-> IF kind = "other" THEN told[b] ELSE NoUser,
                    gone |-> IF kind = "other" THEN gone ELSE {},
                    contested |-> R # {}]
      /\ \A q \in Requests \ {r} :
            req'[q] = IF q \in R THEN [req[q] EXCEPT !.contested = TRUE] ELSE req[q]
    BY DEF Send
<1>3. /\ used \subseteq SessionIDs /\ gone \subseteq UserIDs
      /\ jar[b] \in used \cup {NoCookie} /\ told[b] \in UserIDs \cup {NoUser, SignedOut}
    BY DEF SessionsInv, DataOK, BrowsersOK
<1>4. \A q \in R : q \in Requests /\ Signs(q) /\ req[q].b = b /\ kind \in SignKinds
    BY DEF Rivals, Signs
<1>5. \A q \in Requests : Signs(q) /\ req[q].b = b /\ kind \in SignKinds => q \in R
    BY DEF Rivals, Signs
<1>6. DataOK' /\ Grows
    BY <1>1, Quiet
<1>7. BrowsersOK'
    BY <1>1, SessionsAssumption DEF SessionsInv, BrowsersOK, data
<1>8. req'[r] \in RequestType
    BY <1>2, <1>3 DEF RequestType
<1>9. Sound(req'[r], store', used', accounts', gone')
    <2>1. told[b] \in UserIDs => BoundTo(store, used, jar[b], told[b])
        BY DEF SessionsInv, BrowsersOK
    <2> HIDE DEF R
    <2>2. /\ req'[r].cookie = jar[b] /\ req'[r].stage = "sent" /\ req'[r].user = NoUser
          /\ req'[r].who = NoUser /\ req'[r].set = NoCookie /\ req'[r].says = NoUser
          /\ req'[r].told = IF kind = "other" THEN told[b] ELSE NoUser
          /\ req'[r].gone = IF kind = "other" THEN gone ELSE {}
        BY <1>2
    <2> QED
        BY <1>1, <1>3, <2>1, <2>2, SessionsAssumption DEF Sound, data
<1>10. \A q \in Requests \ {r} : req'[q] # NoRequest /\ q \notin R => req'[q] = req[q]
    BY <1>2
<1>11. ASSUME NEW q \in R
       PROVE  /\ req'[q] \in RequestType /\ req'[q].contested
              /\ \A f \in Fields \ {"contested"} : req'[q][f] = req[q][f]
    <2>1. q \in Requests \ {r} /\ req[q] \in RequestType
        BY <1>1, <1>4, RequestFacts DEF Signs
    <2>2. req'[q] = [req[q] EXCEPT !.contested = TRUE]
        BY <1>2, <2>1
    <2> QED
        BY <2>1, <2>2 DEF RequestType, Fields
<1>12. RequestsOK'
    <2>1. ASSUME NEW q \in Requests \ {r}, req'[q] # NoRequest
          PROVE  req'[q] \in RequestType /\ Sound(req'[q], store', used', accounts', gone')
        <3>1. CASE q \in R
            <4>1. Sound(req[q], store, used, accounts, gone)
                BY <1>4, <3>1, RequestFacts DEF Signs
            <4> QED
                BY <1>1, <1>11, <3>1, <4>1 DEF Sound, Fields, data
        <3>2. CASE q \notin R
            BY <1>1, <1>10, <2>1, <3>2, RequestFacts DEF data
        <3> QED
            BY <3>1, <3>2
    <2> QED
        BY <1>2, <1>8, <1>9, <2>1 DEF RequestsOK
<1>13. req'[r].b = b /\ req'[r].kind = kind /\ req'[r].cookie = jar[b] /\ req'[r].contested = (R # {})
    BY <1>2
<1> HIDE DEF R
<1>14. ASSUME NEW q \in Requests \ {r}, Signs(q)'
       PROVE  /\ Signs(q) /\ req'[q].b = req[q].b /\ req'[q].cookie = req[q].cookie
              /\ req[q].contested => req'[q].contested
              /\ q \in R => req'[q].contested
    <2>1. CASE q \in R
        BY <1>4, <1>11, <2>1 DEF Fields
    <2>2. CASE q \notin R
        BY <1>10, <1>14, <2>2 DEF Signs
    <2> QED
        BY <2>1, <2>2
<1>15. RivalsOK'
    <2>1. ASSUME NEW q \in Requests, Signs(q)'
          PROVE  told'[req'[q].b] = NoUser
        <3>1. CASE q = r
            BY <1>1, <1>13, <2>1, <3>1 DEF Signs, SessionsInv, BrowsersOK
        <3>2. CASE q # r
            <4>1. told[req[q].b] = NoUser /\ req'[q].b = req[q].b
                BY <1>14, <2>1, <3>2 DEF SessionsInv, RivalsOK
            <4> QED
                BY <1>1, <4>1 DEF SessionsInv, BrowsersOK
        <3> QED
            BY <3>1, <3>2
    <2>2. ASSUME NEW q \in Requests, Signs(q)', ~req'[q].contested
          PROVE  jar'[req'[q].b] = req'[q].cookie
        <3>1. CASE q = r
            BY <1>1, <1>13, <3>1
        <3>2. CASE q # r
            BY <1>1, <1>14, <2>2, <3>2 DEF SessionsInv, RivalsOK
        <3> QED
            BY <3>1, <3>2
    <2>3. ASSUME NEW q \in Requests, NEW p \in Requests, Signs(q)', Signs(p)', q # p,
                 req'[q].b = req'[p].b
          PROVE  req'[q].contested
        <3>1. CASE q = r
            <4>1. p \in R
                BY <1>5, <1>13, <1>14, <2>3, <3>1 DEF Signs
            <4> QED
                BY <1>13, <3>1, <4>1
        <3>2. CASE p = r
            <4>1. q \in R
                BY <1>5, <1>13, <1>14, <2>3, <3>2 DEF Signs
            <4> QED
                BY <1>14, <2>3, <3>2, <4>1
        <3>3. CASE q # r /\ p # r
            BY <1>14, <2>3, <3>3 DEF SessionsInv, RivalsOK
        <3> QED
            BY <3>1, <3>2, <3>3
    <2> QED
        BY <2>1, <2>2, <2>3 DEF RivalsOK
<1> QED
    BY <1>6, <1>7, <1>12, <1>15 DEF SessionsInv

\* The end of a request, whatever its answer did to the browser.
LEMMA EndKeeps ==
    ASSUME SessionsInv, NEW r \in Requests, End(r), UNCHANGED data
    PROVE  /\ RequestsOK' /\ ~Signs(r)'
           /\ \A q \in Requests : Signs(q)' => q # r /\ Signs(q) /\ req'[q] = req[q]
<1>1. /\ DOMAIN req' = Requests /\ req'[r] = NoRequest
      /\ \A q \in Requests : q # r => req'[q] = req[q]
    BY DEF End, SessionsInv, RequestsOK
<1> QED
    BY <1>1 DEF SessionsInv, RequestsOK, Signs, data

LEMMA PanicKeeps ==
    ASSUME SessionsInv, NEW r \in Requests, Panic(r)
    PROVE  SessionsInv'
<1>1. End(r) /\ UNCHANGED data /\ UNCHANGED <<jar, told>>
    BY DEF Panic
<1>2. DataOK' /\ BrowsersOK'
    BY <1>1, Quiet, BrowsersStay DEF SessionsInv
<1>3. RivalsOK'
    BY <1>1, EndKeeps DEF SessionsInv, RivalsOK
<1> QED
    BY <1>1, <1>2, <1>3, EndKeeps DEF SessionsInv

\* Only the answer of a request without rivals tells the browser something, and then the cookie
\* of the browser is the one that the request was sent with or the one in the answer.
LEMMA ReplyKeeps ==
    ASSUME SessionsInv, NEW r \in Requests, Reply(r)
    PROVE  SessionsInv'
<1> DEFINE q == req[r]
<1>1. /\ q # NoRequest /\ End(r) /\ UNCHANGED data
      /\ jar' = IF q.set = NoCookie THEN jar ELSE [jar EXCEPT ![q.b] = q.set]
      /\ told' = IF q.contested \/ q.says = NoUser THEN told ELSE [told EXCEPT ![q.b] = q.says]
    BY DEF Reply, At
<1>2. q \in RequestType /\ Sound(q, store, used, accounts, gone)
    BY <1>1, RequestFacts
<1>3. q.b \in Browsers /\ q.says \in UserIDs \cup {NoUser, SignedOut} /\ q.contested \in BOOLEAN
    BY <1>2 DEF RequestType
<1>4. /\ q.set \in used \cup {NoCookie}
      /\ q.says \in UserIDs => BoundTo(store, used, IF q.set = NoCookie THEN q.cookie ELSE q.set, q.says)
      /\ q.set # NoCookie => q.says \in UserIDs /\ Signs(r)
      /\ q.says # NoUser => Signs(r)
    BY <1>1, <1>2, SessionsAssumption DEF Sound, Signs
<1>5. /\ Signs(r) => told[q.b] = NoUser
      /\ Signs(r) /\ ~q.contested => jar[q.b] = q.cookie
      /\ \A p \in Requests : Signs(r) /\ Signs(p) /\ p # r /\ req[p].b = q.b =>
            q.contested /\ req[p].contested
    BY DEF SessionsInv, RivalsOK
<1> HIDE DEF q
<1>6. jar \in [Browsers -> used \cup {NoCookie}] /\ told \in [Browsers -> UserIDs \cup {NoUser, SignedOut}]
    BY DEF SessionsInv, BrowsersOK
<1>7. /\ jar' \in [Browsers -> used \cup {NoCookie}] /\ told' \in [Browsers -> UserIDs \cup {NoUser, SignedOut}]
      /\ \A b \in Browsers : b # q.b => jar'[b] = jar[b] /\ told'[b] = told[b]
      /\ jar'[q.b] = IF q.set = NoCookie THEN jar[q.b] ELSE q.set
      /\ told'[q.b] = IF q.contested \/ q.says = NoUser THEN told[q.b] ELSE q.says
    BY <1>1, <1>3, <1>4, <1>6
<1>8. BrowsersOK'
    <2>1. ASSUME NEW b \in Browsers, told'[b] \in UserIDs
          PROVE  BoundTo(store, used, jar'[b], told'[b])
        <3>1. CASE b # q.b
            BY <1>7, <2>1, <3>1 DEF SessionsInv, BrowsersOK
        <3>2. CASE b = q.b /\ (q.contested \/ q.says = NoUser)
            <4>1. told[b] \in UserIDs /\ told'[b] = told[b]
                BY <1>7, <2>1, <3>2
            <4>2. q.set = NoCookie
                BY <1>4, <1>5, <3>2, <4>1, SessionsAssumption
            <4> QED
                BY <1>7, <3>2, <4>1, <4>2 DEF SessionsInv, BrowsersOK
        <3>3. CASE b = q.b /\ ~(q.contested \/ q.says = NoUser)
            BY <1>4, <1>5, <1>7, <2>1, <3>3
        <3> QED
            BY <3>1, <3>2, <3>3
    <2> QED
        BY <1>1, <1>7, <2>1 DEF BrowsersOK, data
<1>9. RivalsOK'
    <2>1. \A p \in Requests : Signs(p)' => p # r /\ Signs(p) /\ req'[p] = req[p]
        BY <1>1, EndKeeps
    <2>2. ASSUME NEW p \in Requests, Signs(p)'
          PROVE  /\ told'[req'[p].b] = NoUser
                 /\ ~req'[p].contested => jar'[req'[p].b] = req'[p].cookie
        <3>1. /\ p # r /\ Signs(p) /\ req'[p] = req[p] /\ req[p].b \in Browsers
              /\ told[req[p].b] = NoUser
              /\ ~req[p].contested => jar[req[p].b] = req[p].cookie
            BY <2>1, <2>2, RequestFacts DEF SessionsInv, RivalsOK, Signs, RequestType
        <3>2. CASE req[p].b # q.b
            BY <1>7, <3>1, <3>2
        <3>3. CASE req[p].b = q.b /\ Signs(r)
            <4>1. q.contested /\ req[p].contested
                BY <1>5, <3>1, <3>3
            <4> QED
                BY <1>7, <3>1, <3>3, <4>1
        <3>4. CASE req[p].b = q.b /\ ~Signs(r)
            BY <1>4, <1>7, <3>1, <3>4
        <3> QED
            BY <3>2, <3>3, <3>4
    <2> QED
        BY <2>1, <2>2 DEF SessionsInv, RivalsOK
<1> QED
    BY <1>1, <1>8, <1>9, Quiet, EndKeeps DEF SessionsInv

\* What others do leaves every session with whom it was.
LEMMA OthersKeep ==
    ASSUME SessionsInv, Expire \/ DeleteUser
    PROVE  SessionsInv'
<1>1. DataOK' /\ Grows
    BY DEF SessionsInv, DataOK, Grows, Expire, DeleteUser
<1>2. UNCHANGED req /\ UNCHANGED <<jar, told>>
    BY DEF Expire, DeleteUser
<1>3. RequestsOK'
    BY <1>1, <1>2, SoundStays DEF SessionsInv, RequestsOK, Grows
<1>4. RivalsOK'
    BY <1>2 DEF SessionsInv, RivalsOK, Signs
<1> QED
    BY <1>1, <1>2, <1>3, <1>4, BrowsersStay DEF SessionsInv

-----------------------------------------------------------------------------
LEMMA Initially == SessionsInit => SessionsInv
BY SessionsAssumption
   DEF SessionsInit, SessionsInv, DataOK, BrowsersOK, RequestsOK, RivalsOK, Signs

LEMMA Step == SessionsInv /\ [SessionsNext]_sessionVars => SessionsInv'
<1> SUFFICES ASSUME SessionsInv, [SessionsNext]_sessionVars PROVE SessionsInv'
    OBVIOUS
<1>1. CASE UNCHANGED sessionVars
    BY <1>1 DEF sessionVars, SessionsInv, DataOK, BrowsersOK, RequestsOK, RivalsOK, Signs
<1>2. ASSUME NEW r \in Requests, NEW b \in Browsers, NEW kind \in Kinds,
             NEW uid \in UserIDs \cup {NoUser}, Send(r, b, kind, uid)
      PROVE  SessionsInv'
    BY <1>2, SendKeeps
<1>3. ASSUME NEW r \in Requests, LogRequest(r) \/ ServeHTTP(r) \/ Handle(r)
      PROVE  SessionsInv'
    BY <1>3, LogRequestKeeps, ServeHTTPKeeps, HandleKeeps
<1>4. ASSUME NEW r \in Requests, FindUser(r) \/ CheckActive(r) \/ FindOrCreateSession(r)
      PROVE  SessionsInv'
    BY <1>4, FindUserKeeps, CheckActiveKeeps, FindOrCreateSessionKeeps
<1>5. ASSUME NEW r \in Requests, HandleUserCreate(r) \/ NewSession(r)
      PROVE  SessionsInv'
    BY <1>5, HandleUserCreateKeeps, NewSessionKeeps
<1>6. ASSUME NEW r \in Requests, DeleteSessionByRequest(r) \/ DeleteSession(r)
      PROVE  SessionsInv'
    BY <1>6, DeleteSessionByRequestKeeps, DeleteSessionKeeps
<1>7. ASSUME NEW r \in Requests, Reply(r) \/ Panic(r)
      PROVE  SessionsInv'
    BY <1>7, ReplyKeeps, PanicKeeps
<1> QED
    BY <1>1, <1>2, <1>3, <1>4, <1>5, <1>6, <1>7, OthersKeep DEF SessionsNext

LEMMA Always == SessionsSpec => []SessionsInv
BY Initially, Step, PTL DEF SessionsSpec

\* The tables, the cookies and the requests of package sessions and its callers keep their types,
\* and a stored session always belongs to a user who has had an account.
THEOREM SessionsTypesHold == SessionsSpec => []SessionsTypeOK
BY Always, TypesFollow, PTL

\* A browser that was told it is signed in as a user acts for that user or for nobody, however
\* many requests overlap, fail or are answered late: a session never changes hands.
THEOREM ActsAsToldHolds == SessionsSpec => []ActsAsTold
<1>1. SessionsInv => ActsAsTold
    BY DEF SessionsInv, RequestsOK, Sound, ActsAsTold
<1> QED
    BY <1>1, Always, PTL

\* No request that was sent after an account was deleted acts for it (RequestUser).
THEOREM DeletedNeverActsHolds == SessionsSpec => []DeletedNeverActs
<1>1. SessionsInv => DeletedNeverActs
    BY DEF SessionsInv, RequestsOK, Sound, DeletedNeverActs
<1> QED
    BY <1>1, Always, PTL

\* The handler acts for the user that the middleware let pass, or for nobody.
THEOREM OneUserHolds == SessionsSpec => []OneUser
<1>1. SessionsInv => OneUser
    BY DEF SessionsInv, RequestsOK, Sound, OneUser
<1> QED
    BY <1>1, Always, PTL
====

-------------------------- MODULE WebHandlersProofs --------------------------
(* The requests, for every set of them and every value of the other constants. *)
EXTENDS WebHandlers, ScheduleProofs

-----------------------------------------------------------------------------
(* The handlers implement the store.                                         *)

\* Every step of a request or of a command is one operation of package event, or
\* leaves the database alone.
LEMMA WebStepIsStoreStep ==
    ASSUME WebTypeOK, [WebNext]_wvars
    PROVE  [Next]_vars
<1> USE DEF Silent
<1>0. ASSUME NEW q \in Requests, request[q] # NoRequest
      PROVE  /\ request[q] \in RequestType
             /\ At(q, "register") => request[q].verified \in BOOLEAN
             /\ At(q, "create") => request[q].cur \in UserIDs
             /\ At(q, "target") => request[q].target \in UserIDs
             /\ \A stage \in {"discussion", "edit", "slots"} :
                   At(q, stage) => /\ request[q].cur \in UserIDs
                                   /\ request[q].disc \in DiscussionIDs
    BY <1>0 DEF WebTypeOK, RequestType, Copy, CopyAnd, At
<1>1. CASE UNCHANGED wvars
    BY <1>1 DEF wvars
<1>2. CASE Command
    BY <1>2 DEF Command, Next, UserStep, TimetableStep, ScheduleStep
<1>3. ASSUME NEW q \in Requests, RequestStep(q)
      PROVE  [Next]_vars
    <2>1. CASE \/ \E u \in UserIDs : RequestUser(q, u)
               \/ Respond(q)
               \/ \E verified \in BOOLEAN : CheckCode(q, verified)
               \/ MayCreate(q)
        BY <2>1 DEF RequestUser, Respond, CheckCode, MayCreate
    <2>2. ASSUME NEW u \in UserIDs, NEW name \in Usernames,
                 HandleUserCreate(q, u, name)
          PROVE  Next
        BY <1>0, <2>2 DEF HandleUserCreate, At, Next, UserStep
    <2>3. ASSUME NEW d \in DiscussionIDs, NEW title \in Titles,
                 HandleDiscussionCreate(q, d, title)
          PROVE  Next
        BY <1>0, <2>3 DEF HandleDiscussionCreate, At, Next, DiscussionStep
    <2>4. ASSUME DiscussionPost(q) PROVE [Next]_vars
        <3>1. CASE \/ \E d \in DiscussionIDs : DiscussionFindByIdFull(q, d)
                   \/ MayEdit(q)
                   \/ editFailed(q)
            BY <3>1 DEF DiscussionFindByIdFull, MayEdit, editFailed
        <3>2. ASSUME NEW n \in 0..InterestMax, setinterest(q, n) PROVE Next
            BY <1>0, <3>2 DEF setinterest, At, Next, UserStep
        <3>3. ASSUME NEW u \in UserIDs, NEW title \in Titles, edit(q, u, title)
              PROVE  Next
            BY <1>0, <3>3 DEF edit, At, Next, DiscussionStep
        <3>4. ASSUME NEW checked \in SUBSET listed, editSlots(q, checked)
              PROVE  Next
            BY <1>0, <3>4 DEF editSlots, At, Next, DiscussionStep
        <3>5. ASSUME delete(q) PROVE Next
            BY <1>0, <3>5 DEF delete, At, Next, DiscussionStep
        <3>6. ASSUME NEW public \in BOOLEAN, setpublic(q, public) PROVE Next
            BY <1>0, <3>6 DEF setpublic, At, Next, DiscussionStep
        <3> QED
            BY <2>4, <3>1, <3>2, <3>3, <3>4, <3>5, <3>6 DEF DiscussionPost
    <2>5. ASSUME UserPost(q) PROVE [Next]_vars
        <3>1. CASE \E u \in UserIDs : UserFind(q, u)
            BY <3>1 DEF UserFind
        <3>2. ASSUME NEW v \in BOOLEAN, setverified(q, v) PROVE Next
            BY <1>0, <3>2 DEF setverified, At, Next, UserStep
        <3>3. ASSUME deleteUser(q) PROVE Next
            BY <1>0, <3>3 DEF deleteUser, At, Next, UserStep
        <3> QED
            BY <2>5, <3>1, <3>2, <3>3 DEF UserPost
    <2>6. ASSUME AdminAction(q) PROVE [Next]_vars
        <3>1. CASE \E status \in BOOLEAN : setstatus(q, status)
            BY <3>1 DEF setstatus
        <3>2. CASE \E locked \in SUBSET listed : setLocked(q, locked)
            BY <3>2 DEF setLocked, Next, TimetableStep
        <3>3. CASE newLocation(q)
            BY <3>3 DEF newLocation, Next, LocationStep
        <3>4. CASE runschedule(q) \/ scheduled(q)
            BY <3>4, RequestsAssumption
            DEF runschedule, scheduled, Next, ScheduleStep
        <3> QED
            BY <2>6, <3>1, <3>2, <3>3, <3>4 DEF AdminAction
    <2> QED
        BY <1>3, <2>1, <2>2, <2>3, <2>4, <2>5, <2>6 DEF RequestStep
<1> QED
    BY <1>1, <1>2, <1>3 DEF WebNext

-----------------------------------------------------------------------------
(* What a request holds.                                                     *)

\* A request that goes on to the edit had the right to, by its copies of the user
\* and of the discussion.
EditAllowed(r) == (r # NoRequest /\ r.stage = "edit") => MayEditDiscussion(r)

HeldOK(r) == r \in RequestType \cup {NoRequest} /\ EditAllowed(r)

RequestsOK == \A q \in Requests : HeldOK(request[q])

\* A request that goes to its next stage keeps what it holds.
LEMMA GoOnHeld ==
    ASSUME WebTypeOK, NEW q \in Requests, NEW from, NEW to, At(q, from), GoOn(q, to),
           \/ from = "begun" /\ to \in {"create", "schedule"}
           \/ from = "discussion" /\ to = "edit" /\ MayEditDiscussion(request[q])
           \/ from = "edit" /\ to = "slots"
    PROVE  HeldOK(request'[q])
<1>1. request'[q] = [request[q] EXCEPT !.stage = to]
    BY DEF GoOn, WebTypeOK
<1>2. request[q] \in RequestType /\ request[q].stage = from
    BY DEF At, WebTypeOK
<1>3. CASE from = "begun"
    <2>1. request[q] \in Copy("begun")
        BY <1>2, <1>3 DEF RequestType, Copy, CopyAnd
    <2>2. request'[q] \in Copy(to) /\ request'[q].stage = to
        BY <1>1, <2>1 DEF Copy
    <2>3. Copy(to) \subseteq RequestType
        BY <1>3 DEF RequestType
    <2> QED
        BY <1>3, <2>2, <2>3 DEF HeldOK, EditAllowed
<1>4. CASE from \in {"discussion", "edit"}
    <2>1. request[q] \in CopyAnd(from)
        BY <1>2, <1>4 DEF RequestType, Copy, CopyAnd
    <2>2. /\ request'[q] \in CopyAnd(to) /\ request'[q].stage = to
          /\ request'[q].user = request[q].user
          /\ request'[q].cur = request[q].cur
          /\ request'[q].owner = request[q].owner
        BY <1>1, <2>1 DEF CopyAnd
    <2>3. CopyAnd(to) \subseteq RequestType
        BY <1>4 DEF RequestType
    <2> QED
        BY <1>4, <2>2, <2>3 DEF HeldOK, EditAllowed, MayEditDiscussion
<1> QED
    BY <1>3, <1>4

\* Every step of a request leaves it with a record of its stage, and the other
\* requests with theirs.
LEMMA RequestStepHeld ==
    ASSUME WebTypeOK, NEW q \in Requests, RequestStep(q)
    PROVE  /\ HeldOK(request'[q])
           /\ request' = [request EXCEPT ![q] = request'[q]]
<1> DEFINE Held == /\ HeldOK(request'[q])
                   /\ request' = [request EXCEPT ![q] = request'[q]]
<1>0. request \in [Requests -> RequestType \cup {NoRequest}]
    BY DEF WebTypeOK
<1>1. ASSUME End(q) PROVE Held
    BY <1>0, <1>1 DEF End, HeldOK, EditAllowed
<1>2. ASSUME NEW stage, GoOn(q, stage)
      PROVE  request' = [request EXCEPT ![q] = request'[q]]
    BY <1>0, <1>2 DEF GoOn
<1>3. ASSUME NEW r \in RequestType, r.stage # "edit",
             request' = [request EXCEPT ![q] = r]
      PROVE  Held
    BY <1>0, <1>3 DEF HeldOK, EditAllowed
<1>4. ASSUME NEW stage, GoOn(q, stage), HeldOK(request'[q])
      PROVE  Held
    BY <1>0, <1>2, <1>4
<1>5. ASSUME At(q, "begun")
      PROVE  request[q].cur \in UserIDs /\ request[q].user \in UserRow
    BY <1>0, <1>5 DEF At, RequestType, Copy, CopyAnd
<1> SUFFICES Held
    OBVIOUS
<1> HIDE DEF Held
<1>6. ASSUME NEW u \in UserIDs, RequestUser(q, u) PROVE Held
    <2> DEFINE r == [stage |-> "begun", cur |-> u, user |-> event_users[u]]
    <2>1. event_users[u] \in UserRow
        BY <1>6 DEF RequestUser, WebTypeOK, TypeOK, DBTypeOK, IsTable
    <2>2. r \in Copy("begun") /\ r.stage # "edit"
        BY <2>1 DEF Copy
    <2>3. r \in RequestType
        BY <2>2 DEF RequestType
    <2>4. request' = [request EXCEPT ![q] = r]
        BY <1>6 DEF RequestUser
    <2> HIDE DEF r
    <2> QED
        BY <1>3, <2>2, <2>3, <2>4
<1>7. ASSUME NEW verified \in BOOLEAN, CheckCode(q, verified) PROVE Held
    <2> DEFINE r == [stage |-> "register", verified |-> verified]
    <2>1. r \in RequestType /\ r.stage # "edit"
        BY DEF RequestType
    <2>2. request' = [request EXCEPT ![q] = r]
        BY <1>7 DEF CheckCode
    <2> HIDE DEF r
    <2> QED
        BY <1>3, <2>1, <2>2
<1>8. ASSUME NEW d \in DiscussionIDs, DiscussionFindByIdFull(q, d) PROVE Held
    <2> DEFINE r == [stage |-> "discussion", cur |-> request[q].cur,
                     user |-> request[q].user, disc |-> d,
                     owner |-> event_discussions[d].owner]
    <2>1. event_discussions[d].owner \in UserIDs
        BY <1>8 DEF DiscussionFindByIdFull, WebTypeOK, TypeOK, DBTypeOK, IsTable,
                    DiscussionRow
    <2>2. r \in CopyAnd("discussion") /\ r.stage # "edit"
        BY <1>5, <1>8, <2>1 DEF DiscussionFindByIdFull, CopyAnd
    <2>3. r \in RequestType
        BY <2>2 DEF RequestType
    <2>4. request' = [request EXCEPT ![q] = r]
        BY <1>0, <1>8 DEF DiscussionFindByIdFull
    <2> HIDE DEF r
    <2> QED
        BY <1>3, <2>2, <2>3, <2>4
<1>9. ASSUME NEW u \in UserIDs, UserFind(q, u) PROVE Held
    <2> DEFINE r == [stage |-> "target", cur |-> request[q].cur,
                     user |-> request[q].user, target |-> u]
    <2>1. r \in RequestType /\ r.stage # "edit"
        BY <1>5, <1>9 DEF UserFind, RequestType
    <2>2. request' = [request EXCEPT ![q] = r]
        BY <1>0, <1>9 DEF UserFind
    <2> HIDE DEF r
    <2> QED
        BY <1>3, <2>1, <2>2
<1>10. CASE MayCreate(q)
    <2>1. At(q, "begun") /\ GoOn(q, "create")
        BY <1>10 DEF MayCreate
    <2>2. HeldOK(request'[q])
        BY <2>1, GoOnHeld
    <2> QED
        BY <1>4, <2>1, <2>2
<1>11. CASE MayEdit(q)
    <2>1. /\ At(q, "discussion") /\ GoOn(q, "edit")
          /\ MayEditDiscussion(request[q])
        BY <1>11 DEF MayEdit
    <2>2. HeldOK(request'[q])
        BY <2>1, GoOnHeld
    <2> QED
        BY <1>4, <2>1, <2>2
<1>12. CASE runschedule(q)
    <2>1. At(q, "begun") /\ GoOn(q, "schedule")
        BY <1>12 DEF runschedule
    <2>2. HeldOK(request'[q])
        BY <2>1, GoOnHeld
    <2> QED
        BY <1>4, <2>1, <2>2
<1>13. ASSUME At(q, "edit"), GoOn(q, "slots") PROVE Held
    <2>1. HeldOK(request'[q])
        BY <1>13, GoOnHeld
    <2> QED
        BY <1>4, <1>13, <2>1
<1>14. CASE DiscussionPost(q)
    BY <1>1, <1>8, <1>11, <1>13, <1>14
    DEF DiscussionPost, setinterest, edit, editFailed, editSlots, delete, setpublic
<1>15. CASE UserPost(q)
    BY <1>1, <1>9, <1>15 DEF UserPost, setverified, deleteUser
<1>16. CASE AdminAction(q)
    BY <1>1, <1>12, <1>16
    DEF AdminAction, setstatus, setLocked, newLocation, scheduled
<1>17. CASE \/ Respond(q)
            \/ \E u \in UserIDs, name \in Usernames : HandleUserCreate(q, u, name)
            \/ \E d \in DiscussionIDs, title \in Titles :
                  HandleDiscussionCreate(q, d, title)
    BY <1>1, <1>17 DEF Respond, HandleUserCreate, HandleDiscussionCreate
<1> QED
    BY <1>6, <1>7, <1>10, <1>14, <1>15, <1>16, <1>17 DEF RequestStep

\* The flag is changed by setstatus only.
LEMMA FlagKept ==
    ASSUME WebTypeOK, NEW q \in Requests, RequestStep(q)
    PROVE  requireVerification' \in BOOLEAN
    BY DEF WebTypeOK, RequestStep, RequestUser, Respond, CheckCode, HandleUserCreate,
           MayCreate, HandleDiscussionCreate, DiscussionPost, DiscussionFindByIdFull,
           setinterest, MayEdit, edit, editFailed, editSlots, delete, setpublic,
           UserPost, UserFind, setverified, deleteUser, AdminAction, setstatus,
           setLocked, newLocation, runschedule, scheduled, Silent

WebInv == WebTypeOK /\ RequestsOK

\* No request is under way at first.
LEMMA InitWebInv == WebInit => WebInv
<1> SUFFICES ASSUME WebInit PROVE WebInv
    OBVIOUS
<1>1. TypeOK
    BY InitTypeOK DEF WebInit
<1> QED
    BY <1>1 DEF WebInit, WebInv, WebTypeOK, RequestsOK, HeldOK, EditAllowed

\* Each step of a request hands its copies on to the next stage.
LEMMA NextWebInv == WebInv /\ [WebNext]_wvars => WebInv'
<1> SUFFICES ASSUME WebInv, [WebNext]_wvars PROVE WebInv'
    OBVIOUS
<1>0. WebTypeOK /\ RequestsOK
    BY DEF WebInv
<1>1. TypeOK'
    BY <1>0, WebStepIsStoreStep, NextTypeOK DEF WebTypeOK
<1>2. CASE UNCHANGED <<request, requireVerification>>
    BY <1>0, <1>1, <1>2 DEF WebInv, WebTypeOK, RequestsOK
<1>3. ASSUME NEW q \in Requests, RequestStep(q) PROVE WebInv'
    <2>1. /\ HeldOK(request'[q])
          /\ request' = [request EXCEPT ![q] = request'[q]]
        BY <1>0, <1>3, RequestStepHeld
    <2>2. (request \in [Requests -> RequestType \cup {NoRequest}])'
        BY <1>0, <2>1 DEF WebTypeOK, HeldOK
    <2>3. \A p \in Requests \ {q} : request'[p] = request[p]
        BY <1>0, <2>1 DEF WebTypeOK
    <2>4. RequestsOK'
        BY <1>0, <2>1, <2>3 DEF RequestsOK
    <2>5. requireVerification' \in BOOLEAN
        BY <1>0, <1>3, FlagKept
    <2> QED
        BY <1>1, <2>2, <2>4, <2>5 DEF WebInv, WebTypeOK
<1> QED
    BY <1>2, <1>3 DEF WebNext, Command, wvars

\* Type correctness of the requests: what one keeps between two steps is always a
\* record of the stage that it is at.
THEOREM WebTypesHold == WebSpec => []WebTypeOK
<1>1. WebInv => WebTypeOK
    BY DEF WebInv
<1> QED
    BY <1>1, InitWebInv, NextWebInv, PTL DEF WebSpec

\* The web server and the commands together are an implementation of EventStore:
\* no handler does to the database what package event does not, so what is proved
\* of EventStore holds of the whole program.
THEOREM HandlersImplementStore == WebSpec => Spec
<1>1. WebInit => Init
    BY DEF WebInit
<1>2. WebInv /\ [WebNext]_wvars => [Next]_vars
    BY WebStepIsStoreStep DEF WebInv
<1> QED
    BY <1>1, <1>2, InitWebInv, NextWebInv, PTL DEF WebSpec, Spec

\* What the whole program promises about its data, however requests and commands
\* overlap: no row refers to one that is gone, no place is used twice, no day has gaps
\* between its slots, what is in locked slots and breaks stays, third parties see
\* moderated texts only, and the scheduler uses the slots that were left checked.
COROLLARY ProgramKeepsData ==
    WebSpec => /\ [](ForeignKeys /\ OnePerPlace /\ SlotsContiguous)
               /\ LockedStable /\ BreakKept /\ Moderated /\ CheckedSlotsHonoured
    BY HandlersImplementStore, ForeignKeysHold, OnePerPlaceHolds, SlotsContiguousHolds,
       LockedStableHolds, BreakKeptHolds, ModeratedHolds, CheckedSlotsHonouredHolds, PTL

-----------------------------------------------------------------------------
(* Who may publish.  A request decides on copies that may be old by the time   *)
(* it commits.  What saves the promise is that an edit by anyone who is not an *)
(* administrator writes the owner of the copy, which is the user               *)
(* (EditAllowed), and that DiscussionUpdate reads anew whether that owner is   *)
(* verified.                                                                   *)

\* The id of a discussion was handed out: a new one is another.
DiscussionsKnown == DOMAIN event_discussions \subseteq generated

PublishInv == WebInv /\ PublicIsApproved /\ DiscussionsKnown

\* The discussions after the step were there before, as they are now.
FewerOrSame ==
    /\ DOMAIN event_discussions' \subseteq DOMAIN event_discussions
    /\ \A d \in DOMAIN event_discussions' :
          event_discussions'[d] = event_discussions[d]

\* The operations that write no discussion.
LEMMA NoDiscussionWritten ==
    /\ \A D : deleteDiscussionCommon(D) => FewerOrSame
    /\ \A u : handleAdminPwd(u) => FewerOrSame
    /\ \A u, name, v : NewUser(u, name, v) => FewerOrSame
    /\ \A u, v : SetVerified(u, v) => FewerOrSame
    /\ \A u, d, n : SetInterest(u, d, n) => FewerOrSame
    /\ \A u : DeleteUser(u) => FewerOrSame
    /\ \A d : DeleteDiscussion(d) => FewerOrSame
    /\ \A d, checked : DiscussionSetPossibleSlots(d, checked) => FewerOrSame
    /\ \A t : TimetableSet(t) => FewerOrSame
    /\ \A locked : TimetableSetLockedSlots(locked) => FewerOrSame
    /\ NewLocation => FewerOrSame
    /\ \A p : makeSnapshot(p) \/ scheduleSet(p) \/ scheduleFail(p) => FewerOrSame
    /\ UNCHANGED vars => FewerOrSame
<1> USE DEF FewerOrSame, personTables, dbVars
<1>1. \A D : deleteDiscussionCommon(D) => FewerOrSame
    BY DEF deleteDiscussionCommon, Drop, Restrict
<1>2. event_discussions' = event_discussions => FewerOrSame
    OBVIOUS
<1> HIDE DEF FewerOrSame
<1>3. /\ \A u : handleAdminPwd(u) => FewerOrSame
      /\ \A u, name, v : NewUser(u, name, v) => FewerOrSame
      /\ \A u, v : SetVerified(u, v) => FewerOrSame
      /\ \A u, d, n : SetInterest(u, d, n) => FewerOrSame
    BY <1>2 DEF handleAdminPwd, NewUser, InsertUser, SetVerified, SetInterest
<1>4. /\ \A u : DeleteUser(u) => FewerOrSame
      /\ \A d : DeleteDiscussion(d) => FewerOrSame
    BY <1>1 DEF DeleteUser, DeleteDiscussion
<1>5. /\ \A d, checked : DiscussionSetPossibleSlots(d, checked) => FewerOrSame
      /\ \A t : TimetableSet(t) => FewerOrSame
      /\ \A locked : TimetableSetLockedSlots(locked) => FewerOrSame
      /\ NewLocation => FewerOrSame
    BY <1>2 DEF DiscussionSetPossibleSlots, TimetableSet, TimetableSetLockedSlots,
                NewLocation
<1>6. /\ \A p : makeSnapshot(p) \/ scheduleSet(p) \/ scheduleFail(p) => FewerOrSame
      /\ UNCHANGED vars => FewerOrSame
    BY <1>2 DEF makeSnapshot, scheduleSet, scheduleFail, vars
<1> QED
    BY <1>1, <1>3, <1>4, <1>5, <1>6

\* There are no discussions at first.
LEMMA InitDiscussionsKnown == Init => DiscussionsKnown
    BY DEF Init, DBInit, EmptyTable, DiscussionsKnown

\* Only NewDiscussion adds one, whose id is generated then.
LEMMA NextDiscussionsKnown ==
    TypeOK /\ DiscussionsKnown /\ [Next]_vars => DiscussionsKnown'
<1> SUFFICES ASSUME TypeOK, DiscussionsKnown, [Next]_vars PROVE DiscussionsKnown'
    OBVIOUS
<1> USE DEF personTables, timeTables, placeTables, dbVars
<1>1. generated \subseteq generated'
    BY DEF Next, UserStep, NewUser, handleAdminPwd, InsertUser, SetVerified,
           SetInterest, DeleteUser, DiscussionStep, NewDiscussion, DiscussionUpdate,
           DiscussionSetPublic, DiscussionSetPossibleSlots, DeleteDiscussion,
           TimetableStep, TimetableSet, TimetableSetLockedSlots, NewDay, DeleteDay,
           LocationStep, NewLocation, DeleteLocation, ScheduleStep, makeSnapshot,
           scheduleSet, scheduleFail, vars
<1>2. CASE FewerOrSame
    BY <1>1, <1>2 DEF FewerOrSame, DiscussionsKnown
<1>3. CASE \E d \in DiscussionIDs, u \in UserIDs, title \in Titles :
              NewDiscussion(d, u, title)
    BY <1>3 DEF NewDiscussion, Put, DiscussionsKnown
<1>4. ASSUME DOMAIN event_discussions' = DOMAIN event_discussions
      PROVE  DiscussionsKnown'
    BY <1>1, <1>4 DEF DiscussionsKnown
<1>5. CASE DiscussionStep
    BY <1>2, <1>3, <1>4, <1>5, NoDiscussionWritten
    DEF DiscussionStep, DiscussionUpdate, DiscussionSetPublic
<1>6. CASE UserStep
    BY <1>2, <1>6, NoDiscussionWritten DEF UserStep
<1>7. CASE TimetableStep \/ LocationStep \/ ScheduleStep \/ UNCHANGED vars
    BY <1>2, <1>4, <1>7, NoDiscussionWritten
    DEF TimetableStep, LocationStep, ScheduleStep, NewDay, DeleteDay, DeleteLocation
<1> QED
    BY <1>5, <1>6, <1>7 DEF Next

TrustedStep ==
    \A d \in DOMAIN event_discussions' :
       LET seen == IF d \in DOMAIN event_discussions THEN ThirdPartyView(d)
                                                     ELSE NoTitle
       IN  ThirdPartyView(d)' # seen =>
              \E q \in Requests :
                 /\ Acting(q)
                 /\ \/ request[q].user.isadmin
                    \/ event_users[request[q].cur].isverified

\* What is not written is seen as before.
LEMMA FewerOrSameTrusted == FewerOrSame => TrustedStep
    BY DEF FewerOrSame, TrustedStep, ThirdPartyView

\* A step that writes one discussion, d, and shows what was not seen only when its
\* request is trusted.
LEMMA OneWrittenTrusted ==
    ASSUME NEW d, NEW q \in Requests,
           \A x \in DOMAIN event_discussions' \ {d} :
               /\ x \in DOMAIN event_discussions
               /\ event_discussions'[x] = event_discussions[x],
           Acting(q),
           \/ request[q].user.isadmin
           \/ event_users[request[q].cur].isverified
           \/ ThirdPartyView(d)' = IF d \in DOMAIN event_discussions
                                   THEN ThirdPartyView(d) ELSE NoTitle
    PROVE  TrustedStep
    BY DEF TrustedStep, ThirdPartyView

\* The request that makes a step with End or GoOn is the acting one.
LEMMA EndActs ==
    ASSUME WebTypeOK, NEW q \in Requests, NEW from, At(q, from),
           End(q) \/ (from = "edit" /\ GoOn(q, "slots"))
    PROVE  Acting(q)
<1>1. request \in [Requests -> RequestType \cup {NoRequest}]
    BY DEF WebTypeOK
<1>2. CASE End(q)
    BY <1>1, <1>2 DEF End, At, Acting
<1>3. CASE from = "edit" /\ GoOn(q, "slots")
    <2>1. request'[q] = [request[q] EXCEPT !.stage = "slots"]
        BY <1>1, <1>3 DEF GoOn
    <2>2. request[q] \in CopyAnd("edit") /\ request[q].stage = "edit"
        BY <1>1, <1>3 DEF At, RequestType, Copy, CopyAnd
    <2>3. request'[q].stage = "slots"
        BY <2>1, <2>2 DEF CopyAnd
    <2> QED
        BY <2>2, <2>3, <1>3 DEF At, Acting
<1> QED
    BY <1>2, <1>3

\* Every step that shows something new is of a trusted request.
LEMMA NextTrusted == PublishInv /\ [WebNext]_wvars => [TrustedStep]_wvars
<1> SUFFICES ASSUME PublishInv, WebNext PROVE TrustedStep
    OBVIOUS
<1>0. /\ WebTypeOK /\ RequestsOK /\ PublicIsApproved /\ DiscussionsKnown
      /\ \A d \in DOMAIN event_discussions : event_discussions[d] \in DiscussionRow
    BY DEF PublishInv, WebInv, WebTypeOK, TypeOK, DBTypeOK, IsTable
<1>1. ASSUME FewerOrSame PROVE TrustedStep
    BY <1>1, FewerOrSameTrusted
<1>2. CASE Command
    BY <1>1, <1>2, NoDiscussionWritten DEF Command
<1>3. ASSUME NEW q \in Requests, NEW d \in DiscussionIDs, NEW title \in Titles,
             HandleDiscussionCreate(q, d, title)
      PROVE  TrustedStep
    <2> DEFINE cur == request[q].cur
    <2>1. At(q, "create") /\ NewDiscussion(d, cur, title) /\ End(q)
        BY <1>3 DEF HandleDiscussionCreate
    <2>2. Acting(q)
        BY <1>0, <2>1, EndActs
    <2> HIDE DEF cur
    <2>3. /\ DOMAIN event_discussions' = DOMAIN event_discussions \cup {d}
          /\ d \notin DOMAIN event_discussions
          /\ \A x \in DOMAIN event_discussions :
                event_discussions'[x] = event_discussions[x]
          /\ event_discussions'[d] =
                [owner |-> cur, title |-> title,
                 ispublic |-> event_users[cur].isverified,
                 approved |-> IF event_users[cur].isverified THEN title ELSE NoTitle]
        BY <1>0, <2>1 DEF NewDiscussion, Put, DiscussionsKnown
    <2>4. event_users[cur].isverified \/ ThirdPartyView(d)' = NoTitle
        BY <2>3 DEF ThirdPartyView
    <2> USE DEF cur
    <2> QED
        BY <2>2, <2>3, <2>4, OneWrittenTrusted
<1>4. ASSUME NEW q \in Requests, NEW u \in UserIDs, NEW title \in Titles,
             edit(q, u, title)
      PROVE  TrustedStep
    <2>0. PICK r, d : r = request[q] /\ d = request[q].disc
        OBVIOUS
    <2>1. /\ At(q, "edit")
          /\ r.user.isadmin \/ u = r.owner
          /\ DiscussionUpdate(d, u, title)
          /\ End(q) \/ GoOn(q, "slots")
        BY <1>4, <2>0 DEF edit
    <2>2. Acting(q)
        BY <1>0, <2>1, EndActs
    <2>3. r.user.isadmin \/ u = r.cur
        BY <1>0, <2>0, <2>1 DEF RequestsOK, HeldOK, EditAllowed, MayEditDiscussion, At
    <2>4. /\ d \in DOMAIN event_discussions
          /\ DOMAIN event_discussions' = DOMAIN event_discussions
          /\ \A x \in DOMAIN event_discussions \ {d} :
                event_discussions'[x] = event_discussions[x]
          /\ event_discussions'[d] =
                [owner |-> u, title |-> title,
                 ispublic |-> event_users[u].isverified,
                 approved |-> IF event_users[u].isverified
                              THEN title ELSE event_discussions[d].approved]
        BY <2>1 DEF DiscussionUpdate, ownerIsVerified
    <2>5. event_users[u].isverified \/ ThirdPartyView(d)' = ThirdPartyView(d)
        BY <1>0, <2>4 DEF ThirdPartyView, PublicIsApproved
    <2> QED
        BY <2>0, <2>2, <2>3, <2>4, <2>5, OneWrittenTrusted
<1>5. ASSUME NEW q \in Requests, NEW public \in BOOLEAN, setpublic(q, public)
      PROVE  TrustedStep
    <2> DEFINE d == request[q].disc
    <2>1. /\ At(q, "discussion") /\ request[q].user.isadmin /\ End(q)
          /\ DiscussionSetPublic(d, public)
        BY <1>5 DEF setpublic
    <2>2. Acting(q)
        BY <1>0, <2>1, EndActs
    <2> HIDE DEF d
    <2>3. \A x \in DOMAIN event_discussions' \ {d} :
             /\ x \in DOMAIN event_discussions
             /\ event_discussions'[x] = event_discussions[x]
        BY <2>1 DEF DiscussionSetPublic
    <2> QED
        BY <2>1, <2>2, <2>3, OneWrittenTrusted
<1>6. ASSUME NEW q \in Requests, DiscussionPost(q) PROVE TrustedStep
    BY <1>1, <1>4, <1>5, <1>6, NoDiscussionWritten
    DEF DiscussionPost, DiscussionFindByIdFull, setinterest, MayEdit, editFailed,
        editSlots, delete, Silent
<1>7. ASSUME NEW q \in Requests, UserPost(q) \/ AdminAction(q) PROVE TrustedStep
    BY <1>1, <1>7, NoDiscussionWritten
    DEF UserPost, UserFind, setverified, deleteUser, AdminAction, setstatus,
        setLocked, newLocation, runschedule, scheduled, Silent
<1>8. ASSUME NEW q \in Requests, RequestStep(q) PROVE TrustedStep
    BY <1>1, <1>3, <1>6, <1>7, <1>8, NoDiscussionWritten
    DEF RequestStep, RequestUser, Respond, CheckCode, HandleUserCreate, MayCreate,
        Silent
<1> QED
    BY <1>2, <1>8 DEF WebNext

\* What third parties see of a discussion changes only by a request of an
\* administrator or of a user who is verified at that moment, for any number of
\* requests and whatever happens between the steps of one.
THEOREM OnlyTrustedPublishHolds == WebSpec => OnlyTrustedPublish
<1>1. WebInit => PublishInv
    BY InitWebInv, InitPublicIsApproved, InitDiscussionsKnown DEF PublishInv, WebInit
<1>2. PublishInv /\ [WebNext]_wvars => PublishInv'
    <2> SUFFICES ASSUME PublishInv, [WebNext]_wvars PROVE PublishInv'
        OBVIOUS
    <2>1. WebTypeOK /\ TypeOK
        BY DEF PublishInv, WebInv, WebTypeOK
    <2>2. [Next]_vars
        BY <2>1, WebStepIsStoreStep
    <2> QED
        BY <2>1, <2>2, NextWebInv, NextModerated, NextDiscussionsKnown DEF PublishInv
<1> QED
    BY <1>1, <1>2, NextTrusted, PTL DEF WebSpec, OnlyTrustedPublish, TrustedStep
=============================================================================

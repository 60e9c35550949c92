----------------------------- MODULE WebHandlers -----------------------------
(* The requests that change the database: handle_discussion.go, handle_user.go *)
(* and handle_admin.go.  A request reads the account of its user, then what it *)
(* is about, then decides, then calls package event.  Each of these is a step, *)
(* so any other request or process can come in between: what a request knows   *)
(* of the user and of the discussion is a copy.                                *)
EXTENDS EventStore

CONSTANTS Requests, NoRequest

\* "runschedule" makes the request a scheduler; the other ones are the processes
\* of the schedule command.
ASSUME RequestsAssumption == Requests \subseteq Schedulers

VARIABLES request, requireVerification

wvars == <<vars, request, requireVerification>>

-----------------------------------------------------------------------------
(* What a request holds, by the stage it is at.                             *)

Copy(stage) == [stage : {stage}, cur : UserIDs, user : UserRow]
CopyAnd(stage) == [stage : {stage}, cur : UserIDs, user : UserRow,
                   disc : DiscussionIDs, owner : UserIDs]
RequestType ==
    UNION {Copy("begun"), Copy("create"), Copy("schedule"),
           CopyAnd("discussion"), CopyAnd("edit"), CopyAnd("slots"),
           [stage : {"target"}, cur : UserIDs, user : UserRow, target : UserIDs],
           [stage : {"register"}, verified : BOOLEAN]}

WebTypeOK ==
    /\ TypeOK
    /\ request \in [Requests -> RequestType \cup {NoRequest}]
    /\ requireVerification \in BOOLEAN

At(q, stage) == request[q] # NoRequest /\ request[q].stage = stage
GoOn(q, stage) == request' = [request EXCEPT ![q].stage = stage]
End(q) == request' = [request EXCEPT ![q] = NoRequest]
Silent == UNCHANGED <<vars, requireVerification>>

\* Mutant: the owner is not compared.
MayEditAnything(r) == TRUE

MayEditDiscussion(r) == r.user.isadmin \/ r.cur = r.owner
MayEditUser(r, u) == r.user.isadmin \/ r.cur = u
IsVerified(r) == r.user.isverified \/ r.user.isadmin

-----------------------------------------------------------------------------
RequestUser(q, u) ==
    /\ request[q] = NoRequest
    /\ u \in DOMAIN event_users
    /\ request' = [request EXCEPT ![q] = [stage |-> "begun", cur |-> u,
                                          user |-> event_users[u]]]
    /\ Silent

\* Any error on the way, and the requests that change nothing.
Respond(q) ==
    /\ request[q] # NoRequest /\ ~At(q, "schedule")
    /\ End(q)
    /\ Silent

\* What a request gets when it reads the flag: GetBoolDef returns false on any error.
GetBoolDef == {requireVerification, FALSE}

\* HandleUserCreate: the verification code first, then the account.
CheckCode(q, verified) == \E required \in GetBoolDef :
    /\ request[q] = NoRequest
    /\ verified \/ ~required
    /\ request' = [request EXCEPT ![q] = [stage |-> "register",
                                          verified |-> verified]]
    /\ Silent

HandleUserCreate(q, u, name) ==
    /\ At(q, "register")
    /\ NewUser(u, name, request[q].verified)
    /\ End(q)
    /\ UNCHANGED requireVerification

\* A mutant: the request goes on to the wrong form.
MayCreateAsEdit(q) == \E required \in GetBoolDef :
    /\ At(q, "begun")
    /\ required => IsVerified(request[q])
    /\ GoOn(q, "edit")
    /\ Silent

\* "Unverified accounts can't create or edit sessions"
MayCreate(q) == \E required \in GetBoolDef :
    /\ At(q, "begun")
    /\ required => IsVerified(request[q])
    /\ GoOn(q, "create")
    /\ Silent

HandleDiscussionCreate(q, d, title) ==
    /\ At(q, "create")
    /\ NewDiscussion(d, request[q].cur, title)
    /\ End(q)
    /\ UNCHANGED requireVerification

-----------------------------------------------------------------------------
(* HandleUidPost, on a discussion.                                          *)

DiscussionFindByIdFull(q, d) ==
    /\ At(q, "begun")
    /\ d \in DOMAIN event_discussions
    /\ request' = [request EXCEPT ![q] =
           [stage |-> "discussion", cur |-> @.cur, user |-> @.user,
            disc |-> d, owner |-> event_discussions[d].owner]]
    /\ Silent

setinterest(q, n) ==
    /\ At(q, "discussion")
    /\ request[q].user.username # AdminUsername
    /\ SetInterest(request[q].cur, request[q].disc, n)
    /\ End(q)
    /\ UNCHANGED requireVerification

MayEdit(q) == \E required \in GetBoolDef :
    /\ At(q, "discussion")
    /\ MayEditDiscussion(request[q])
    /\ required => IsVerified(request[q])
    /\ GoOn(q, "edit")
    /\ Silent

\* Only the form of an administrator has an owner, and slots, which are a second
\* transaction.
edit(q, owner, title) ==
    /\ At(q, "edit")
    /\ request[q].user.isadmin \/ owner = request[q].owner
    /\ DiscussionUpdate(request[q].disc, owner, title)
    /\ \/ request[q].user.isadmin /\ GoOn(q, "slots")
       \/ ~request[q].user.isadmin /\ End(q)
    /\ UNCHANGED requireVerification

\* When DiscussionUpdate fails with anything but a validation error, that is logged, and the
\* request goes on to the slots.
editFailed(q) ==
    /\ At(q, "edit")
    /\ request[q].user.isadmin
    /\ GoOn(q, "slots")
    /\ Silent

editSlots(q, checked) ==
    /\ At(q, "slots")
    /\ DiscussionSetPossibleSlots(request[q].disc, checked)
    /\ End(q)
    /\ UNCHANGED requireVerification

delete(q) ==
    /\ At(q, "discussion")
    /\ MayEditDiscussion(request[q])
    /\ DeleteDiscussion(request[q].disc)
    /\ End(q)
    /\ UNCHANGED requireVerification

setpublic(q, public) ==
    /\ At(q, "discussion")
    /\ request[q].user.isadmin
    /\ DiscussionSetPublic(request[q].disc, public)
    /\ End(q)
    /\ UNCHANGED requireVerification

-----------------------------------------------------------------------------
(* HandleUidPost, on a user.  (The profile that "edit" changes is not in the *)
(* model.)                                                                   *)

UserFind(q, u) ==
    /\ At(q, "begun")
    /\ u \in DOMAIN event_users
    /\ MayEditUser(request[q], u)
    /\ request' = [request EXCEPT ![q] = [stage |-> "target", cur |-> @.cur,
                                          user |-> @.user, target |-> u]]
    /\ Silent

\* By an administrator, or (verify) by a user whose form has the verification code.
setverified(q, isverified) ==
    /\ At(q, "target")
    /\ request[q].user.isadmin \/ isverified
    /\ SetVerified(request[q].target, isverified)
    /\ End(q)
    /\ UNCHANGED requireVerification

deleteUser(q) ==
    /\ At(q, "target")
    /\ request[q].user.isadmin
    /\ DeleteUser(request[q].target)
    /\ End(q)
    /\ UNCHANGED requireVerification

-----------------------------------------------------------------------------
(* HandleAdminAction.                                                       *)

\* The other flags are in Sessions, or only change pages. An exchange that fails is not noticed
\* (Respond).
setstatus(q, status) ==
    /\ At(q, "begun") /\ request[q].user.isadmin
    /\ requireVerification' = status
    /\ End(q)
    /\ UNCHANGED vars

setLocked(q, locked) ==
    /\ At(q, "begun") /\ request[q].user.isadmin
    /\ TimetableSetLockedSlots(locked)
    /\ End(q)
    /\ UNCHANGED requireVerification

newLocation(q) ==
    /\ At(q, "begun") /\ request[q].user.isadmin
    /\ NewLocation
    /\ End(q)
    /\ UNCHANGED requireVerification

runschedule(q) ==
    /\ At(q, "begun") /\ request[q].user.isadmin
    /\ makeSnapshot(q)
    /\ GoOn(q, "schedule")
    /\ UNCHANGED requireVerification

scheduled(q) ==
    /\ At(q, "schedule")
    /\ scheduleSet(q) \/ scheduleFail(q)
    /\ End(q)
    /\ UNCHANGED requireVerification

-----------------------------------------------------------------------------
\* The start of a process, and the commands editTimetable and schedule.
Command ==
    /\ \/ \E u \in UserIDs : handleAdminPwd(u)
       \/ \E t \in Timetables : TimetableSet(t)
       \/ \E p \in Schedulers \ Requests :
             makeSnapshot(p) \/ scheduleSet(p) \/ scheduleFail(p)
    /\ UNCHANGED <<request, requireVerification>>

WebInit ==
    /\ Init
    /\ request = [q \in Requests |-> NoRequest]
    /\ requireVerification \in BOOLEAN

DiscussionPost(q) ==
    \/ \E d \in DiscussionIDs : DiscussionFindByIdFull(q, d)
    \/ \E n \in 0..InterestMax : setinterest(q, n)
    \/ MayEdit(q)
    \/ \E u \in UserIDs, title \in Titles : edit(q, u, title)
    \/ editFailed(q)
    \/ \E checked \in SUBSET listed : editSlots(q, checked)
    \/ delete(q)
    \/ \E public \in BOOLEAN : setpublic(q, public)

UserPost(q) ==
    \/ \E u \in UserIDs : UserFind(q, u)
    \/ \E v \in BOOLEAN : setverified(q, v)
    \/ deleteUser(q)

AdminAction(q) ==
    \/ \E status \in BOOLEAN : setstatus(q, status)
    \/ \E locked \in SUBSET listed : setLocked(q, locked)
    \/ newLocation(q)
    \/ runschedule(q)
    \/ scheduled(q)

RequestStep(q) ==
    \/ \E u \in UserIDs : RequestUser(q, u)
    \/ Respond(q)
    \/ \E verified \in BOOLEAN : CheckCode(q, verified)
    \/ \E u \in UserIDs, name \in Usernames : HandleUserCreate(q, u, name)
    \/ MayCreate(q)
    \/ \E d \in DiscussionIDs, title \in Titles : HandleDiscussionCreate(q, d, title)
    \/ DiscussionPost(q) \/ UserPost(q) \/ AdminAction(q)

WebNext == Command \/ \E q \in Requests : RequestStep(q)

WebSpec == WebInit /\ [][WebNext]_wvars

-----------------------------------------------------------------------------
\* The request that takes the current step.
Acting(q) == request[q] # NoRequest /\ request'[q] # request[q]

\* What third parties see of a discussion is changed only by an administrator or
\* by one whose account is verified when the change is committed, however long
\* ago the request read the discussion and the account.
OnlyTrustedPublish ==
    [][\A d \in DOMAIN event_discussions' :
          LET seen == IF d \in DOMAIN event_discussions THEN ThirdPartyView(d)
                                                        ELSE NoTitle
          IN  ThirdPartyView(d)' # seen =>
                 \E q \in Requests :
                    /\ Acting(q)
                    /\ \/ request[q].user.isadmin
                       \/ event_users[request[q].cur].isverified]_wvars

\* "Only the admin can re-assign a discussion" (discussion.go, DiscussionUpdate).
OnlyAdminReassigns ==
    [][\A d \in DOMAIN event_discussions \cap DOMAIN event_discussions' :
          event_discussions'[d].owner # event_discussions[d].owner =>
             \E q \in Requests : Acting(q) /\ request[q].user.isadmin]_wvars
=============================================================================

-------------------------------- MODULE Users --------------------------------
(* event/user.go and the admin account of event/event.go: the operations on *)
(* event_users and on event_interest.                                       *)
EXTENDS EventDB

-----------------------------------------------------------------------------
(* setInterestTx: the upsert.  The caller's guard has both rows exist, which *)
(* is what the two foreign keys of event_interest ask.                       *)
setInterestTx(interest, u, d, n) == Put(interest, <<u, d>>, n)

\* user.UserID.generate(); the insert fails on a duplicate username.
InsertUser(u, name, isadmin, isverified) ==
    /\ u \notin generated
    /\ \A v \in DOMAIN event_users : event_users[v].username # name
    /\ event_users' = Put(event_users, u,
                          [username |-> name, isadmin |-> isadmin,
                           isverified |-> isverified])
    /\ generated' = generated \cup {u}
    /\ UNCHANGED <<event_discussions, event_interest, timeTables, placeTables, plan>>

\* A registration; handle_user.go decides isverified by the verification code.
NewUser(u, name, isverified) == InsertUser(u, name, FALSE, isverified)

\* Every start of the program; with an admin account there it only resets the
\* password.
handleAdminPwd(u) == InsertUser(u, AdminUsername, TRUE, TRUE)

SetVerified(u, isverified) ==
    /\ u \in DOMAIN event_users
    /\ event_users' = [event_users EXCEPT ![u].isverified = isverified]
    /\ UNCHANGED <<event_discussions, event_interest, timeTables, placeTables,
                   generated, plan>>

\* Mutant: interest 0 is stored like any other.
SetInterestStoresZero(u, d, n) ==
    /\ n \in 0..InterestMax
    /\ u \in DOMAIN event_users
    /\ d \in DOMAIN event_discussions
    /\ event_interest' = setInterestTx(event_interest, u, d, n)
    /\ UNCHANGED <<event_users, event_discussions, timeTables, placeTables,
                   generated, plan>>

SetInterest(u, d, n) ==
    /\ n \in 0..InterestMax
    /\ \/ /\ n = 0
          /\ event_interest' = Drop(event_interest, {<<u, d>>})
       \/ /\ n > 0
          /\ u \in DOMAIN event_users
          /\ d \in DOMAIN event_discussions
          /\ event_interest' = setInterestTx(event_interest, u, d, n)
    /\ UNCHANGED <<event_users, event_discussions, timeTables, placeTables,
                   generated, plan>>

-----------------------------------------------------------------------------
\* Mutant: the schedule keeps the entries.
deleteButKeepScheduled(D) ==
    /\ event_discussions_possible_slots' =
           {p \in event_discussions_possible_slots : p[1] \notin D}
    /\ event_discussions' = Drop(event_discussions, D)
    /\ UNCHANGED event_schedule

(* discussion.go: the deletes that DeleteDiscussion and DeleteUser share, of   *)
(* the discussions in D.  The rows of event_interest go too: they are with the *)
(* two callers, one of which deletes more of them.                             *)
deleteDiscussionCommon(D) ==
    /\ event_discussions_possible_slots' =
           {p \in event_discussions_possible_slots : p[1] \notin D}
    /\ event_schedule' = {e \in event_schedule : e.discussionid \notin D}
    /\ event_discussions' = Drop(event_discussions, D)

\* The interest of u, the interest in what u owns, what u owns, and then u.
DeleteUser(u) ==
    LET owned == DiscussionsOwnedBy(u)
    IN  /\ u \in DOMAIN event_users
        /\ event_interest' =
               Drop(event_interest,
                    {p \in DOMAIN event_interest : p[1] = u \/ p[2] \in owned})
        /\ deleteDiscussionCommon(owned)
        /\ event_users' = Drop(event_users, {u})
        /\ UNCHANGED <<timeTables, generated, plan>>
=============================================================================

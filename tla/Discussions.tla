----------------------------- MODULE Discussions -----------------------------
(* event/discussion.go: proposing, editing, moderating and deleting a        *)
(* discussion, and the slots it is restricted to.                            *)
EXTENDS Users

CONSTANT maxDiscussionsPerUser

ASSUME MaxDiscussionsAssumption == maxDiscussionsPerUser \in Nat

-----------------------------------------------------------------------------
\* event_discussions.title is unique; d is the row being written.
TitleFree(d, title) ==
    \A x \in DOMAIN event_discussions \ {d} : event_discussions[x].title # title

\* A verified owner's discussion is public, and approved, as soon as it is made.
NewDiscussion(d, owner, title) ==
    /\ d \notin generated
    /\ owner \in DOMAIN event_users
    /\ \/ Cardinality(DiscussionsOwnedBy(owner)) < maxDiscussionsPerUser
       \/ event_users[owner].isadmin
    /\ TitleFree(d, title)
    /\ LET public == event_users[owner].isverified
       IN  event_discussions' =
               Put(event_discussions, d,
                   [owner |-> owner, title |-> title, ispublic |-> public,
                    approved |-> IF public THEN title ELSE NoTitle])
    /\ event_interest' = setInterestTx(event_interest, owner, d, InterestMax)
    /\ generated' = generated \cup {d}
    /\ UNCHANGED <<event_users, timeTables, placeTables, plan>>

\* Mutant: the verification of the old owner counts.
CurOwnerIsVerified(d, owner) ==
    event_users[event_discussions[d].owner].isverified

\* ownerIsVerified, of the owner that d is going to have
ownerIsVerified(d, owner) == event_users[owner].isverified

\* owner is the one in the caller's copy of the discussion: a different one is a
\* change of owner, and the new owner is made interested.
DiscussionUpdate(d, owner, title) ==
    /\ d \in DOMAIN event_discussions
    /\ owner \in DOMAIN event_users
    /\ TitleFree(d, title)
    /\ LET public == ownerIsVerified(d, owner)
       IN  event_discussions' =
               [event_discussions EXCEPT
                   ![d] = [owner |-> owner, title |-> title, ispublic |-> public,
                           approved |-> IF public THEN title ELSE @.approved]]
    /\ event_interest' = IF owner # event_discussions[d].owner
                         THEN setInterestTx(event_interest, owner, d, InterestMax)
                         ELSE event_interest
    /\ UNCHANGED <<event_users, timeTables, placeTables, generated, plan>>

DiscussionSetPublic(d, public) ==
    /\ d \in DOMAIN event_discussions
    /\ event_discussions' =
           [event_discussions EXCEPT
               ![d].ispublic = public,
               ![d].approved = IF public THEN event_discussions[d].title
                                         ELSE NoTitle]
    /\ UNCHANGED <<event_users, event_interest, timeTables, placeTables,
                   generated, plan>>

DeleteDiscussion(d) ==
    /\ d \in DOMAIN event_discussions
    /\ event_interest' = Drop(event_interest,
                              {p \in DOMAIN event_interest : p[2] = d})
    /\ deleteDiscussionCommon({d})
    /\ UNCHANGED <<event_users, timeTables, generated, plan>>

-----------------------------------------------------------------------------
(* The restriction to slots.  No row at all means no restriction.           *)

\* Mutant: the rows of the last form stay.
AllRows(d) == event_discussions_possible_slots

\* What is left after the delete from event_discussions_possible_slots.
OtherRows(d) == {p \in event_discussions_possible_slots : p[1] # d}

\* checked comes from a form.  As many boxes checked as there are slots is no
\* restriction; otherwise the insert fails on no rows, on an unknown slot and
\* on an unknown discussion.
DiscussionSetPossibleSlots(d, checked) ==
    /\ \/ /\ Cardinality(checked) >= Cardinality(NonBreakSlots)
          /\ event_discussions_possible_slots' = OtherRows(d)
       \/ /\ Cardinality(checked) < Cardinality(NonBreakSlots)
          /\ checked # {}
          /\ checked \subseteq DOMAIN event_slots
          /\ d \in DOMAIN event_discussions
          /\ event_discussions_possible_slots' = OtherRows(d) \cup ({d} \X checked)
    /\ UNCHANGED <<personTables, timeTables, event_schedule, generated, plan>>

\* The boxes that the edit form shows as checked: all of them when no row of d
\* names a slot that is listed.
possibleSlotsDBToDisplay(d) ==
    LET rows == SlotsOf(d) \cap NonBreakSlots
    IN  IF rows = {} THEN NonBreakSlots ELSE rows

=============================================================================

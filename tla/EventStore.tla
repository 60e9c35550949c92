------------------------------ MODULE EventStore ------------------------------
(* Package event: every operation on the database, by any number of requests *)
(* of the server and of other processes (the schedule and editTimetable      *)
(* commands), in any order.                                                  *)
EXTENDS Discussions, Locations, Timetable, Schedule

Init == DBInit /\ ScheduleInit

UserStep ==
    \E u \in UserIDs :
       \/ \E name \in Usernames, v \in BOOLEAN : NewUser(u, name, v)
       \/ handleAdminPwd(u)
       \/ \E v \in BOOLEAN : SetVerified(u, v)
       \/ \E d \in DiscussionIDs, n \in 0..InterestMax : SetInterest(u, d, n)
       \/ DeleteUser(u)

DiscussionStep ==
    \E d \in DiscussionIDs :
       \/ \E u \in UserIDs, title \in Titles : NewDiscussion(d, u, title)
       \/ \E u \in UserIDs, title \in Titles : DiscussionUpdate(d, u, title)
       \/ \E public \in BOOLEAN : DiscussionSetPublic(d, public)
       \/ \E checked \in SUBSET listed :
             DiscussionSetPossibleSlots(d, checked)
       \/ DeleteDiscussion(d)

TimetableStep ==
    \/ \E t \in Timetables : TimetableSet(t)
    \/ \E locked \in SUBSET listed :
          TimetableSetLockedSlots(locked)
    \/ NewDay
    \/ \E d \in DayIDs : DeleteDay(d)

LocationStep ==
    \/ NewLocation
    \/ \E l \in LocationIDs : DeleteLocation(l)

ScheduleStep ==
    \E p \in Schedulers : makeSnapshot(p) \/ scheduleSet(p) \/ scheduleFail(p)

Next ==
    UserStep \/ DiscussionStep \/ TimetableStep \/ LocationStep \/ ScheduleStep

Spec == Init /\ [][Next]_vars

-----------------------------------------------------------------------------

\* Every variable holds rows of its table, and a plan is one that was made.
TypeOK == DBTypeOK /\ ScheduleTypeOK

-----------------------------------------------------------------------------
(* What the tables say is consistent.                                       *)

DiscussionRefs ==
    \A d \in DOMAIN event_discussions :
        event_discussions[d].owner \in DOMAIN event_users
InterestRefs ==
    \A p \in DOMAIN event_interest :
        p[1] \in DOMAIN event_users /\ p[2] \in DOMAIN event_discussions
PossibleSlotRefs ==
    \A p \in event_discussions_possible_slots :
        p[1] \in DOMAIN event_discussions /\ p[2] \in DOMAIN event_slots
SlotRefs == \A s \in DOMAIN event_slots : event_slots[s].dayid \in event_days
ScheduleRefs ==
    \A e \in event_schedule : /\ e.discussionid \in DOMAIN event_discussions
                              /\ e.slotid \in DOMAIN event_slots
                              /\ e.locationid \in event_locations

\* The deletes that DeleteUser, DeleteDiscussion, TimetableSet and DeleteDay make
\* before the last one are enough: no row is left that refers to a row that is
\* gone, and none comes back with a plan that was made before the delete.
ForeignKeys ==
    DiscussionRefs /\ InterestRefs /\ PossibleSlotRefs /\ SlotRefs /\ ScheduleRefs

\* "Every day should have associated slots with a slotidx's in order and
\* contiguous, starting at 1" (event.sql): a timetable of any shape set over one
\* of any other shape leaves one slot at each position up to the day's last.
SlotsContiguous ==
    /\ \A r, s \in DOMAIN event_slots : PositionOf(r) = PositionOf(s) => r = s
    /\ \A s \in DOMAIN event_slots :
          \A j \in 1..event_slots[s].slotidx :
             \E r \in DOMAIN event_slots : PositionOf(r) = <<event_slots[s].dayid, j>>

\* Two discussions are never put in one place at one time, whatever plan is
\* written over whatever schedule (unique(slotid, locationid)).
OnePerPlace ==
    \A e, f \in event_schedule :
        (e.slotid = f.slotid /\ e.locationid = f.locationid) => e = f

-----------------------------------------------------------------------------
(* What a locked slot, a restriction and an approval promise.               *)

NoEntryTouched(s) ==
    EntriesIn(s)' = {e \in EntriesIn(s) :
                        e.discussionid \in DOMAIN event_discussions'}

LockedKept == \A s \in LockedSlots : s \in DOMAIN event_slots' /\ NoEntryTouched(s)

\* Once a slot is locked its discussions stay: a plan made while it was still
\* unlocked, or a timetable without it, does not change it.  Only deleting a
\* discussion takes it out.
LockedStable == [][LockedKept]_vars

\* The slots that an administrator leaves checked for a discussion are the ones
\* the scheduler then uses and the form then shows, when the form listed the slots
\* there are now: the scheduler counts the stored rows, the form looks for them
\* among the slots that it lists, and "all checked" is stored as no row.
CheckedSlotsHonoured ==
    [][\A d \in DOMAIN event_discussions :
       \A checked \in SUBSET NonBreakSlots :
          DiscussionSetPossibleSlots(d, checked) =>
             /\ PossibleSlots(d)' = checked \ LockedSlots
             /\ possibleSlotsDBToDisplay(d)' = checked]_vars

\* What those who are neither the owner nor an administrator see (display.go).
ThirdPartyView(d) ==
    IF event_discussions[d].ispublic THEN event_discussions[d].title
                                     ELSE event_discussions[d].approved

ModeratedStep ==
    \A d \in DOMAIN event_discussions' :
        LET seen == IF d \in DOMAIN event_discussions THEN ThirdPartyView(d)
                                                      ELSE NoTitle
            row == event_discussions'[d]
        IN  ThirdPartyView(d)' \notin {seen, NoTitle} =>
               \/ event_users'[row.owner].isverified
               \/ /\ d \in DOMAIN event_discussions
                  /\ event_discussions[d].title = row.title
                  /\ event_discussions[d].owner = row.owner

\* Third parties get to see a new text only when its owner is verified, or when
\* it had been stored before and is now approved: an edit by an unverified owner
\* never shows by itself.
Moderated == [][ModeratedStep]_vars

-----------------------------------------------------------------------------
(* Breaks, and being scheduled twice.                                       *)

\* A plan, however old, neither adds to a break nor clears it: when a timetable
\* turned a slot of the plan into a break after the snapshot, the plan is not
\* written.  As long as the slot is there, only deleting a discussion takes it out.
BreakKept ==
    [][\A s \in DOMAIN event_slots \cap DOMAIN event_slots' :
          event_slots[s].isbreak => NoEntryTouched(s)]_vars

\* Nothing is scheduled during a break.
NoEntryInBreak == \A e \in event_schedule : ~event_slots[e.slotid].isbreak

\* A discussion is held once.
ScheduledOnce ==
    \A e, f \in event_schedule : e.discussionid = f.discussionid => e = f

\* At most one run of MakeSchedule is between its two transactions.
NoOverlap ==
    \A p, q \in Schedulers : plan[p] # NoPlan /\ plan[q] # NoPlan => p = q

\* A discussion can be scheduled twice in two ways only: two runs of MakeSchedule
\* have overlapped, or a timetable has turned a slot with entries into a break.
\* Deleting, locking, restricting and adding slots between the two transactions
\* of a run never does it, and neither does a run that fails.
ScheduledOnceUnlessOverlap ==
    ([]NoOverlap /\ []NoEntryInBreak) => []ScheduledOnce

-----------------------------------------------------------------------------
(* The schedule page.                                                       *)

\* Someone interested in the discussion of e would go there rather than to another
\* one in that slot.
HasAttendees(e) ==
    \E u \in UserIDs :
        LET interest(f) == IF <<u, f.discussionid>> \in DOMAIN event_interest
                           THEN event_interest[<<u, f.discussionid>>] ELSE 0
        IN  interest(e) > 0 /\ \A f \in EntriesIn(e.slotid) : interest(f) <= interest(e)

\* GetTimetable: the entries on the schedule page, which shows the title of each
\* to everyone.  The page numbers the days from 1, leaves out breaks, and has the
\* discussions that have attendees.
GetTimetable ==
    {e \in event_schedule :
        /\ event_slots[e.slotid].dayid <= Cardinality(event_days)
        /\ ~event_slots[e.slotid].isbreak
        /\ HasAttendees(e)}

\* "Everyone else should either see 'Approved*', or nothing at all (if nothing has
\* been approved)" (discussion.go, Discussion.IsPublic): so on the schedule page.
SchedulePageApproved ==
    \A e \in GetTimetable :
        event_discussions[e.discussionid].title = ThirdPartyView(e.discussionid)

=============================================================================

---------------------------- MODULE ScheduleProofs ----------------------------
(* What the scheduler and the forms of the slots guarantee, for every set of   *)
(* ids, timetables, bounds and schedulers.                                     *)
EXTENDS TimetableProofs, FiniteSetTheorems

-----------------------------------------------------------------------------
(* The steps, by what they do to the slots and to the schedule.              *)

\* No slot changes, and rows that refer to slots are at most deleted.
Quiet ==
    /\ event_slots' = event_slots
    /\ event_discussions_possible_slots' \subseteq event_discussions_possible_slots
    /\ event_schedule' \subseteq event_schedule
    /\ plan' = plan

\* Every operation is Quiet or one of the few that write slots, rows or plans.
LEMMA StepKinds ==
    ASSUME TypeOK, [Next]_vars
    PROVE  \/ Quiet
           \/ \E t \in Timetables : TimetableSet(t)
           \/ \E d \in DayIDs : DeleteDay(d)
           \/ \E locked \in SUBSET listed : TimetableSetLockedSlots(locked)
           \/ \E d \in DiscussionIDs, checked \in SUBSET listed :
                 DiscussionSetPossibleSlots(d, checked)
           \/ \E p \in Schedulers : makeSnapshot(p) \/ scheduleSet(p) \/ scheduleFail(p)
<1> USE DEF Quiet, personTables, timeTables, placeTables, dbVars
<1>1. ASSUME NEW D, deleteDiscussionCommon(D)
      PROVE  /\ event_discussions_possible_slots'
                    \subseteq event_discussions_possible_slots
             /\ event_schedule' \subseteq event_schedule
    BY <1>1 DEF deleteDiscussionCommon
<1>2. CASE UserStep
    <2>1. Quiet
        BY <1>1, <1>2 DEF UserStep, NewUser, handleAdminPwd, InsertUser,
                          SetVerified, SetInterest, DeleteUser
    <2> QED
        BY <2>1
<1>3. CASE DiscussionStep
    BY <1>1, <1>3 DEF DiscussionStep, NewDiscussion, DiscussionUpdate,
                      DiscussionSetPublic, DeleteDiscussion
<1>4. CASE TimetableStep
    BY <1>4 DEF TimetableStep, NewDay
<1>5. CASE LocationStep
    BY <1>5 DEF LocationStep, NewLocation, DeleteLocation
<1>6. CASE ScheduleStep
    BY <1>6 DEF ScheduleStep
<1>7. CASE UNCHANGED vars
    BY <1>7 DEF vars
<1> QED
    BY <1>2, <1>3, <1>4, <1>5, <1>6, <1>7 DEF Next

-----------------------------------------------------------------------------
(* A discussion is held once.  The plan has at most one place for it, since    *)
(* the left join gave it one row; and an entry that it has when the plan is    *)
(* written was there when the plan was made (only a scheduler adds entries),   *)
(* in a slot that the plan replaces.  A second run that overlaps breaks the    *)
(* last part, and so does an entry in a break, which no plan replaces; nothing *)
(* else does.                                                                  *)

PlanOnce(pl) ==
    /\ \A e, f \in pl.entries : e.discussionid = f.discussionid => e = f
    /\ \A e \in pl.entries, f \in event_schedule :
          e.discussionid = f.discussionid => f.slotid \in pl.slots

OnceInv ==
    /\ ScheduledOnce
    /\ \A p \in Schedulers : plan[p] # NoPlan => PlanOnce(plan[p])

\* A discussion that has one entry at most has one row at most, and has it only
\* when its entry may be moved.
LEMMA SnapshotOnce ==
    ASSUME RefInv, NoEntryInBreak, ScheduledOnce, NEW p \in Schedulers,
           makeSnapshot(p)
    PROVE  PlanOnce(plan'[p])
<1>0. PICK placed \in SUBSET ssDiscussions :
         \E at \in [placed -> SchedulableSlots \X event_locations] :
            plan' = [plan EXCEPT ![p] = [slots |-> SchedulableSlots,
                                         entries |-> PlannedEntries(at)]]
    BY DEF makeSnapshot
<1>1. PICK at \in [placed -> SchedulableSlots \X event_locations] :
         plan' = [plan EXCEPT ![p] = [slots |-> SchedulableSlots,
                                      entries |-> PlannedEntries(at)]]
    BY <1>0
<1>2. plan'[p] = [slots |-> SchedulableSlots, entries |-> PlannedEntries(at)]
    BY <1>1 DEF RefInv, TypeOK, ScheduleTypeOK
<1>3. \A q, r \in ssDiscussions : q[1] = r[1] => q = r
    <2> SUFFICES ASSUME NEW q \in ssDiscussions, NEW r \in ssDiscussions, q[1] = r[1]
                 PROVE  q = r
        OBVIOUS
    <2> DEFINE Free(x) == x = <<x[1], {}>> /\ EntriesOf(x[1]) = {}
               Held(x) == \E e \in event_schedule : x = <<e.discussionid, {e}>>
    <2>1. \A x \in ssDiscussions : Free(x) \/ Held(x)
        BY DEF ssDiscussions
    <2>2. \A x : Held(x) => \E e \in EntriesOf(x[1]) : x = <<x[1], {e}>>
        BY DEF EntriesOf
    <2>3. CASE Free(q)
        BY <2>1, <2>2, <2>3
    <2>4. CASE Held(q)
        BY <2>1, <2>2, <2>4 DEF EntriesOf, ScheduledOnce
    <2> QED
        BY <2>1, <2>3, <2>4
<1>4. \A r \in ssDiscussions, f \in event_schedule :
         r[1] = f.discussionid => f.slotid \in SchedulableSlots
    <2> SUFFICES ASSUME NEW r \in ssDiscussions, NEW f \in event_schedule,
                        r[1] = f.discussionid
                 PROVE  f.slotid \in SchedulableSlots
        OBVIOUS
    <2>1. PICK e \in event_schedule : /\ ~event_slots[e.slotid].islocked
                                      /\ r[1] = e.discussionid
        BY DEF ssDiscussions, EntriesOf
    <2>2. e = f
        BY <2>1 DEF ScheduledOnce
    <2> QED
        BY <2>1, <2>2 DEF SchedulableSlots, NonBreakSlots, LockedSlots,
                          NoEntryInBreak, RefInv, ForeignKeys, ScheduleRefs
<1>5. \A e \in PlannedEntries(at) :
         \E r \in placed : e = [discussionid |-> r[1], slotid |-> at[r][1],
                                locationid |-> at[r][2]]
    BY DEF PlannedEntries
<1>6. \A e, f \in PlannedEntries(at) : e.discussionid = f.discussionid => e = f
    BY <1>3, <1>5
<1>7. \A e \in PlannedEntries(at), f \in event_schedule :
         e.discussionid = f.discussionid => f.slotid \in SchedulableSlots
    BY <1>4, <1>5
<1> QED
    BY <1>2, <1>6, <1>7 DEF PlanOnce

\* Nothing is scheduled at first.
LEMMA InitOnceInv == Init => OnceInv
    BY DEF Init, DBInit, ScheduleInit, OnceInv, ScheduledOnce

\* What makeSnapshot makes is a plan.
LEMMA SnapshotIsPlan ==
    ASSUME TypeOK, NEW p \in Schedulers, makeSnapshot(p)
    PROVE  plan'[p] # NoPlan
<1>0. PICK placed \in SUBSET ssDiscussions :
         \E at \in [placed -> SchedulableSlots \X event_locations] :
            plan' = [plan EXCEPT ![p] = [slots |-> SchedulableSlots,
                                         entries |-> PlannedEntries(at)]]
    BY DEF makeSnapshot
<1>1. PICK at \in [placed -> SchedulableSlots \X event_locations] :
         plan' = [plan EXCEPT ![p] = [slots |-> SchedulableSlots,
                                      entries |-> PlannedEntries(at)]]
    BY <1>0
<1>2. SchedulableSlots \subseteq SlotIDs
    BY DEF SchedulableSlots, NonBreakSlots, TypeOK, DBTypeOK, IsTable
<1>3. \A r \in placed : r[1] \in DiscussionIDs
    BY DEF ssDiscussions, TypeOK, DBTypeOK, IsTable, ScheduleRow
<1>4. \A r \in placed : at[r][1] \in SlotIDs /\ at[r][2] \in LocationIDs
    BY <1>2 DEF TypeOK, DBTypeOK
<1>5. PlannedEntries(at) \subseteq ScheduleRow
    BY <1>3, <1>4 DEF PlannedEntries, ScheduleRow
<1>6. [slots |-> SchedulableSlots, entries |-> PlannedEntries(at)] \in PlanType
    BY <1>2, <1>5 DEF PlanType
<1>7. plan'[p] = [slots |-> SchedulableSlots, entries |-> PlannedEntries(at)]
    BY <1>1 DEF TypeOK, ScheduleTypeOK
<1> QED
    BY <1>6, <1>7, NoPlanAssumption

\* No operation but the one run of MakeSchedule adds entries, so its plan stays
\* good.
LEMMA NextOnceInv ==
    RefInv /\ NoEntryInBreak /\ NoOverlap /\ NoOverlap' /\ OnceInv /\ [Next]_vars
        => OnceInv'
<1> SUFFICES ASSUME RefInv, NoEntryInBreak, NoOverlap, NoOverlap', OnceInv, [Next]_vars
             PROVE  OnceInv'
    OBVIOUS
<1>0. TypeOK /\ ScheduledOnce
    BY DEF RefInv, OnceInv
<1> USE DEF personTables, timeTables, placeTables, dbVars
<1>1. ASSUME event_schedule' \subseteq event_schedule, plan' = plan
      PROVE  OnceInv'
    BY <1>1 DEF OnceInv, ScheduledOnce, PlanOnce
<1>2. CASE Quiet
    BY <1>1, <1>2 DEF Quiet
<1>3. ASSUME NEW S, daySlotsDeleteTx(S), plan' = plan PROVE OnceInv'
    BY <1>1, <1>3 DEF daySlotsDeleteTx
<1>4. ASSUME NEW t \in Timetables, TimetableSet(t) PROVE OnceInv'
    BY <1>3, <1>4 DEF TimetableSet
<1>5. ASSUME NEW d \in DayIDs, DeleteDay(d) PROVE OnceInv'
    BY <1>3, <1>5 DEF DeleteDay
<1>6. ASSUME NEW locked \in SUBSET listed, TimetableSetLockedSlots(locked)
      PROVE  OnceInv'
    BY <1>1, <1>6 DEF TimetableSetLockedSlots
<1>7. ASSUME NEW d \in DiscussionIDs, NEW checked \in SUBSET listed,
             DiscussionSetPossibleSlots(d, checked)
      PROVE  OnceInv'
    BY <1>1, <1>7 DEF DiscussionSetPossibleSlots
<1>8. ASSUME NEW p \in Schedulers, makeSnapshot(p) PROVE OnceInv'
    <2>1. PlanOnce(plan'[p])
        BY <1>0, <1>8, SnapshotOnce
    <2>2. event_schedule' = event_schedule
        BY <1>8 DEF makeSnapshot
    <2>3. \A q \in Schedulers : plan'[q] # NoPlan => q = p
        BY <1>0, <1>8, SnapshotIsPlan DEF NoOverlap
    <2> QED
        BY <1>0, <2>1, <2>2, <2>3 DEF OnceInv, ScheduledOnce, PlanOnce
<1>9. ASSUME NEW p \in Schedulers, scheduleSet(p) PROVE OnceInv'
    <2>1. PlanOnce(plan[p])
        BY <1>9 DEF OnceInv, scheduleSet
    <2>2. event_schedule' = EntriesOutside(plan[p].slots) \cup plan[p].entries
        BY <1>9 DEF scheduleSet
    <2>3. ScheduledOnce'
        BY <1>0, <2>1, <2>2 DEF ScheduledOnce, PlanOnce, EntriesOutside
    <2>4. \A q \in Schedulers : plan'[q] = NoPlan
        BY <1>0, <1>9 DEF NoOverlap, scheduleSet, TypeOK, ScheduleTypeOK
    <2> QED
        BY <2>3, <2>4 DEF OnceInv
<1>10. ASSUME NEW p \in Schedulers, scheduleFail(p) PROVE OnceInv'
    <2>1. \A q \in Schedulers : plan'[q] = NoPlan
        BY <1>0, <1>10 DEF NoOverlap, scheduleFail, TypeOK, ScheduleTypeOK
    <2>2. ScheduledOnce'
        BY <1>0, <1>10 DEF scheduleFail, ScheduledOnce
    <2> QED
        BY <2>1, <2>2 DEF OnceInv
<1> QED
    BY <1>0, <1>2, <1>4, <1>5, <1>6, <1>7, <1>8, <1>9, <1>10, StepKinds

\* As long as no two runs of MakeSchedule overlap and no slot with entries has
\* become a break, no discussion is on the schedule twice, whatever is deleted,
\* locked, restricted or added between the two transactions of a run.
THEOREM ScheduledOnceUnlessOverlapHolds == Spec => ScheduledOnceUnlessOverlap
<1>1. OnceInv => ScheduledOnce
    BY DEF OnceInv
<1> QED
    BY <1>1, InitRefInv, NextRefInv, InitOnceInv, NextOnceInv, PTL
    DEF Spec, ScheduledOnceUnlessOverlap

-----------------------------------------------------------------------------
(* The slots that are left checked.  "As many boxes as there are slots" means  *)
(* all of them only because there are finitely many slots.                     *)

FiniteSlots == IsFiniteSet(DOMAIN event_slots)

\* A timetable has finitely many positions.
LEMMA FinitePositions ==
    ASSUME NEW t \in Timetables
    PROVE  IsFiniteSet(Positions(t))
<1> DEFINE day == [i \in 1..Len(t) |-> {i} \X (1..Len(t[i].slots))]
           Days == {{i} \X (1..Len(t[i].slots)) : i \in 1..Len(t)}
<1>1. Len(t) \in Nat
    BY TimetablesAssumption
<1>2. \A i \in 1..Len(t) : Len(t[i].slots) \in Nat
    <2> SUFFICES ASSUME NEW i \in 1..Len(t) PROVE Len(t[i].slots) \in Nat
        OBVIOUS
    <2>1. t[i] \in [valid : BOOLEAN, slots : Seq(BOOLEAN)]
        BY TimetablesAssumption, ElementInSeq
    <2> QED
        BY <2>1
<1>3. day \in Surjection(1..Len(t), Days)
    BY DEF Surjection
<1>4. IsFiniteSet(1..Len(t))
    BY <1>1, FS_Interval
<1>5. IsFiniteSet(Days)
    BY <1>3, <1>4, FS_Surjection
<1>6. \A D \in Days : IsFiniteSet(D)
    <2> SUFFICES ASSUME NEW i \in 1..Len(t)
                 PROVE  IsFiniteSet({i} \X (1..Len(t[i].slots)))
        OBVIOUS
    <2>1. IsFiniteSet({i})
        BY FS_Singleton
    <2>2. Len(t[i].slots) \in Int
        BY <1>2
    <2>3. \A n \in Int : IsFiniteSet(1..n)
        BY FS_Interval
    <2>4. IsFiniteSet(1..Len(t[i].slots))
        BY <2>2, <2>3
    <2> QED
        BY <2>1, <2>4, FS_Product
<1>7. Positions(t) = UNION Days
    BY DEF Positions
<1> QED
    BY <1>5, <1>6, <1>7, FS_UNION

\* There are no slots at first.
LEMMA InitFiniteSlots == Init => FiniteSlots
<1> SUFFICES ASSUME Init PROVE FiniteSlots
    OBVIOUS
<1>1. DOMAIN event_slots = {}
    BY DEF Init, DBInit, EmptyTable
<1> QED
    BY <1>1, FS_EmptySet DEF FiniteSlots

\* TimetableSet alone adds slots, one for each new position.
LEMMA NextFiniteSlots == TypeOK /\ FiniteSlots /\ [Next]_vars => FiniteSlots'
<1> SUFFICES ASSUME TypeOK, FiniteSlots, [Next]_vars PROVE FiniteSlots'
    OBVIOUS
<1> USE DEF personTables, timeTables, placeTables, dbVars
<1>1. ASSUME DOMAIN event_slots' \subseteq DOMAIN event_slots
      PROVE  FiniteSlots'
    BY <1>1, FS_Subset DEF FiniteSlots
<1>2. ASSUME NEW t \in Timetables, TimetableSet(t) PROVE FiniteSlots'
    <2>1. PICK new \in SUBSET (SlotIDs \ generated) :
             \E pos \in Bijection(new, NewPositions(t)) :
                event_slots' = SlotsAfter(t, new, pos)
        BY <1>2 DEF TimetableSet
    <2>2. PICK pos \in Bijection(new, NewPositions(t)) :
             event_slots' = SlotsAfter(t, new, pos)
        BY <2>1
    <2>3. IsFiniteSet(NewPositions(t))
        BY FinitePositions, FS_Subset DEF NewPositions
    <2>4. pos \in Injection(new, NewPositions(t))
        BY DEF Bijection
    <2>5. IsFiniteSet(new)
        BY <2>3, <2>4, FS_Injection
    <2>6. DOMAIN event_slots' = (DOMAIN event_slots \ DroppedSlots(t)) \cup new
        BY <2>2 DEF SlotsAfter
    <2>7. IsFiniteSet(DOMAIN event_slots \ DroppedSlots(t))
        BY FS_Subset DEF FiniteSlots
    <2> QED
        BY <2>5, <2>6, <2>7, FS_Union DEF FiniteSlots
<1>3. ASSUME NEW d \in DayIDs, DeleteDay(d) PROVE FiniteSlots'
    BY <1>1, <1>3 DEF DeleteDay, Drop, Restrict
<1>4. ASSUME NEW locked \in SUBSET listed, TimetableSetLockedSlots(locked)
      PROVE  FiniteSlots'
    BY <1>1, <1>4 DEF TimetableSetLockedSlots
<1>5. CASE event_slots' = event_slots
    BY <1>5 DEF FiniteSlots
<1> QED
    BY <1>2, <1>3, <1>4, <1>5, StepKinds
    DEF Quiet, DiscussionSetPossibleSlots, makeSnapshot, scheduleSet, scheduleFail

\* What an administrator leaves checked on a form that lists the slots there are
\* now is what the scheduler then uses, the locked slots apart, and what the form
\* then shows: checking all of them, which stores nothing, too.
THEOREM CheckedSlotsHonouredHolds == Spec => CheckedSlotsHonoured
<1> DEFINE Honoured ==
               \A d \in DOMAIN event_discussions :
               \A checked \in SUBSET NonBreakSlots :
                  DiscussionSetPossibleSlots(d, checked) =>
                     /\ PossibleSlots(d)' = checked \ LockedSlots
                     /\ possibleSlotsDBToDisplay(d)' = checked
<1>1. ASSUME TypeOK, FiniteSlots PROVE Honoured
    <2> SUFFICES ASSUME NEW d \in DOMAIN event_discussions,
                        NEW checked \in SUBSET NonBreakSlots,
                        DiscussionSetPossibleSlots(d, checked)
                 PROVE  /\ PossibleSlots(d)' = checked \ LockedSlots
                        /\ possibleSlotsDBToDisplay(d)' = checked
        OBVIOUS
    <2>1. /\ d \in DiscussionIDs
          /\ NonBreakSlots \subseteq SlotIDs
        BY <1>1 DEF TypeOK, DBTypeOK, IsTable, NonBreakSlots
    <2>2. event_slots' = event_slots
        BY DEF DiscussionSetPossibleSlots, timeTables
    <2>3. /\ SchedulableSlots' = NonBreakSlots \ LockedSlots
          /\ NonBreakSlots' = NonBreakSlots
        BY <2>2 DEF SchedulableSlots, NonBreakSlots, LockedSlots
    <2>4. CASE Cardinality(checked) >= Cardinality(NonBreakSlots)
        <3>1. IsFiniteSet(NonBreakSlots)
            BY <1>1, FS_Subset DEF FiniteSlots, NonBreakSlots
        <3>2. /\ Cardinality(checked) <= Cardinality(NonBreakSlots)
              /\ Cardinality(checked) = Cardinality(NonBreakSlots)
                    => checked = NonBreakSlots
              /\ IsFiniteSet(checked)
            BY <3>1, FS_Subset
        <3>3. Cardinality(checked) \in Nat /\ Cardinality(NonBreakSlots) \in Nat
            BY <3>1, <3>2, FS_CardinalityType
        <3>4. checked = NonBreakSlots
            BY <2>4, <3>2, <3>3
        <3>5. SlotsOf(d)' = {}
            BY <2>4, <3>3 DEF DiscussionSetPossibleSlots, OtherRows, SlotsOf
        <3> QED
            BY <2>3, <3>4, <3>5 DEF PossibleSlots, possibleSlotsDBToDisplay
    <2>5. CASE ~(Cardinality(checked) >= Cardinality(NonBreakSlots))
        <3>1. checked # {} /\ SlotsOf(d)' = checked
            BY <2>1, <2>5 DEF DiscussionSetPossibleSlots, OtherRows, SlotsOf
        <3> QED
            BY <2>3, <3>1 DEF PossibleSlots, possibleSlotsDBToDisplay
    <2> QED
        BY <2>4, <2>5
<1>2. TypeOK /\ FiniteSlots => [Honoured]_vars
    BY <1>1
<1> QED
    BY <1>2, InitTypeOK, NextTypeOK, InitFiniteSlots, NextFiniteSlots, PTL
    DEF Spec, CheckedSlotsHonoured
=============================================================================

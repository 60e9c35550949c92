--------------------------- MODULE TimetableProofs ---------------------------
(* Proofs about the slots of EventStore: their numbering, and what locked      *)
(* slots and breaks keep.                                                      *)
EXTENDS EventStoreProofs

-----------------------------------------------------------------------------
(* Numbering.  A timetable that adds slots gives them fresh ids; SlotInv says  *)
(* that a fresh id is not one of a slot that is there, without which a new     *)
(* slot could take the place of an old one.                                    *)

SlotInv == SlotsContiguous /\ DOMAIN event_slots \subseteq generated

\* A position of t has all the earlier ones of its day before it.
LEMMA EarlierPositions ==
    ASSUME NEW t \in Timetables, NEW d, NEW i \in Nat, <<d, i>> \in Positions(t),
           NEW j \in 1..i
    PROVE  <<d, j>> \in Positions(t)
<1>1. PICK k \in 1..Len(t) : <<d, i>> \in {k} \X (1..Len(t[k].slots))
    BY DEF Positions
<1>2. d = k /\ i \in 1..Len(t[k].slots)
    BY <1>1
<1>3. t[k] \in [valid : BOOLEAN, slots : Seq(BOOLEAN)]
    BY TimetablesAssumption, ElementInSeq
<1>4. j \in 1..Len(t[k].slots)
    BY <1>2, <1>3
<1> QED
    BY <1>2, <1>4 DEF Positions

LEMMA TimetableSetContiguous ==
    ASSUME TypeOK, SlotInv, NEW t \in Timetables, TimetableSet(t)
    PROVE  SlotInv'
<1>1. PICK new \in SUBSET (SlotIDs \ generated) :
         \E pos \in Bijection(new, NewPositions(t)) :
            /\ event_slots' = SlotsAfter(t, new, pos)
            /\ generated' = generated \cup new
    BY DEF TimetableSet
<1>2. PICK pos \in Bijection(new, NewPositions(t)) :
         /\ event_slots' = SlotsAfter(t, new, pos)
         /\ generated' = generated \cup new
    BY <1>1
<1>3. new \in SUBSET SlotIDs /\ new \cap DOMAIN event_slots = {}
    BY DEF SlotInv
<1> DEFINE kept == DOMAIN event_slots \ DroppedSlots(t)
<1>4. /\ DOMAIN event_slots' = kept \cup new
      /\ \A s \in kept : PositionOf(s)' = PositionOf(s)
      /\ \A s \in new : PositionOf(s)' = pos[s]
    <2>1. DOMAIN event_slots' = kept \cup new
        BY <1>2 DEF SlotsAfter
    <2>2. ASSUME NEW s \in kept PROVE PositionOf(s)' = PositionOf(s)
        <3>1. event_slots[s] \in SlotRow
            BY DEF TypeOK, DBTypeOK, IsTable
        <3>2. /\ event_slots'[s].dayid = event_slots[s].dayid
              /\ event_slots'[s].slotidx = event_slots[s].slotidx
            BY <1>2, <3>1 DEF SlotsAfter, SlotRow
        <3> QED
            BY <3>2 DEF PositionOf
    <2>3. ASSUME NEW s \in new PROVE PositionOf(s)' = pos[s]
        <3>1. pos[s] = <<pos[s][1], pos[s][2]>>
            BY PositionType DEF NewPositions, Bijection, Injection
        <3>2. event_slots'[s] = [dayid |-> pos[s][1], slotidx |-> pos[s][2],
                                 isbreak |-> t[pos[s][1]].slots[pos[s][2]],
                                 islocked |-> FALSE]
            BY <1>2, <1>3 DEF SlotsAfter
        <3> QED
            BY <3>1, <3>2 DEF PositionOf
    <2> QED
        BY <2>1, <2>2, <2>3
<1>5. /\ \A s \in new : pos[s] \in NewPositions(t)
      /\ \A r, s \in new : pos[r] = pos[s] => r = s
      /\ \A p \in NewPositions(t) : \E s \in new : pos[s] = p
    BY DEF Bijection, Injection, Surjection, IsInjective
<1>6. ASSUME NEW s \in DOMAIN event_slots
      PROVE  /\ event_slots[s].slotidx \in Nat \ {0}
             /\ PositionOf(s) = <<event_slots[s].dayid, event_slots[s].slotidx>>
    BY DEF TypeOK, DBTypeOK, IsTable, SlotRow, PositionOf
<1>7. ASSUME NEW r \in kept, NEW s \in new PROVE PositionOf(r) # pos[s]
    <2>1. event_slots[r].dayid = pos[s][1] => event_slots[r].slotidx < pos[s][2]
        BY <1>5 DEF NewPositions
    <2>2. pos[s][2] \in Nat
        BY <1>5, PositionType DEF NewPositions
    <2> QED
        BY <1>6, <2>1, <2>2
<1>8. ASSUME NEW r \in DOMAIN event_slots', NEW s \in DOMAIN event_slots',
             PositionOf(r)' = PositionOf(s)'
      PROVE  r = s
    BY <1>4, <1>5, <1>7, <1>8 DEF SlotInv, SlotsContiguous
<1>9. ASSUME NEW d, NEW i \in Nat \ {0}, <<d, i>> \in Positions(t), NEW j \in 1..i,
             NEW s \in DOMAIN event_slots, event_slots[s].dayid = d,
             event_slots[s].slotidx >= j
      PROVE  \E r \in kept : PositionOf(r) = <<d, j>>
    <2>1. PICK r \in DOMAIN event_slots : PositionOf(r) = <<d, j>>
        BY <1>6, <1>9 DEF SlotInv, SlotsContiguous
    <2>2. <<d, j>> \in Positions(t)
        BY <1>9, EarlierPositions
    <2> QED
        BY <2>1, <2>2 DEF DroppedSlots
<1>10. ASSUME NEW d, NEW i \in Nat \ {0}, <<d, i>> \in Positions(t), NEW j \in 1..i
       PROVE  \E r \in DOMAIN event_slots' : PositionOf(r)' = <<d, j>>
    <2>1. CASE \E s \in DOMAIN event_slots :
                  event_slots[s].dayid = d /\ event_slots[s].slotidx >= j
        BY <1>4, <1>9, <1>10, <2>1
    <2>2. CASE \A s \in DOMAIN event_slots :
                  event_slots[s].dayid = d => event_slots[s].slotidx < j
        <3>1. <<d, j>> \in Positions(t)
            BY <1>10, EarlierPositions
        <3>2. <<d, j>> \in NewPositions(t)
            BY <2>2, <3>1 DEF NewPositions
        <3> QED
            BY <1>4, <1>5, <3>2
    <2> QED
        BY <1>6, <2>1, <2>2
<1>11. ASSUME NEW s \in DOMAIN event_slots', NEW j \in 1..(event_slots'[s].slotidx)
       PROVE  \E r \in DOMAIN event_slots' :
                 PositionOf(r)' = <<event_slots'[s].dayid, j>>
    <2>1. PositionOf(s)' \in Positions(t)
        BY <1>4, <1>5 DEF DroppedSlots, NewPositions
    <2>2. event_slots'[s].slotidx \in Nat \ {0}
        <3>1. TypeOK'
            BY NextTypeOK DEF Next, TimetableStep
        <3> QED
            BY <3>1 DEF TypeOK, DBTypeOK, IsTable, SlotRow
    <2> QED
        BY <1>10, <2>1, <2>2 DEF PositionOf
<1>12. DOMAIN event_slots' \subseteq generated'
    BY <1>2, <1>4 DEF SlotInv
<1> QED
    BY <1>8, <1>11, <1>12 DEF SlotInv, SlotsContiguous

LEMMA InitSlotInv == Init => SlotInv
    BY DEF Init, DBInit, EmptyTable, SlotInv, SlotsContiguous

\* Steps that leave the slots alone.
LEMMA SameSlots ==
    ASSUME SlotInv, event_slots' = event_slots, generated \subseteq generated'
    PROVE  SlotInv'
    BY DEF SlotInv, SlotsContiguous, PositionOf

LEMMA NextSlotInv == TypeOK /\ SlotInv /\ [Next]_vars => SlotInv'
<1> SUFFICES ASSUME TypeOK, SlotInv, [Next]_vars PROVE SlotInv'
    OBVIOUS
<1> DEFINE Same == event_slots' = event_slots /\ generated \subseteq generated'
<1> USE DEF personTables, timeTables, placeTables, dbVars
<1>1. CASE UNCHANGED vars
    BY <1>1, SameSlots DEF vars
<1>2. CASE UserStep
    <2>1. Same
        BY <1>2 DEF UserStep, NewUser, handleAdminPwd, InsertUser, SetVerified,
                    SetInterest, DeleteUser
    <2> QED
        BY <2>1, SameSlots
<1>3. CASE DiscussionStep
    <2>1. Same
        BY <1>3 DEF DiscussionStep, NewDiscussion, DiscussionUpdate,
                    DiscussionSetPublic, DiscussionSetPossibleSlots,
                    DeleteDiscussion
    <2> QED
        BY <2>1, SameSlots
<1>4. CASE LocationStep
    <2>1. Same
        BY <1>4 DEF LocationStep, NewLocation, DeleteLocation
    <2> QED
        BY <2>1, SameSlots
<1>5. CASE ScheduleStep
    <2>1. Same
        BY <1>5 DEF ScheduleStep, makeSnapshot, scheduleSet, scheduleFail
    <2> QED
        BY <2>1, SameSlots
<1>6. CASE NewDay
    BY <1>6, SameSlots DEF NewDay
<1>7. ASSUME NEW d \in DayIDs, DeleteDay(d) PROVE SlotInv'
    <2>1. /\ \A s \in DOMAIN event_slots' :
                /\ s \in DOMAIN event_slots
                /\ event_slots'[s] = event_slots[s]
                /\ event_slots[s].dayid # d
          /\ \A s \in DOMAIN event_slots :
                event_slots[s].dayid # d => s \in DOMAIN event_slots'
          /\ generated' = generated
        BY <1>7 DEF DeleteDay, Drop, Restrict
    <2>2. (DOMAIN event_slots \subseteq generated)'
        BY <2>1 DEF SlotInv
    <2>3. \A s \in DOMAIN event_slots' : PositionOf(s)' = PositionOf(s)
        BY <2>1 DEF PositionOf
    <2>4. ASSUME NEW s \in DOMAIN event_slots', NEW j \in 1..(event_slots'[s].slotidx)
          PROVE  \E r \in DOMAIN event_slots' :
                    PositionOf(r)' = <<event_slots'[s].dayid, j>>
        <3>1. PICK r \in DOMAIN event_slots :
                 PositionOf(r) = <<event_slots[s].dayid, j>>
            BY <2>1 DEF SlotInv, SlotsContiguous
        <3>2. event_slots[r].dayid = event_slots[s].dayid
            BY <3>1 DEF PositionOf
        <3> QED
            BY <2>1, <2>3, <3>1, <3>2
    <2>5. ASSUME NEW r \in DOMAIN event_slots', NEW s \in DOMAIN event_slots',
                 PositionOf(r)' = PositionOf(s)'
          PROVE  r = s
        BY <2>1, <2>3, <2>5 DEF SlotInv, SlotsContiguous
    <2> QED
        BY <2>2, <2>4, <2>5 DEF SlotInv, SlotsContiguous
<1>8. ASSUME NEW locked, TimetableSetLockedSlots(locked) PROVE SlotInv'
    <2>1. /\ DOMAIN event_slots' = DOMAIN event_slots
          /\ \A s \in DOMAIN event_slots :
                /\ event_slots'[s].dayid = event_slots[s].dayid
                /\ event_slots'[s].slotidx = event_slots[s].slotidx
          /\ generated' = generated
        BY <1>8 DEF TypeOK, DBTypeOK, IsTable, SlotRow, TimetableSetLockedSlots
    <2> QED
        BY <2>1 DEF SlotInv, SlotsContiguous, PositionOf
<1>9. CASE TimetableStep
    BY <1>6, <1>7, <1>8, <1>9, TimetableSetContiguous DEF TimetableStep
<1> QED
    BY <1>1, <1>2, <1>3, <1>4, <1>5, <1>9 DEF Next

\* Whatever timetables are set one over the other, by whomever, every day has one
\* slot at each position from 1 to its last (event.sql).
THEOREM SlotsContiguousHolds == Spec => []SlotsContiguous
<1>1. SlotInv => SlotsContiguous
    BY DEF SlotInv
<1> QED
    BY <1>1, InitTypeOK, NextTypeOK, InitSlotInv, NextSlotInv, PTL DEF Spec

-----------------------------------------------------------------------------
(* Locked slots and breaks.  A plan that is written has only slots that are    *)
(* neither at that time, and its entries are in slots of the plan (PlansFit).  *)

\* The slots that no plan may touch keep their entries as long as they are there.
FixedKept ==
    \A s \in DOMAIN event_slots \ SchedulableSlots :
        s \in DOMAIN event_slots' => NoEntryTouched(s)

\* Steps that leave the schedule and the set of discussions alone.
LEMMA SameEntries ==
    ASSUME RefInv, event_schedule' = event_schedule,
           DOMAIN event_discussions \subseteq DOMAIN event_discussions'
    PROVE  FixedKept
    BY DEF RefInv, ForeignKeys, ScheduleRefs, FixedKept, NoEntryTouched, EntriesIn

\* A new slot does not take the id of one that goes.
LEMMA DroppedAreGone ==
    ASSUME SlotInv, NEW t \in Timetables, TimetableSet(t)
    PROVE  DOMAIN event_slots' \cap DroppedSlots(t) = {}
    BY DEF SlotInv, TimetableSet, SlotsAfter, DroppedSlots

\* No step adds to a slot that is locked or a break, or takes from it what is not
\* deleted.
LEMMA NextFixedKept == ASSUME RefInv, SlotInv, Next PROVE FixedKept
<1> DEFINE Same == /\ event_schedule' = event_schedule
                   /\ DOMAIN event_discussions \subseteq DOMAIN event_discussions'
<1> USE DEF personTables, timeTables, placeTables, dbVars
<1>0. \A e \in event_schedule : e.discussionid \in DOMAIN event_discussions
    BY DEF RefInv, ForeignKeys, ScheduleRefs
<1>1. ASSUME NEW D, deleteDiscussionCommon(D) PROVE FixedKept
    <2>1. DOMAIN event_discussions' = DOMAIN event_discussions \ D
        BY <1>1 DEF deleteDiscussionCommon, Drop, Restrict
    <2> QED
        BY <1>0, <1>1, <2>1
        DEF deleteDiscussionCommon, FixedKept, NoEntryTouched, EntriesIn
<1>2. CASE UserStep
    <2>1. CASE \E u \in UserIDs : DeleteUser(u)
        BY <1>1, <2>1 DEF DeleteUser
    <2>2. CASE ~\E u \in UserIDs : DeleteUser(u)
        <3>1. Same
            BY <1>2, <2>2 DEF UserStep, NewUser, handleAdminPwd, InsertUser,
                              SetVerified, SetInterest
        <3> QED
            BY <3>1, SameEntries
    <2> QED
        BY <2>1, <2>2
<1>3. CASE DiscussionStep
    <2>1. CASE \E d \in DiscussionIDs : DeleteDiscussion(d)
        BY <1>1, <2>1 DEF DeleteDiscussion
    <2>2. CASE ~\E d \in DiscussionIDs : DeleteDiscussion(d)
        <3>1. Same
            BY <1>3, <2>2 DEF DiscussionStep, NewDiscussion, DiscussionUpdate, Put,
                              DiscussionSetPublic, DiscussionSetPossibleSlots
        <3> QED
            BY <3>1, SameEntries
    <2> QED
        BY <2>1, <2>2
<1>4. CASE LocationStep \/ NewDay
    BY <1>4, SameEntries DEF LocationStep, NewLocation, DeleteLocation, NewDay
<1>5. ASSUME NEW S, daySlotsDeleteTx(S), DOMAIN event_slots' \cap S = {},
             event_discussions' = event_discussions
      PROVE  FixedKept
    BY <1>0, <1>5 DEF daySlotsDeleteTx, FixedKept, NoEntryTouched, EntriesIn
<1>6. ASSUME NEW t \in Timetables, TimetableSet(t) PROVE FixedKept
    <2>1. DOMAIN event_slots' \cap DroppedSlots(t) = {}
        BY <1>6, DroppedAreGone
    <2> QED
        BY <1>5, <1>6, <2>1 DEF TimetableSet
<1>7. ASSUME NEW d \in DayIDs, DeleteDay(d) PROVE FixedKept
    BY <1>5, <1>7 DEF DeleteDay, Drop, Restrict
<1>8. ASSUME NEW locked, TimetableSetLockedSlots(locked) PROVE FixedKept
    BY <1>8, SameEntries DEF TimetableSetLockedSlots
<1>9. ASSUME NEW p \in Schedulers, scheduleSet(p) PROVE FixedKept
    <2>1. plan[p].slots \subseteq SchedulableSlots
        BY <1>9 DEF scheduleSet, ScheduleSetOK
    <2>2. \A e \in plan[p].entries : e.slotid \in plan[p].slots
        BY <1>9 DEF RefInv, PlansFit, scheduleSet
    <2>3. \A s \in DOMAIN event_slots \ SchedulableSlots : EntriesIn(s)' = EntriesIn(s)
        BY <1>9, <2>1, <2>2 DEF scheduleSet, EntriesOutside, EntriesIn
    <2>4. event_discussions' = event_discussions
        BY <1>9 DEF scheduleSet
    <2> QED
        BY <1>0, <2>3, <2>4 DEF FixedKept, NoEntryTouched, EntriesIn
<1>10. CASE ScheduleStep
    BY <1>9, <1>10, SameEntries DEF ScheduleStep, makeSnapshot, scheduleFail
<1>11. CASE TimetableStep
    BY <1>4, <1>6, <1>7, <1>8, <1>11 DEF TimetableStep
<1> QED
    BY <1>2, <1>3, <1>4, <1>10, <1>11 DEF Next

\* No step removes a locked slot.
LEMMA LockedStays == ASSUME RefInv, Next PROVE LockedSlots \subseteq DOMAIN event_slots'
<1> USE DEF personTables, timeTables, placeTables, dbVars
<1>1. ASSUME NEW S, daySlotsDeleteTx(S),
             DOMAIN event_slots \ S \subseteq DOMAIN event_slots'
      PROVE  LockedSlots \subseteq DOMAIN event_slots'
    BY <1>1 DEF daySlotsDeleteTx, MayDeleteSlots, LockedSlots
<1>2. ASSUME NEW t \in Timetables, TimetableSet(t)
      PROVE  LockedSlots \subseteq DOMAIN event_slots'
    <2>1. DOMAIN event_slots \ DroppedSlots(t) \subseteq DOMAIN event_slots'
        BY <1>2 DEF TimetableSet, SlotsAfter
    <2> QED
        BY <1>1, <1>2, <2>1 DEF TimetableSet
<1>3. ASSUME NEW d \in DayIDs, DeleteDay(d)
      PROVE  LockedSlots \subseteq DOMAIN event_slots'
    BY <1>1, <1>3 DEF DeleteDay, Drop, Restrict
<1>4. ASSUME NEW locked, TimetableSetLockedSlots(locked)
      PROVE  LockedSlots \subseteq DOMAIN event_slots'
    BY <1>4 DEF TimetableSetLockedSlots, LockedSlots
<1>5. CASE event_slots' = event_slots
    BY <1>5 DEF LockedSlots
<1>6. CASE UserStep
    BY <1>5, <1>6 DEF UserStep, NewUser, handleAdminPwd, InsertUser, SetVerified,
                      SetInterest, DeleteUser
<1>7. CASE DiscussionStep
    BY <1>5, <1>7 DEF DiscussionStep, NewDiscussion, DiscussionUpdate, DeleteDiscussion,
                      DiscussionSetPublic, DiscussionSetPossibleSlots
<1>8. CASE LocationStep \/ NewDay \/ ScheduleStep
    BY <1>5, <1>8 DEF LocationStep, NewLocation, DeleteLocation, NewDay, ScheduleStep,
                      makeSnapshot, scheduleSet, scheduleFail
<1>9. CASE TimetableStep
    BY <1>2, <1>3, <1>4, <1>8, <1>9 DEF TimetableStep
<1> QED
    BY <1>6, <1>7, <1>8, <1>9 DEF Next

\* The entries of a locked slot stay, however old the plan or the timetable that
\* is written: only deleting a discussion takes its entries out.
THEOREM LockedStableHolds == Spec => LockedStable
<1>1. RefInv /\ SlotInv /\ [Next]_vars => [LockedKept]_vars
    <2> SUFFICES ASSUME RefInv, SlotInv, Next PROVE LockedKept
        OBVIOUS
    <2> QED
        BY NextFixedKept, LockedStays
        DEF FixedKept, LockedKept, LockedSlots, SchedulableSlots
<1>2. RefInv /\ SlotInv /\ [Next]_vars => RefInv' /\ SlotInv'
    BY NextRefInv, NextSlotInv DEF RefInv
<1> QED
    BY <1>1, <1>2, InitRefInv, InitSlotInv, PTL DEF Spec, LockedStable

\* A break keeps its entries in the same way, also when it has become a break
\* after the plan was made: no condition on the timetables or on the number of
\* schedulers is needed.
THEOREM BreakKeptHolds == Spec => BreakKept
<1> DEFINE Kept == \A s \in DOMAIN event_slots \cap DOMAIN event_slots' :
                      event_slots[s].isbreak => NoEntryTouched(s)
<1>1. RefInv /\ SlotInv /\ [Next]_vars => [Kept]_vars
    <2> SUFFICES ASSUME RefInv, SlotInv, Next PROVE Kept
        OBVIOUS
    <2> QED
        BY NextFixedKept DEF FixedKept, SchedulableSlots, NonBreakSlots
<1>2. RefInv /\ SlotInv /\ [Next]_vars => RefInv' /\ SlotInv'
    BY NextRefInv, NextSlotInv DEF RefInv
<1> QED
    BY <1>1, <1>2, InitRefInv, InitSlotInv, PTL DEF Spec, BreakKept
=============================================================================

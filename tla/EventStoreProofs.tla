--------------------------- MODULE EventStoreProofs ---------------------------
(* What EventStore guarantees for every set of ids, timetables, bounds and    *)
(* schedulers.                                                                *)
EXTENDS EventStore, TLAPS

-----------------------------------------------------------------------------
(* Tables.                                                                   *)

\* Inserting or replacing a row of the right type keeps the type of a table.
LEMMA PutTable ==
    ASSUME NEW K, NEW R, NEW f, IsTable(f, K, R), NEW k \in K, NEW r \in R
    PROVE  /\ IsTable(Put(f, k, r), K, R)
           /\ DOMAIN Put(f, k, r) = DOMAIN f \cup {k}
           /\ Put(f, k, r)[k] = r
           /\ \A x \in DOMAIN f \ {k} : Put(f, k, r)[x] = f[x]
    BY DEF IsTable, Put

\* Deleting rows keeps the type of a table and the other rows.
LEMMA DropTable ==
    ASSUME NEW K, NEW R, NEW f, IsTable(f, K, R), NEW D
    PROVE  /\ IsTable(Drop(f, D), K, R)
           /\ DOMAIN Drop(f, D) = DOMAIN f \ D
           /\ \A x \in DOMAIN f \ D : Drop(f, D)[x] = f[x]
    BY DEF IsTable, Drop, Restrict

\* Updating a row that is there keeps the type and the keys of a table.
LEMMA ExceptTable ==
    ASSUME NEW K, NEW R, NEW f, IsTable(f, K, R), NEW k \in DOMAIN f, NEW r \in R
    PROVE  /\ IsTable([f EXCEPT ![k] = r], K, R)
           /\ DOMAIN [f EXCEPT ![k] = r] = DOMAIN f
    BY DEF IsTable

-----------------------------------------------------------------------------
(* Type correctness.                                                         *)

LEMMA InitTypeOK == Init => TypeOK
<1> SUFFICES ASSUME Init PROVE TypeOK
    OBVIOUS
<1> USE DEF Init, DBInit, ScheduleInit
<1>1. PICK u \in UserIDs :
          /\ event_users = Put(EmptyTable, u, [username |-> AdminUsername,
                                               isadmin |-> TRUE,
                                               isverified |-> TRUE])
          /\ generated = {u}
    OBVIOUS
<1>2. \A K, R : IsTable(EmptyTable, K, R)
    BY DEF IsTable, EmptyTable
<1>3. IsTable(event_users, UserIDs, UserRow)
    <2>1. [username |-> AdminUsername, isadmin |-> TRUE, isverified |-> TRUE]
              \in UserRow
        BY AdminUsernameAssumption DEF UserRow
    <2> HIDE DEF Init, DBInit, ScheduleInit
    <2>2. IsTable(EmptyTable, UserIDs, UserRow)
        BY <1>2
    <2> QED
        BY <1>1, <2>1, <2>2, PutTable
<1>4. DBTypeOK
    BY <1>1, <1>2, <1>3 DEF DBTypeOK
<1> QED
    BY <1>4 DEF TypeOK, ScheduleTypeOK

LEMMA ElementInSeq ==
    ASSUME NEW X, NEW q \in Seq(X), NEW i \in 1..Len(q)
    PROVE  q[i] \in X
    OBVIOUS

\* A position of a submitted timetable is a day and an index that a slot can have,
\* and tells whether the slot is a break.
LEMMA PositionType ==
    ASSUME NEW t \in Timetables, NEW p \in Positions(t)
    PROVE  /\ p = <<p[1], p[2]>>
           /\ p[1] \in DayIDs
           /\ p[1] \in 1..Len(t)
           /\ p[2] \in Nat \ {0}
           /\ p[2] \in 1..Len(t[p[1]].slots)
           /\ t[p[1]].slots[p[2]] \in BOOLEAN
<1>1. PICK i \in 1..Len(t) : p \in {i} \X (1..Len(t[i].slots))
    BY DEF Positions
<1>2. t \in Seq([valid : BOOLEAN, slots : Seq(BOOLEAN)]) /\ Len(t) <= MaxDays
    BY TimetablesAssumption
<1>3. t[i] \in [valid : BOOLEAN, slots : Seq(BOOLEAN)]
    BY <1>2, ElementInSeq
<1> QED
    BY <1>1, <1>2, <1>3, BoundsAssumption DEF DayIDs

\* TimetableSet writes rows of event_slots.
LEMMA SlotsAfterType ==
    ASSUME DBTypeOK, NEW t \in Timetables,
           NEW new \in SUBSET SlotIDs, NEW pos \in Bijection(new, NewPositions(t))
    PROVE  IsTable(SlotsAfter(t, new, pos), SlotIDs, SlotRow)
<1> DEFINE kept == DOMAIN event_slots \ DroppedSlots(t)
           flag(p) == t[p[1]].slots[p[2]]
<1>1. ASSUME NEW s \in kept
      PROVE  [event_slots[s] EXCEPT !.isbreak = flag(PositionOf(s))] \in SlotRow
    <2>1. PositionOf(s) \in Positions(t)
        BY <1>1 DEF DroppedSlots
    <2>2. flag(PositionOf(s)) \in BOOLEAN
        BY <2>1, PositionType
    <2> QED
        BY <1>1, <2>2 DEF DBTypeOK, IsTable, SlotRow
<1>2. ASSUME NEW s \in new
      PROVE  [dayid |-> pos[s][1], slotidx |-> pos[s][2],
              isbreak |-> flag(pos[s]), islocked |-> FALSE] \in SlotRow
    <2>1. pos[s] \in Positions(t)
        BY <1>2 DEF Bijection, Injection, NewPositions
    <2> QED
        BY <2>1, PositionType DEF SlotRow
<1>3. DOMAIN event_slots \subseteq SlotIDs
    BY DEF DBTypeOK, IsTable
<1> QED
    BY <1>1, <1>2, <1>3 DEF SlotsAfter, IsTable

LEMMA NextTypeOK == TypeOK /\ [Next]_vars => TypeOK'
<1> SUFFICES ASSUME TypeOK, [Next]_vars PROVE TypeOK'
    OBVIOUS
<1> USE DEF TypeOK, DBTypeOK, ScheduleTypeOK,
            personTables, timeTables, placeTables, dbVars
<1>1. ASSUME NEW u \in UserIDs, NEW name \in Usernames, NEW a \in BOOLEAN,
             NEW v \in BOOLEAN, InsertUser(u, name, a, v)
      PROVE  TypeOK'
    <2>1. [username |-> name, isadmin |-> a, isverified |-> v] \in UserRow
        BY DEF UserRow
    <2>2. IsTable(event_users, UserIDs, UserRow)'
        BY <1>1, <2>1, PutTable DEF InsertUser
    <2> QED
        BY <1>1, <2>2 DEF InsertUser
<1>2. ASSUME NEW u \in UserIDs, NEW v \in BOOLEAN, SetVerified(u, v)
      PROVE  TypeOK'
    <2>1. IsTable(event_users, UserIDs, UserRow)'
        BY <1>2 DEF SetVerified, IsTable, UserRow
    <2> QED
        BY <1>2, <2>1 DEF SetVerified
<1>3. ASSUME NEW u \in UserIDs, NEW d \in DiscussionIDs,
             NEW n \in 0..InterestMax, SetInterest(u, d, n)
      PROVE  TypeOK'
    <2>1. IsTable(event_interest, UserIDs \X DiscussionIDs, Interests)'
        <3>1. CASE n = 0
            <4>1. event_interest' = Drop(event_interest, {<<u, d>>})
                BY <1>3, <3>1 DEF SetInterest
            <4> QED
                BY <4>1, DropTable
        <3>2. CASE n > 0
            <4>1. n \in Interests /\ <<u, d>> \in UserIDs \X DiscussionIDs
                BY <3>2, InterestMaxAssumption DEF Interests
            <4>2. event_interest' = Put(event_interest, <<u, d>>, n)
                BY <1>3, <3>2 DEF SetInterest, setInterestTx
            <4> QED
                BY <4>1, <4>2, PutTable
        <3> QED
            BY <1>3, <3>1, <3>2 DEF SetInterest
    <2> QED
        BY <1>3, <2>1 DEF SetInterest
<1>4. ASSUME NEW u \in UserIDs, DeleteUser(u)
      PROVE  TypeOK'
    <2>1. /\ IsTable(event_users, UserIDs, UserRow)'
          /\ IsTable(event_discussions, DiscussionIDs, DiscussionRow)'
          /\ IsTable(event_interest, UserIDs \X DiscussionIDs, Interests)'
        BY <1>4, DropTable DEF DeleteUser, deleteDiscussionCommon
    <2> QED
        BY <1>4, <2>1 DEF DeleteUser, deleteDiscussionCommon
<1>5. ASSUME NEW d \in DiscussionIDs, NEW u \in UserIDs, NEW title \in Titles,
             NewDiscussion(d, u, title)
      PROVE  TypeOK'
    <2> DEFINE row == [owner |-> u, title |-> title,
                       ispublic |-> event_users[u].isverified,
                       approved |-> IF event_users[u].isverified THEN title
                                                                ELSE NoTitle]
    <2>1. event_users[u].isverified \in BOOLEAN
        BY <1>5 DEF NewDiscussion, IsTable, UserRow
    <2>2. row \in DiscussionRow
        BY <2>1 DEF DiscussionRow
    <2>3. IsTable(event_discussions, DiscussionIDs, DiscussionRow)'
        BY <1>5, <2>2, PutTable DEF NewDiscussion
    <2>4. InterestMax \in Interests /\ <<u, d>> \in UserIDs \X DiscussionIDs
        BY InterestMaxAssumption DEF Interests
    <2>5. IsTable(event_interest, UserIDs \X DiscussionIDs, Interests)'
        BY <1>5, <2>4, PutTable DEF NewDiscussion, setInterestTx
    <2> QED
        BY <1>5, <2>3, <2>5 DEF NewDiscussion
<1>6. ASSUME NEW d \in DiscussionIDs, NEW u \in UserIDs, NEW title \in Titles,
             DiscussionUpdate(d, u, title)
      PROVE  TypeOK'
    <2> DEFINE row == [owner |-> u, title |-> title,
                       ispublic |-> event_users[u].isverified,
                       approved |-> IF event_users[u].isverified THEN title
                                    ELSE event_discussions[d].approved]
    <2>1. event_users[u].isverified \in BOOLEAN
        BY <1>6 DEF DiscussionUpdate, ownerIsVerified, IsTable, UserRow
    <2>2. row \in DiscussionRow
        BY <1>6, <2>1 DEF DiscussionUpdate, ownerIsVerified, IsTable, DiscussionRow
    <2>3. event_discussions' = [event_discussions EXCEPT ![d] = row]
        BY <1>6 DEF DiscussionUpdate, ownerIsVerified
    <2>4. IsTable(event_discussions, DiscussionIDs, DiscussionRow)'
        <3>1. d \in DOMAIN event_discussions
            BY <1>6 DEF DiscussionUpdate, ownerIsVerified
        <3> HIDE DEF row
        <3> QED
            BY <2>2, <2>3, <3>1, ExceptTable
    <2>5. InterestMax \in Interests /\ <<u, d>> \in UserIDs \X DiscussionIDs
        BY InterestMaxAssumption DEF Interests
    <2>6. IsTable(event_interest, UserIDs \X DiscussionIDs, Interests)'
        BY <1>6, <2>5, PutTable DEF DiscussionUpdate, ownerIsVerified, setInterestTx
    <2> QED
        BY <1>6, <2>4, <2>6 DEF DiscussionUpdate, ownerIsVerified
<1>7. ASSUME NEW d \in DiscussionIDs, NEW public \in BOOLEAN,
             DiscussionSetPublic(d, public)
      PROVE  TypeOK'
    <2>1. IsTable(event_discussions, DiscussionIDs, DiscussionRow)'
        BY <1>7 DEF DiscussionSetPublic, IsTable, DiscussionRow
    <2> QED
        BY <1>7, <2>1 DEF DiscussionSetPublic
<1>8. ASSUME NEW d \in DiscussionIDs, NEW checked \in SUBSET listed,
             DiscussionSetPossibleSlots(d, checked)
      PROVE  TypeOK'
    <2>1. (event_discussions_possible_slots \subseteq DiscussionIDs \X SlotIDs)'
        BY <1>8 DEF DiscussionSetPossibleSlots, OtherRows
    <2> QED
        BY <1>8, <2>1 DEF DiscussionSetPossibleSlots, OtherRows
<1>9. ASSUME NEW d \in DiscussionIDs, DeleteDiscussion(d)
      PROVE  TypeOK'
    <2>1. /\ IsTable(event_discussions, DiscussionIDs, DiscussionRow)'
          /\ IsTable(event_interest, UserIDs \X DiscussionIDs, Interests)'
        BY <1>9, DropTable DEF DeleteDiscussion, deleteDiscussionCommon
    <2> QED
        BY <1>9, <2>1 DEF DeleteDiscussion, deleteDiscussionCommon
<1>10. ASSUME NEW t \in Timetables, TimetableSet(t)
       PROVE  TypeOK'
    <2>0. PICK new \in SUBSET (SlotIDs \ generated) :
             \E pos \in Bijection(new, NewPositions(t)) :
                /\ event_slots' = SlotsAfter(t, new, pos)
                /\ generated' = generated \cup new
        BY <1>10 DEF TimetableSet
    <2>1. PICK pos \in Bijection(new, NewPositions(t)) :
             /\ event_slots' = SlotsAfter(t, new, pos)
             /\ generated' = generated \cup new
        BY <2>0
    <2>2. IsTable(event_slots, SlotIDs, SlotRow)'
        BY <2>1, SlotsAfterType
    <2>3. (event_days \subseteq DayIDs)'
        <3>1. Len(t) \in Nat /\ Len(t) <= MaxDays
            BY TimetablesAssumption
        <3>2. event_days' = NextDays(t)
            BY <1>10 DEF TimetableSet
        <3>3. 1..Len(t) \subseteq DayIDs
            BY <3>1, BoundsAssumption DEF DayIDs
        <3> QED
            BY <3>2, <3>3 DEF NextDays
    <2>4. (listed \subseteq SlotIDs)'
        BY <1>10, <2>2 DEF TimetableSet, NonBreakSlots, IsTable
    <2> QED
        BY <1>10, <2>1, <2>2, <2>3, <2>4 DEF TimetableSet, daySlotsDeleteTx
<1>11. ASSUME NewDay
       PROVE  TypeOK'
    BY <1>11 DEF NewDay
<1>12. ASSUME NEW d \in DayIDs, DeleteDay(d)
       PROVE  TypeOK'
    <2>1. IsTable(event_slots, SlotIDs, SlotRow)'
        BY <1>12, DropTable DEF DeleteDay
    <2> QED
        BY <1>12, <2>1 DEF DeleteDay, daySlotsDeleteTx
<1>13. ASSUME NEW locked \in SUBSET listed, TimetableSetLockedSlots(locked)
       PROVE  TypeOK'
    <2>1. IsTable(event_slots, SlotIDs, SlotRow)'
        <3>1. \A s \in DOMAIN event_slots :
                 [event_slots[s] EXCEPT !.islocked = s \in locked] \in SlotRow
            <4> SUFFICES ASSUME NEW s \in DOMAIN event_slots
                         PROVE  [event_slots[s] EXCEPT !.islocked = s \in locked]
                                    \in SlotRow
                OBVIOUS
            <4>1. \A b \in BOOLEAN : [event_slots[s] EXCEPT !.islocked = b] \in SlotRow
                BY DEF IsTable, SlotRow
            <4>2. (s \in locked) \in BOOLEAN
                OBVIOUS
            <4> QED
                BY <4>1, <4>2
        <3> QED
            BY <1>13, <3>1 DEF TimetableSetLockedSlots, IsTable
    <2> QED
        BY <1>13, <2>1 DEF TimetableSetLockedSlots
<1>14. ASSUME NewLocation
       PROVE  TypeOK'
    BY <1>14 DEF NewLocation
<1>15. ASSUME NEW l \in LocationIDs, DeleteLocation(l)
       PROVE  TypeOK'
    BY <1>15 DEF DeleteLocation
<1>16. ASSUME NEW p \in Schedulers, makeSnapshot(p)
       PROVE  TypeOK'
    <2>0. PICK placed \in SUBSET ssDiscussions :
             \E at \in [placed -> SchedulableSlots \X event_locations] :
                plan' = [plan EXCEPT ![p] = [slots |-> SchedulableSlots,
                                             entries |-> PlannedEntries(at)]]
        BY <1>16 DEF makeSnapshot
    <2>1. PICK at \in [placed -> SchedulableSlots \X event_locations] :
             plan' = [plan EXCEPT ![p] = [slots |-> SchedulableSlots,
                                          entries |-> PlannedEntries(at)]]
        BY <2>0
    <2>2. SchedulableSlots \subseteq SlotIDs
        BY DEF SchedulableSlots, NonBreakSlots, IsTable
    <2>3. \A r \in placed : r[1] \in DiscussionIDs
        BY DEF ssDiscussions, IsTable, ScheduleRow
    <2>4. \A r \in placed : at[r][1] \in SlotIDs /\ at[r][2] \in LocationIDs
        BY <2>2
    <2>5. PlannedEntries(at) \subseteq ScheduleRow
        BY <2>3, <2>4 DEF PlannedEntries, ScheduleRow
    <2>6. (plan \in [Schedulers -> PlanType \cup {NoPlan}])'
        BY <2>1, <2>2, <2>5 DEF PlanType
    <2>7. UNCHANGED dbVars
        BY <1>16 DEF makeSnapshot
    <2> QED
        BY <2>6, <2>7
<1>17. ASSUME NEW p \in Schedulers, scheduleSet(p)
       PROVE  TypeOK'
    <2>1. plan[p].entries \subseteq ScheduleRow
        BY <1>17 DEF scheduleSet, EntriesOutside, PlanType
    <2> QED
        BY <1>17, <2>1 DEF scheduleSet, EntriesOutside
<1>18. ASSUME NEW p \in Schedulers, scheduleFail(p)
       PROVE  TypeOK'
    BY <1>18 DEF scheduleFail
<1>19. CASE UNCHANGED vars
    BY <1>19 DEF vars
<1>20. CASE UserStep
    BY <1>1, <1>2, <1>3, <1>4, <1>20, AdminUsernameAssumption
    DEF UserStep, NewUser, handleAdminPwd
<1>21. CASE DiscussionStep
    BY <1>5, <1>6, <1>7, <1>8, <1>9, <1>21 DEF DiscussionStep
<1>22. CASE TimetableStep \/ LocationStep
    BY <1>10, <1>11, <1>12, <1>13, <1>14, <1>15, <1>22
    DEF TimetableStep, LocationStep
<1>23. CASE ScheduleStep
    BY <1>16, <1>17, <1>18, <1>23 DEF ScheduleStep
<1> QED
    BY <1>19, <1>20, <1>21, <1>22, <1>23 DEF Next

\* Type correctness, for every value of the constants.
THEOREM TypeCorrect == Spec => []TypeOK
    BY InitTypeOK, NextTypeOK, PTL DEF Spec

-----------------------------------------------------------------------------
(* References and places.  The plan that scheduleSet writes was made from     *)
(* older tables: what makes it fit the tables of now is that it only names    *)
(* slots that scheduleSet checks again, and at most one discussion for each   *)
(* place.  PlansFit says so, and is the strengthening that ForeignKeys and    *)
(* OnePerPlace need.                                                          *)

UniquePlaces(E) ==
    \A e, f \in E : (e.slotid = f.slotid /\ e.locationid = f.locationid) => e = f

PlansFit ==
    \A p \in Schedulers : plan[p] # NoPlan =>
        /\ \A e \in plan[p].entries : e.slotid \in plan[p].slots
        /\ UniquePlaces(plan[p].entries)

\* The plan that makeSnapshot makes fits.
LEMMA SnapshotFits ==
    ASSUME TypeOK, NEW p \in Schedulers, makeSnapshot(p)
    PROVE  /\ plan'[p].slots = SchedulableSlots
           /\ \A e \in plan'[p].entries : e.slotid \in plan'[p].slots
           /\ UniquePlaces(plan'[p].entries)
           /\ \A q \in Schedulers \ {p} : plan'[q] = plan[q]
           /\ UNCHANGED dbVars
<1>0. PICK placed \in SUBSET ssDiscussions :
         \E at \in [placed -> SchedulableSlots \X event_locations] :
            /\ IsPlacement(at)
            /\ plan' = [plan EXCEPT ![p] = [slots |-> SchedulableSlots,
                                            entries |-> PlannedEntries(at)]]
    BY DEF makeSnapshot
<1>1. PICK at \in [placed -> SchedulableSlots \X event_locations] :
         /\ IsPlacement(at)
         /\ plan' = [plan EXCEPT ![p] = [slots |-> SchedulableSlots,
                                         entries |-> PlannedEntries(at)]]
    BY <1>0
<1>2. /\ plan'[p] = [slots |-> SchedulableSlots, entries |-> PlannedEntries(at)]
      /\ \A q \in Schedulers \ {p} : plan'[q] = plan[q]
    BY <1>1 DEF TypeOK, ScheduleTypeOK
<1>3. \A e \in PlannedEntries(at) : e.slotid \in SchedulableSlots
    BY DEF PlannedEntries
<1>4. UniquePlaces(PlannedEntries(at))
    <2> SUFFICES ASSUME NEW q \in placed, NEW r \in placed,
                        at[q][1] = at[r][1], at[q][2] = at[r][2]
                 PROVE  q = r
        BY DEF UniquePlaces, PlannedEntries
    <2>1. at[q] = at[r]
        OBVIOUS
    <2> QED
        BY <1>1, <2>1 DEF IsPlacement, IsInjective
<1>5. UNCHANGED dbVars
    BY DEF makeSnapshot
<1> QED
    BY <1>2, <1>3, <1>4, <1>5

\* A slot that TimetableSet keeps or adds is of a day that it keeps or adds.
LEMMA SlotsAfterDays ==
    ASSUME TypeOK, SlotRefs, NEW t \in Timetables, TimetableSet(t)
    PROVE  SlotRefs'
<1>1. PICK new \in SUBSET (SlotIDs \ generated) :
         \E pos \in Bijection(new, NewPositions(t)) :
            event_slots' = SlotsAfter(t, new, pos)
    BY DEF TimetableSet
<1>2. PICK pos \in Bijection(new, NewPositions(t)) :
         event_slots' = SlotsAfter(t, new, pos)
    BY <1>1
<1> DEFINE kept == DOMAIN event_slots \ DroppedSlots(t)
<1>3. /\ DOMAIN event_slots' = kept \cup new
      /\ \A s \in kept : event_slots'[s].dayid = event_slots[s].dayid
      /\ \A s \in new \ kept : event_slots'[s].dayid = pos[s][1]
    <2>1. \A s \in kept : event_slots[s] \in SlotRow
        BY DEF TypeOK, DBTypeOK, IsTable
    <2> QED
        BY <1>2, <2>1 DEF SlotsAfter, SlotRow
<1>4. ASSUME NEW s \in kept PROVE event_slots[s].dayid \in NextDays(t)
    <2>1. PositionOf(s) \in Positions(t)
        BY <1>4 DEF DroppedSlots
    <2>2. event_slots[s].dayid \in 1..Len(t)
        BY <2>1, PositionType DEF PositionOf
    <2> QED
        BY <2>2, TimetablesAssumption DEF NextDays, SlotRefs
<1>5. ASSUME NEW s \in new PROVE pos[s][1] \in NextDays(t)
    BY <1>5 DEF TimetableSet, Bijection, Injection
<1> QED
    BY <1>3, <1>4, <1>5 DEF SlotRefs, TimetableSet

RefInv == TypeOK /\ ForeignKeys /\ OnePerPlace /\ PlansFit

LEMMA InitRefInv == Init => RefInv
<1> SUFFICES ASSUME Init PROVE RefInv
    OBVIOUS
<1>1. TypeOK
    BY InitTypeOK
<1>2. ForeignKeys /\ OnePerPlace
    BY DEF Init, DBInit, EmptyTable, ForeignKeys, DiscussionRefs, InterestRefs,
           PossibleSlotRefs, SlotRefs, ScheduleRefs, OnePerPlace
<1>3. PlansFit
    BY DEF Init, ScheduleInit, PlansFit
<1> QED
    BY <1>1, <1>2, <1>3 DEF RefInv

LEMMA NextRefInv == RefInv /\ [Next]_vars => RefInv'
<1> SUFFICES ASSUME RefInv, [Next]_vars PROVE RefInv'
    OBVIOUS
<1>0. TypeOK /\ TypeOK'
    BY NextTypeOK DEF RefInv
<1> DEFINE Refs == ForeignKeys /\ OnePerPlace /\ PlansFit
<1> USE DEF ForeignKeys, personTables, timeTables, placeTables, dbVars
<1>1. ASSUME NEW u \in UserIDs, NEW name \in Usernames, NEW a \in BOOLEAN,
             NEW v \in BOOLEAN, InsertUser(u, name, a, v)
      PROVE  Refs'
    BY <1>1 DEF RefInv, InsertUser, Put, DiscussionRefs, InterestRefs,
                PossibleSlotRefs, SlotRefs, ScheduleRefs, OnePerPlace, PlansFit
<1>2. ASSUME NEW u \in UserIDs, NEW v \in BOOLEAN, SetVerified(u, v)
      PROVE  Refs'
    BY <1>2 DEF RefInv, SetVerified, DiscussionRefs, InterestRefs,
                PossibleSlotRefs, SlotRefs, ScheduleRefs, OnePerPlace, PlansFit
<1>3. ASSUME NEW u \in UserIDs, NEW d \in DiscussionIDs,
             NEW n \in 0..InterestMax, SetInterest(u, d, n)
      PROVE  Refs'
    <2>1. InterestRefs'
        BY <1>3 DEF RefInv, SetInterest, setInterestTx, InterestRefs, Put, Drop,
                    Restrict
    <2> QED
        BY <1>3, <2>1 DEF RefInv, SetInterest, DiscussionRefs,
                PossibleSlotRefs, SlotRefs, ScheduleRefs, OnePerPlace, PlansFit
<1>4. ASSUME NEW u \in UserIDs, DeleteUser(u)
      PROVE  Refs'
    <2>1. InterestRefs'
        BY <1>4 DEF RefInv, DeleteUser, deleteDiscussionCommon, InterestRefs, Drop,
                    Restrict
    <2>2. DiscussionRefs'
        BY <1>4 DEF RefInv, DeleteUser, deleteDiscussionCommon, DiscussionRefs,
                    DiscussionsOwnedBy, Drop, Restrict
    <2>3. (PossibleSlotRefs /\ ScheduleRefs /\ SlotRefs)'
        BY <1>4 DEF RefInv, DeleteUser, deleteDiscussionCommon, PossibleSlotRefs,
                    ScheduleRefs, SlotRefs, Drop, Restrict
    <2> QED
        BY <1>4, <2>1, <2>2, <2>3
        DEF RefInv, DeleteUser, deleteDiscussionCommon, OnePerPlace, PlansFit
<1>5. ASSUME NEW d \in DiscussionIDs, NEW u \in UserIDs, NEW title \in Titles,
             NewDiscussion(d, u, title)
      PROVE  Refs'
    BY <1>5 DEF RefInv, NewDiscussion, setInterestTx, Put, DiscussionRefs,
                InterestRefs, PossibleSlotRefs, SlotRefs, ScheduleRefs,
                OnePerPlace, PlansFit
<1>6. ASSUME NEW d \in DiscussionIDs, NEW u \in UserIDs, NEW title \in Titles,
             DiscussionUpdate(d, u, title)
      PROVE  Refs'
    BY <1>6 DEF RefInv, DiscussionUpdate, ownerIsVerified, setInterestTx, Put, DiscussionRefs,
                InterestRefs, PossibleSlotRefs, SlotRefs, ScheduleRefs,
                OnePerPlace, PlansFit
<1>7. ASSUME NEW d \in DiscussionIDs, NEW public \in BOOLEAN,
             DiscussionSetPublic(d, public)
      PROVE  Refs'
    BY <1>7 DEF RefInv, DiscussionSetPublic, DiscussionRefs, InterestRefs,
                PossibleSlotRefs, SlotRefs, ScheduleRefs, OnePerPlace, PlansFit
<1>8. ASSUME NEW d \in DiscussionIDs, NEW checked \in SUBSET listed,
             DiscussionSetPossibleSlots(d, checked)
      PROVE  Refs'
    BY <1>8 DEF RefInv, DiscussionSetPossibleSlots, OtherRows, DiscussionRefs, InterestRefs,
                PossibleSlotRefs, SlotRefs, ScheduleRefs, OnePerPlace, PlansFit
<1>9. ASSUME NEW d \in DiscussionIDs, DeleteDiscussion(d)
      PROVE  Refs'
    BY <1>9 DEF RefInv, DeleteDiscussion, deleteDiscussionCommon, Drop, Restrict,
                DiscussionRefs, InterestRefs, PossibleSlotRefs, SlotRefs,
                ScheduleRefs, OnePerPlace, PlansFit
<1>10. ASSUME NEW t \in Timetables, TimetableSet(t)
       PROVE  Refs'
    <2>1. DOMAIN event_slots \ DroppedSlots(t) \subseteq DOMAIN event_slots'
        BY <1>10 DEF TimetableSet, SlotsAfter
    <2>2. SlotRefs'
        BY <1>10, SlotsAfterDays DEF RefInv
    <2>3. (PossibleSlotRefs /\ ScheduleRefs)'
        BY <1>10, <2>1 DEF RefInv, TimetableSet, daySlotsDeleteTx, MayDeleteSlots,
                           PossibleSlotRefs, ScheduleRefs
    <2> QED
        BY <1>10, <2>2, <2>3 DEF RefInv, TimetableSet, daySlotsDeleteTx,
                      DiscussionRefs, InterestRefs, OnePerPlace, PlansFit
<1>11. ASSUME NewDay
       PROVE  Refs'
    BY <1>11 DEF RefInv, NewDay, DiscussionRefs, InterestRefs, PossibleSlotRefs,
                 SlotRefs, ScheduleRefs, OnePerPlace, PlansFit
<1>12. ASSUME NEW d \in DayIDs, DeleteDay(d)
       PROVE  Refs'
    BY <1>12 DEF RefInv, DeleteDay, daySlotsDeleteTx, MayDeleteSlots, Drop, Restrict,
                 DiscussionRefs, InterestRefs, PossibleSlotRefs, SlotRefs,
                 ScheduleRefs, OnePerPlace, PlansFit
<1>13. ASSUME NEW locked \in SUBSET listed, TimetableSetLockedSlots(locked)
       PROVE  Refs'
    <2>1. /\ DOMAIN event_slots' = DOMAIN event_slots
          /\ \A s \in DOMAIN event_slots :
                event_slots'[s].dayid = event_slots[s].dayid
        BY <1>0, <1>13 DEF TypeOK, DBTypeOK, IsTable, SlotRow,
                           TimetableSetLockedSlots
    <2> QED
        BY <1>13, <2>1 DEF RefInv, TimetableSetLockedSlots, DiscussionRefs,
            InterestRefs, PossibleSlotRefs, SlotRefs, ScheduleRefs, OnePerPlace,
            PlansFit
<1>14. ASSUME NewLocation
       PROVE  Refs'
    BY <1>14 DEF RefInv, NewLocation, DiscussionRefs, InterestRefs, PossibleSlotRefs,
                 SlotRefs, ScheduleRefs, OnePerPlace, PlansFit
<1>15. ASSUME NEW l \in LocationIDs, DeleteLocation(l)
       PROVE  Refs'
    BY <1>15 DEF RefInv, DeleteLocation, DiscussionRefs, InterestRefs,
                 PossibleSlotRefs, SlotRefs, ScheduleRefs, OnePerPlace, PlansFit
<1>16. ASSUME NEW p \in Schedulers, makeSnapshot(p)
       PROVE  Refs'
    <2>1. PlansFit'
        BY <1>0, <1>16, SnapshotFits DEF RefInv, PlansFit
    <2> QED
        BY <1>0, <1>16, <2>1, SnapshotFits DEF RefInv, DiscussionRefs, InterestRefs,
            PossibleSlotRefs, SlotRefs, ScheduleRefs, OnePerPlace
<1>17. ASSUME NEW p \in Schedulers, scheduleSet(p)
       PROVE  Refs'
    <2>1. /\ \A e \in plan[p].entries : e.slotid \in plan[p].slots
          /\ UniquePlaces(plan[p].entries)
        BY <1>17 DEF RefInv, PlansFit, scheduleSet
    <2>2. ScheduleRefs'
        BY <1>17, <2>1 DEF RefInv, scheduleSet, EntriesOutside, ScheduleSetOK, SchedulableSlots,
                           NonBreakSlots, ScheduleRefs
    <2>3. OnePerPlace'
        BY <1>17, <2>1 DEF RefInv, scheduleSet, EntriesOutside, OnePerPlace, UniquePlaces
    <2>4. PlansFit'
        BY <1>0, <1>17 DEF RefInv, scheduleSet, EntriesOutside, PlansFit, TypeOK, ScheduleTypeOK
    <2> QED
        BY <1>17, <2>2, <2>3, <2>4 DEF RefInv, scheduleSet, EntriesOutside, DiscussionRefs,
                            InterestRefs, PossibleSlotRefs, SlotRefs
<1>18. ASSUME NEW p \in Schedulers, scheduleFail(p)
       PROVE  Refs'
    <2>1. PlansFit'
        BY <1>0, <1>18 DEF RefInv, scheduleFail, PlansFit, TypeOK, ScheduleTypeOK
    <2> QED
        BY <1>18, <2>1 DEF RefInv, scheduleFail, DiscussionRefs, InterestRefs,
            PossibleSlotRefs, SlotRefs, ScheduleRefs, OnePerPlace
<1> SUFFICES Refs'
    BY <1>0 DEF RefInv
<1>19. CASE UNCHANGED vars
    BY <1>19 DEF RefInv, vars, DiscussionRefs, InterestRefs, PossibleSlotRefs,
                 SlotRefs, ScheduleRefs, OnePerPlace, PlansFit
<1> HIDE DEF Refs
<1>20. CASE UserStep
    BY <1>1, <1>2, <1>3, <1>4, <1>20, AdminUsernameAssumption
    DEF UserStep, NewUser, handleAdminPwd
<1>21. CASE DiscussionStep
    BY <1>5, <1>6, <1>7, <1>8, <1>9, <1>21 DEF DiscussionStep
<1>22. CASE TimetableStep \/ LocationStep
    BY <1>10, <1>11, <1>12, <1>13, <1>14, <1>15, <1>22
    DEF TimetableStep, LocationStep
<1>23. CASE ScheduleStep
    BY <1>16, <1>17, <1>18, <1>23 DEF ScheduleStep
<1> QED
    BY <1>19, <1>20, <1>21, <1>22, <1>23 DEF Next

\* No row ever refers to a row that is gone: what the deletes of package event
\* leave behind satisfies the foreign keys, and so does a plan that is written
\* long after it was made.
THEOREM ForeignKeysHold == Spec => []ForeignKeys
<1>1. RefInv => ForeignKeys
    BY DEF RefInv
<1> QED
    BY <1>1, InitRefInv, NextRefInv, PTL DEF Spec

\* No place is given to two discussions at one time.
THEOREM OnePerPlaceHolds == Spec => []OnePerPlace
<1>1. RefInv => OnePerPlace
    BY DEF RefInv
<1> QED
    BY <1>1, InitRefInv, NextRefInv, PTL DEF Spec

-----------------------------------------------------------------------------
(* What third parties get to see of a discussion.                            *)

\* The text of a public discussion is the approved one.  Without it an edit by an
\* unverified owner, which hides the new text, could bring back an older one.
PublicIsApproved ==
    \A d \in DOMAIN event_discussions :
        event_discussions[d].ispublic =>
            event_discussions[d].approved = event_discussions[d].title

LEMMA InitPublicIsApproved == Init => PublicIsApproved
    BY DEF Init, DBInit, EmptyTable, PublicIsApproved

\* Steps that at most delete discussions.
LEMMA FewerDiscussions ==
    ASSUME PublicIsApproved, DOMAIN event_discussions' \subseteq DOMAIN event_discussions,
           \A d \in DOMAIN event_discussions' :
               event_discussions'[d] = event_discussions[d]
    PROVE  PublicIsApproved' /\ ModeratedStep
    BY DEF PublicIsApproved, ModeratedStep, ThirdPartyView

\* Steps that write one discussion, d.
LEMMA OneDiscussion ==
    ASSUME PublicIsApproved, NEW d,
           DOMAIN event_discussions' = DOMAIN event_discussions \cup {d},
           \A x \in DOMAIN event_discussions \ {d} :
               event_discussions'[x] = event_discussions[x],
           event_discussions'[d].ispublic =>
               event_discussions'[d].approved = event_discussions'[d].title,
           LET row == event_discussions'[d]
               seen == IF d \in DOMAIN event_discussions THEN ThirdPartyView(d)
                                                         ELSE NoTitle
           IN  \/ ThirdPartyView(d)' \in {seen, NoTitle}
               \/ event_users'[row.owner].isverified
               \/ /\ d \in DOMAIN event_discussions
                  /\ event_discussions[d].title = row.title
                  /\ event_discussions[d].owner = row.owner
    PROVE  PublicIsApproved' /\ ModeratedStep
    BY DEF PublicIsApproved, ModeratedStep, ThirdPartyView

LEMMA NextModerated ==
    TypeOK /\ PublicIsApproved /\ [Next]_vars
        => PublicIsApproved' /\ [ModeratedStep]_vars
<1> SUFFICES ASSUME TypeOK, PublicIsApproved, [Next]_vars
             PROVE  PublicIsApproved' /\ [ModeratedStep]_vars
    OBVIOUS
<1> DEFINE Kept == PublicIsApproved' /\ ModeratedStep
           Fewer == /\ DOMAIN event_discussions' \subseteq DOMAIN event_discussions
                    /\ \A d \in DOMAIN event_discussions' :
                          event_discussions'[d] = event_discussions[d]
<1> USE DEF personTables, timeTables, placeTables, dbVars
<1>0. \A d \in DOMAIN event_discussions : event_discussions[d] \in DiscussionRow
    BY DEF TypeOK, DBTypeOK, IsTable
<1>1. ASSUME NEW D, deleteDiscussionCommon(D) PROVE Fewer
    BY <1>1 DEF deleteDiscussionCommon, Drop, Restrict
<1>2. CASE UserStep
    <2>1. Fewer
        BY <1>1, <1>2 DEF UserStep, NewUser, handleAdminPwd, InsertUser,
                          SetVerified, SetInterest, DeleteUser
    <2> QED
        BY <2>1, FewerDiscussions
<1>3. ASSUME NEW d \in DiscussionIDs, NEW u \in UserIDs, NEW title \in Titles,
             NewDiscussion(d, u, title)
      PROVE  Kept
    <2>1. /\ DOMAIN event_discussions' = DOMAIN event_discussions \cup {d}
          /\ \A x \in DOMAIN event_discussions \ {d} :
                event_discussions'[x] = event_discussions[x]
          /\ event_discussions'[d] =
                [owner |-> u, title |-> title,
                 ispublic |-> event_users[u].isverified,
                 approved |-> IF event_users[u].isverified THEN title ELSE NoTitle]
          /\ event_users' = event_users
        BY <1>3 DEF NewDiscussion, Put
    <2>2. event_users[u].isverified \/ ThirdPartyView(d)' = NoTitle
        BY <2>1 DEF ThirdPartyView
    <2> QED
        BY <2>1, <2>2, OneDiscussion
<1>4. ASSUME NEW d \in DiscussionIDs, NEW u \in UserIDs, NEW title \in Titles,
             DiscussionUpdate(d, u, title)
      PROVE  Kept
    <2>1. /\ d \in DOMAIN event_discussions
          /\ DOMAIN event_discussions' = DOMAIN event_discussions \cup {d}
          /\ \A x \in DOMAIN event_discussions \ {d} :
                event_discussions'[x] = event_discussions[x]
          /\ event_discussions'[d] =
                [owner |-> u, title |-> title,
                 ispublic |-> event_users[u].isverified,
                 approved |-> IF event_users[u].isverified
                              THEN title ELSE event_discussions[d].approved]
          /\ event_users' = event_users
        BY <1>4 DEF DiscussionUpdate, ownerIsVerified
    <2>2. event_users[u].isverified \/ ThirdPartyView(d)' = ThirdPartyView(d)
        BY <2>1 DEF ThirdPartyView, PublicIsApproved
    <2> QED
        BY <2>1, <2>2, OneDiscussion
<1>5. ASSUME NEW d \in DiscussionIDs, NEW public \in BOOLEAN,
             DiscussionSetPublic(d, public)
      PROVE  Kept
    <2>1. /\ d \in DOMAIN event_discussions
          /\ DOMAIN event_discussions' = DOMAIN event_discussions \cup {d}
          /\ \A x \in DOMAIN event_discussions \ {d} :
                event_discussions'[x] = event_discussions[x]
          /\ event_discussions'[d].owner = event_discussions[d].owner
          /\ event_discussions'[d].title = event_discussions[d].title
          /\ event_discussions'[d].ispublic = public
          /\ event_discussions'[d].approved =
                IF public THEN event_discussions[d].title ELSE NoTitle
        BY <1>0, <1>5 DEF DiscussionSetPublic, DiscussionRow
    <2> QED
        BY <2>1, OneDiscussion
<1>6. CASE DiscussionStep
    <2>1. CASE \E d \in DiscussionIDs :
                  \/ DeleteDiscussion(d)
                  \/ \E checked \in SUBSET listed :
                        DiscussionSetPossibleSlots(d, checked)
        <3>1. Fewer
            BY <1>1, <2>1 DEF DeleteDiscussion, DiscussionSetPossibleSlots
        <3> QED
            BY <3>1, FewerDiscussions
    <2> QED
        BY <1>3, <1>4, <1>5, <1>6, <2>1 DEF DiscussionStep
<1>7. CASE TimetableStep \/ LocationStep \/ ScheduleStep \/ UNCHANGED vars
    <2>1. event_discussions' = event_discussions
        BY <1>7 DEF TimetableStep, TimetableSet, TimetableSetLockedSlots, NewDay,
                    DeleteDay, LocationStep, NewLocation, DeleteLocation,
                    ScheduleStep, makeSnapshot, scheduleSet, scheduleFail, vars
    <2> QED
        BY <2>1, FewerDiscussions
<1> QED
    BY <1>2, <1>6, <1>7 DEF Next

\* Moderation: third parties see a new text only when its owner is verified, or by
\* approving a text that was stored before, for any number of users and any order
\* of edits, approvals and changes of verification or of owner.
THEOREM ModeratedHolds == Spec => Moderated
    BY InitTypeOK, NextTypeOK, InitPublicIsApproved, NextModerated, PTL
    DEF Spec, Moderated
=============================================================================

------------------------------ MODULE Timetable ------------------------------
(* event/timetable.go: the days and their slots.  A submitted timetable is a *)
(* sequence of days; a day has the isbreak flags of its slots in order, and  *)
(* tells whether its name and time span pass the checks of timetableSetTx.   *)
EXTENDS EventDB

CONSTANT Timetables     \* the timetables that editors submit

ASSUME TimetablesAssumption ==
    \A t \in Timetables :
        /\ t \in Seq([valid : BOOLEAN, slots : Seq(BOOLEAN)])
        /\ Len(t) <= MaxDays

-----------------------------------------------------------------------------
\* A <<day, slot>> combination that t has.
Positions(t) == UNION {{i} \X (1..Len(t[i].slots)) : i \in 1..Len(t)}

PositionOf(s) == <<event_slots[s].dayid, event_slots[s].slotidx>>

\* daySlotsDeleteTx: refused for locked slots, and by the foreign key of
\* event_discussions_possible_slots, whose rows it does not delete.  (Those of
\* event_schedule it does.)
MayDeleteSlots(S) ==
    /\ \A s \in S : ~event_slots[s].islocked
    /\ \A p \in event_discussions_possible_slots : p[2] \notin S

daySlotsDeleteTx(S) ==
    /\ MayDeleteSlots(S)
    /\ event_schedule' = {e \in event_schedule : e.slotid \notin S}
    /\ UNCHANGED event_discussions_possible_slots

\* The slots that disappear with t.
DroppedSlots(t) == {s \in DOMAIN event_slots : PositionOf(s) \notin Positions(t)}

\* Mutant: from the last slot on, instead of after it.
NewPositionsFromLast(t) ==
    {p \in Positions(t) :
        \A s \in DOMAIN event_slots :
            event_slots[s].dayid = p[1] => event_slots[s].slotidx <= p[2]}

\* The positions past the current last slot of their day.
NewPositions(t) ==
    {p \in Positions(t) :
        \A s \in DOMAIN event_slots :
            event_slots[s].dayid = p[1] => event_slots[s].slotidx < p[2]}

\* timetableSetTx: days past Len(t) are deleted, days past the current last are
\* added.
NextDays(t) == {d \in event_days : d <= Len(t)}
                   \cup {d \in 1..Len(t) : \A m \in event_days : m < d}

\* ErrDayNotFound, for a day between Len(t) and the last day that is not there.
NoMissingDay(t) ==
    \A d \in DayIDs :
        (Len(t) < d /\ \E m \in event_days : d <= m) => d \in event_days

\* Slots that stay keep their id and their lock and take the new isbreak flag; the
\* slots new are added, unlocked, at the positions pos.
SlotsAfter(t, new, pos) ==
    LET kept == DOMAIN event_slots \ DroppedSlots(t)
        flag(p) == t[p[1]].slots[p[2]]
    IN  [s \in kept \cup new |->
            IF s \in kept
            THEN [event_slots[s] EXCEPT !.isbreak = flag(PositionOf(s))]
            ELSE [dayid |-> pos[s][1], slotidx |-> pos[s][2],
                  isbreak |-> flag(pos[s]), islocked |-> FALSE]]

TimetableSet(t) ==
    /\ \A i \in 1..Len(t) : t[i].valid
    /\ NoMissingDay(t)
    /\ \A p \in NewPositions(t) : p[1] \in NextDays(t)
    /\ event_days' = NextDays(t)
    /\ daySlotsDeleteTx(DroppedSlots(t))
    /\ \E new \in SUBSET (SlotIDs \ generated) :
       \E pos \in Bijection(new, NewPositions(t)) :
          /\ event_slots' = SlotsAfter(t, new, pos)
          /\ generated' = generated \cup new
    /\ listed' = listed \cup NonBreakSlots'
    /\ UNCHANGED <<personTables, event_locations, plan>>

NewDay ==
    /\ \E d \in DayIDs :
           /\ IsNextKey(event_days, d)
           /\ event_days' = event_days \cup {d}
    /\ UNCHANGED <<personTables, event_locations, event_slots, listed,
                   placeTables, generated, plan>>

DeleteDay(d) ==
    LET slots == {s \in DOMAIN event_slots : event_slots[s].dayid = d}
    IN  /\ d \in event_days
        /\ daySlotsDeleteTx(slots)
        /\ event_slots' = Drop(event_slots, slots)
        /\ event_days' = event_days \ {d}
        /\ UNCHANGED <<personTables, event_locations, listed, generated, plan>>

\* The list of locked slots comes from a form; every slot not on it is unlocked.
TimetableSetLockedSlots(locked) ==
    /\ event_slots' = [s \in DOMAIN event_slots |->
                          [event_slots[s] EXCEPT !.islocked = s \in locked]]
    /\ UNCHANGED <<personTables, event_locations, event_days, listed,
                   placeTables, generated, plan>>
=============================================================================

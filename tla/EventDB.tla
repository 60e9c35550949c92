------------------------------- MODULE EventDB -------------------------------
(***************************************************************************)
(* The tables of data/event.sqlite (event/event.sql, event/eventdb.go) and *)
(* the constraints that SQLite enforces on them.  The modules Users,       *)
(* Discussions, Timetable, Locations and Schedule give the operations of   *)
(* package event on these tables; EventStore composes them.                *)
(*                                                                         *)
(* A table with a primary key is a function from the keys of its rows to   *)
(* the rest of the row, a table without one is a set of rows.  Every       *)
(* operation of package event is one SQL transaction (or one statement),   *)
(* so it is one step: a transaction that returns an error is rolled back   *)
(* and is a disabled action.                                               *)
(***************************************************************************)
EXTENDS Integers, FiniteSets, Sequences, Functions

CONSTANTS
    UserIDs, DiscussionIDs, SlotIDs, \* what id.GenerateID can return
    Usernames, AdminUsername,
    Titles, NoTitle,                 \* a Title stands for <title, description>
    InterestMax,
    MaxLocations, MaxDays            \* bounds on the integer keys

ASSUME AdminUsernameAssumption == AdminUsername \in Usernames
ASSUME NoTitleAssumption == NoTitle \notin Titles
ASSUME InterestMaxAssumption == InterestMax \in Nat \ {0}
ASSUME BoundsAssumption == MaxLocations \in Nat /\ MaxDays \in Nat

VARIABLES
    event_users, event_discussions, event_interest,
    event_discussions_possible_slots,
    event_locations, event_days, event_slots, event_schedule,
    generated,      \* every id handed out so far: GenerateID never repeats one
    listed,         \* every slot that a form could list: those that were once
                    \* not a break
    plan            \* what each run of MakeSchedule is about to write

personTables == <<event_users, event_discussions, event_interest>>
timeTables == <<event_locations, event_days, event_slots, listed>>
placeTables == <<event_discussions_possible_slots, event_schedule>>
dbVars == <<personTables, timeTables, placeTables, generated>>
vars == <<dbVars, plan>>

-----------------------------------------------------------------------------
(* Row types.                                                              *)

LocationIDs == 1..MaxLocations
DayIDs == 1..MaxDays
Interests == 1..InterestMax

UserRow == [username : Usernames, isadmin : BOOLEAN, isverified : BOOLEAN]
DiscussionRow == [owner : UserIDs, title : Titles,
                  approved : Titles \cup {NoTitle}, ispublic : BOOLEAN]
SlotRow == [dayid : DayIDs, slotidx : Nat \ {0},
            isbreak : BOOLEAN, islocked : BOOLEAN]
ScheduleRow == [discussionid : DiscussionIDs, slotid : SlotIDs,
                locationid : LocationIDs]

\* f is a table whose keys are in K and whose rows are in R.
IsTable(f, K, R) == DOMAIN f \subseteq K /\ f \in [DOMAIN f -> R]

\* insert (or, for a key already there, replace) a row
Put(f, key, row) ==
    [k \in DOMAIN f \cup {key} |-> IF k = key THEN row ELSE f[k]]

\* delete the rows with the given keys
Drop(f, keys) == Restrict(f, DOMAIN f \ keys)

\* select ifnull(max(id), 0) + 1 : n is the next integer key of the set of keys
IsNextKey(keys, n) ==
    /\ \A k \in keys : k < n
    /\ n = 1 \/ n - 1 \in keys

EmptyTable == [k \in {} |-> k]

\* A new database: openDb has created the tables and handleAdminPwd the
\* administrator, u.  Every process does both before anything else.
DBInit ==
    /\ \E u \in UserIDs :
          /\ event_users = Put(EmptyTable, u, [username |-> AdminUsername,
                                               isadmin |-> TRUE,
                                               isverified |-> TRUE])
          /\ generated = {u}
    /\ event_discussions = EmptyTable
    /\ event_interest = EmptyTable
    /\ event_discussions_possible_slots = {}
    /\ event_locations = {}
    /\ event_days = {}
    /\ event_slots = EmptyTable
    /\ event_schedule = {}
    /\ listed = {}

DBTypeOK ==
    /\ IsTable(event_users, UserIDs, UserRow)
    /\ IsTable(event_discussions, DiscussionIDs, DiscussionRow)
    /\ IsTable(event_interest, UserIDs \X DiscussionIDs, Interests)
    /\ event_discussions_possible_slots \subseteq DiscussionIDs \X SlotIDs
    /\ event_locations \subseteq LocationIDs
    /\ event_days \subseteq DayIDs
    /\ IsTable(event_slots, SlotIDs, SlotRow)
    /\ event_schedule \subseteq ScheduleRow
    /\ generated \subseteq UserIDs \cup DiscussionIDs \cup SlotIDs
    /\ listed \subseteq SlotIDs

-----------------------------------------------------------------------------
(* Queries that several operations share.                                  *)

NonBreakSlots == {s \in DOMAIN event_slots : ~event_slots[s].isbreak}
LockedSlots == {s \in DOMAIN event_slots : event_slots[s].islocked}

\* Mutant: isbreak is not looked at.
UnlockedSlots == DOMAIN event_slots \ LockedSlots

\* The slots into which the scheduler may put something.
SchedulableSlots == NonBreakSlots \ LockedSlots

SlotsOf(d) == {s \in SlotIDs : <<d, s>> \in event_discussions_possible_slots}
EntriesIn(s) == {e \in event_schedule : e.slotid = s}
EntriesOf(d) == {e \in event_schedule : e.discussionid = d}
DiscussionsOwnedBy(u) ==
    {d \in DOMAIN event_discussions : event_discussions[d].owner = u}
=============================================================================

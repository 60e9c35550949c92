---- MODULE Statements ----
(***************************************************************************)
(* What the operations of packages event, keyvalue and sessions ask of     *)
(* SQLite: for each operation the statements it executes, in order, each   *)
(* with the connection it runs on, the loop that repeats it when SQLite    *)
(* answers BUSY or LOCKED, the tables it reads and those it writes (a      *)
(* foreign key that is checked counts as a read).                          *)
(*   conn "tx"     the connection of the transaction that txLoop opened    *)
(*   conn "inner"  a transaction opened by a second txLoop inside it       *)
(*   conn "pool"   any connection of the pool; the statement commits       *)
(*                 by itself                                               *)
(***************************************************************************)
EXTENDS Naturals, Sequences

AllTables == {"users", "discussions", "interest", "locations", "days", "slots",
              "possible_slots", "schedule", "keyvalues", "sessions"}

\* One file per package, each with a shared cache of its own.
AllFiles == {{"keyvalues"}, {"sessions"}, AllTables \ {"keyvalues", "sessions"}}

Tx(r, w) == [conn |-> "tx", loop |-> "tx", reads |-> r, writes |-> w, top |-> FALSE]
Pool(r, w) == [Tx(r, w) EXCEPT !.conn = "pool"]

\* Statements that txLoop repeats with the whole function they are part of. A statement the
\* function executes under a condition, or once per row, is listed once.
NewDiscussionStmts ==
    <<Tx({"discussions"}, {}), Tx({"users"}, {}), Tx({"users"}, {}),
      Tx({"users"}, {"discussions"}), Tx({"users", "discussions"}, {"interest"})>>
DiscussionUpdateStmts ==
    <<Tx({"discussions", "users"}, {}), Tx({"users", "discussions"}, {"interest"}),
      Tx({"users"}, {}), Tx({"users"}, {"discussions"})>>
DiscussionSetPossibleSlotsStmts ==
    <<Tx({"slots"}, {}), Tx({}, {"possible_slots"}),
      Tx({"discussions", "slots"}, {"possible_slots"})>>
DeleteDiscussionStmts ==
    <<Tx({}, {"interest"}), Tx({}, {"possible_slots"}), Tx({}, {"schedule"}),
      Tx({"interest", "possible_slots", "schedule"}, {"discussions"})>>
DeleteUserStmts ==
    <<Tx({}, {"interest"}), Tx({"discussions"}, {"interest"})>>
    \o [i \in 1..4 |-> [DeleteDiscussionStmts[i] EXCEPT !.reads = @ \cup {"discussions"}]]
    \o <<Tx({"interest", "discussions"}, {"users"})>>
NewLocationStmts == <<Tx({"locations"}, {}), Tx({}, {"locations"})>>
LocationUpdateStmts == <<Tx({}, {"locations"})>>
TimetableSetLockedSlotsStmts == <<Tx({}, {"slots"})>>
GetTimetableStmts ==
    <<Tx({"days"}, {}), Tx({"slots"}, {}), Tx({"slots"}, {}),
      Tx({"interest", "schedule", "slots", "locations", "discussions"}, {})>>
daySlotsDeleteStmts ==
    <<Tx({"slots"}, {}), Tx({"slots"}, {"schedule"}),
      Tx({"schedule", "possible_slots"}, {"slots"})>>
DeleteDayStmts == Append(daySlotsDeleteStmts, Tx({"slots"}, {"days"}))
TimetableSetStmts ==
    <<Tx({"days"}, {})>> \o DeleteDayStmts
    \o <<Tx({}, {"days"}), Tx({"slots"}, {})>> \o daySlotsDeleteStmts
    \o <<Tx({"days"}, {"slots"})>>
makeSnapshotStmts ==
    <<Tx({"discussions"}, {}), Tx({"slots"}, {}), Tx({"users"}, {}), Tx({"locations"}, {}),
      Tx({"discussions", "schedule", "slots"}, {}), Tx({"possible_slots"}, {}),
      Tx({"possible_slots", "slots"}, {}), Tx({"interest"}, {})>>
scheduleSetStmts ==
    <<Tx({"slots"}, {}), Tx({}, {"schedule"}),
      Tx({"discussions", "slots", "locations"}, {"schedule"})>>
UserFindStmts == <<Tx({"users"}, {})>>
UserGetAllStmts == <<Tx({"users"}, {})>>
GetLocationTZStmts == <<Tx({"users"}, {})>>
TimetableGetLockedSlotsStmts == <<Tx({"slots"}, {})>>
NewDayStmts == <<Tx({"days"}, {}), Tx({}, {"days"})>>
DayUpdateStmts == <<Tx({}, {"days"})>>
GetInterestStmts == <<Tx({"interest"}, {})>>
DiscussionGetPossibleSlotsStmts == <<Tx({"slots", "possible_slots"}, {})>>

\* DeleteLocation opens a transaction too, and executes its statement on another connection.
DeleteLocationStmts == <<Pool({"schedule"}, {"locations"})>>

\* discussionFindByIdFullTx with q = event.DB: the last read is not part of its transaction.
DiscussionFindByIdFullStmts ==
    <<Tx({"discussions"}, {}), Tx({"users"}, {}), Tx({"locations", "schedule", "slots"}, {}),
      Pool({"slots", "possible_slots"}, {})>>

\* discussionIterateQuery loads each discussion of its list in a transaction of its own, inside
\* the one that made the list: q is the outer transaction, and the inner loop repeats the four.
\* Here the list has two. (DiscussionIterateUser executes the same with another list.)
LoadStmts ==
    [i \in 1..4 |-> [DiscussionFindByIdFullStmts[i] EXCEPT
                        !.conn = IF i = 4 THEN "tx" ELSE "inner", !.loop = "inner", !.top = i = 1]]

DiscussionIterateStmts == <<Tx({"discussions"}, {})>> \o LoadStmts \o LoadStmts

\* Single statements, each in a loop of its own without a limit.
NewUserStmts == <<Pool({}, {"users"})>>
SetInterestStmts == <<Pool({"users", "discussions"}, {"interest"})>>
UserUpdateStmts == <<Pool({}, {"users"})>>
DiscussionSetPublicStmts == <<Pool({}, {"discussions"})>>
UserFindByUsernameStmts == <<Pool({"users"}, {})>>
UserIterateStmts == <<Pool({"users"}, {})>>
UserFindRandomStmts == <<Pool({"users"}, {})>>
SetVerifiedStmts == <<Pool({}, {"users"})>>
setPasswordStmts == <<Pool({}, {"users"})>>
GetMaxScoreStmts == <<Pool({"interest"}, {})>>
DayFindByIDStmts == <<Pool({"days"}, {})>>
LocationFindByIdStmts == <<Pool({"locations"}, {})>>
LocationGetAllStmts == <<Pool({"locations"}, {})>>

\* The key-value store and the session store never repeat a statement.
SetStmts == <<Pool({}, {"keyvalues"})>>
GetStmts == <<Pool({"keyvalues"}, {})>>
UnsetStmts == <<Pool({}, {"keyvalues"})>>
ExchangeStmts == <<Tx({"keyvalues"}, {}), Tx({}, {"keyvalues"})>>
SaveStmts == <<Pool({}, {"sessions"})>>
FindStmts == <<Pool({"sessions"}, {})>>
DeleteStmts == <<Pool({}, {"sessions"})>>

EventBody ==
    [NewDiscussion |-> NewDiscussionStmts,
     DiscussionUpdate |-> DiscussionUpdateStmts,
     DiscussionSetPossibleSlots |-> DiscussionSetPossibleSlotsStmts,
     DeleteDiscussion |-> DeleteDiscussionStmts,
     DeleteUser |-> DeleteUserStmts,
     NewLocation |-> NewLocationStmts,
     LocationUpdate |-> LocationUpdateStmts,
     DeleteLocation |-> DeleteLocationStmts,
     TimetableSetLockedSlots |-> TimetableSetLockedSlotsStmts,
     GetTimetable |-> GetTimetableStmts,
     TimetableSet |-> TimetableSetStmts,
     DeleteDay |-> DeleteDayStmts,
     makeSnapshot |-> makeSnapshotStmts,
     scheduleSet |-> scheduleSetStmts,
     UserFind |-> UserFindStmts,
     GetInterest |-> GetInterestStmts,
     DiscussionGetPossibleSlots |-> DiscussionGetPossibleSlotsStmts,
     DiscussionFindByIdFull |-> DiscussionFindByIdFullStmts,
     DiscussionIterate |-> DiscussionIterateStmts,
     NewUser |-> NewUserStmts,
     SetInterest |-> SetInterestStmts,
     UserUpdate |-> UserUpdateStmts,
     DiscussionSetPublic |-> DiscussionSetPublicStmts,
     UserFindByUsername |-> UserFindByUsernameStmts,
     UserIterate |-> UserIterateStmts,
     LocationGetAll |-> LocationGetAllStmts,
     Set |-> SetStmts,
     Get |-> GetStmts,
     Exchange |-> ExchangeStmts,
     Save |-> SaveStmts,
     Find |-> FindStmts,
     UserGetAll |-> UserGetAllStmts,
     GetLocationTZ |-> GetLocationTZStmts,
     TimetableGetLockedSlots |-> TimetableGetLockedSlotsStmts,
     NewDay |-> NewDayStmts,
     DayUpdate |-> DayUpdateStmts,
     UserFindRandom |-> UserFindRandomStmts,
     SetVerified |-> SetVerifiedStmts,
     setPassword |-> setPasswordStmts,
     GetMaxScore |-> GetMaxScoreStmts,
     DayFindByID |-> DayFindByIDStmts,
     LocationFindById |-> LocationFindByIdStmts,
     Unset |-> UnsetStmts,
     Delete |-> DeleteStmts]

EventOps == DOMAIN EventBody

\* How an operation answers BUSY and LOCKED: txLoop repeats it within limits, a plain for
\* repeats it for ever, and the others return the error.
OnceOps == {"Set", "Get", "Exchange", "Unset", "Save", "Find", "Delete"}
ForOps == {"NewUser", "SetInterest", "UserUpdate", "DiscussionSetPublic",
           "UserFindByUsername", "UserFindRandom", "UserIterate", "LocationGetAll",
           "LocationFindById", "SetVerified", "setPassword", "GetMaxScore", "DayFindByID"}
EventLoop == [op \in EventOps |-> IF op \in OnceOps THEN "once"
                                  ELSE IF op \in ForOps THEN "for" ELSE "txLoop"]

\* Exchange does not look at what its commit returns.
EventUnchecked == {"Exchange"}
====

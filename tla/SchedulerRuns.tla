---------------------------- MODULE SchedulerRuns ----------------------------
(* EventStore with the plans that makeScheduleHeuristic really makes: the     *)
(* loop of module Heuristic, run to its end on the snapshot, takes the place  *)
(* of the contract that module Schedule has.  For TLC only.                   *)
EXTENDS EventStore, TLC

CONSTANT Runner

\* The loop when it has the rows T left and has put the others where D says.
Loop(T, D) == INSTANCE Heuristic WITH todo <- T, discussions <- D, unplaced <- {}

\* sched.Slots: the rows in each slot, in the order in which they were put there.
Assignments == [SchedulableSlots -> Seq(ssDiscussions)]

\* The slots' discussions that the loop can end with from state <<T, D>>: rows of
\* equal interest come in any order, and each goes to the first slot of highest
\* score, or is left out.
makeScheduleHeuristic[T \in SUBSET ssDiscussions, D \in Assignments] ==
    LET With(r) == {[D EXCEPT ![s] = Append(@, r)] : s \in Loop(T, D)!Best(r)}
        After(r) == IF With(r) = {} THEN {D} ELSE With(r)
    IN  IF T = {} THEN {D}
        ELSE UNION {UNION {makeScheduleHeuristic[T \ {r}, E] : E \in After(r)} :
                       r \in {q \in T : Loop(T, D)!IsNext(q)}}

\* The discussions of slot s take the locations in order.
EntriesOfSlot(s, rows) ==
    {[discussionid |-> rows[j][1], slotid |-> s,
      locationid |-> Loop({}, EmptyTable)!LocationAt(j)] : j \in DOMAIN rows}

HeuristicPlans ==
    LET empty == [s \in SchedulableSlots |-> <<>>]
    IN  {UNION {EntriesOfSlot(s, D[s]) : s \in SchedulableSlots} :
            D \in makeScheduleHeuristic[ssDiscussions, empty]}

\* Every plan that a step makes is one that the heuristic makes.
PlansOfHeuristic ==
    \A p \in Schedulers :
        plan[p] = NoPlan /\ plan'[p] # NoPlan => plan'[p].entries \in HeuristicPlans

-----------------------------------------------------------------------------
(* An instance: two discussions that differ in interest, so that the order of *)
(* the loop is the same in every run, two locations, and no timetable yet.    *)

CONSTANTS u1, u2, d1, d2, s1, s2, t1, t2

TitleOf == d1 :> t1 @@ d2 :> t2

Database ==
    /\ event_users = [u \in {u1, u2} |->
           [username |-> IF u = u1 THEN AdminUsername ELSE "bob", isadmin |-> u = u1,
            isverified |-> TRUE]]
    /\ event_discussions = [d \in {d1, d2} |->
           [owner |-> u1, title |-> TitleOf[d], approved |-> TitleOf[d],
            ispublic |-> TRUE]]
    /\ event_interest = [p \in {<<u1, d1>>, <<u1, d2>>, <<u2, d1>>} |-> InterestMax]
    /\ event_discussions_possible_slots = {}
    /\ event_locations = {1, 2}
    /\ event_days = {}
    /\ event_slots = EmptyTable
    /\ event_schedule = {}
    /\ generated = {u1, u2, d1, d2}
    /\ listed = {}
    /\ ScheduleInit

RunsSpec == Database /\ [][Next /\ PlansOfHeuristic]_vars

Day(n) == [valid |-> TRUE, slots |-> [i \in 1..n |-> FALSE]]

\* A slot is added to the one day.
OneMoreSlot == {<<Day(1)>>, <<Day(2)>>}

Symmetry == Permutations(SlotIDs)
=============================================================================

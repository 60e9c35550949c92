------------------------------- MODULE Schedule -------------------------------
(* event/schedule.go: MakeSchedule takes a snapshot of the database in one    *)
(* transaction, plans in memory, and writes the plan in a second transaction. *)
(* Here the plan is any that meets the contract of makeScheduleHeuristic and  *)
(* placeDiscussions; module Heuristic has the algorithm itself.               *)
EXTENDS EventDB

CONSTANTS Schedulers,   \* the processes and requests that run MakeSchedule
          NoPlan

PlanType == [slots : SUBSET SlotIDs, entries : SUBSET ScheduleRow]

ASSUME NoPlanAssumption == NoPlan \notin PlanType

ScheduleTypeOK == plan \in [Schedulers -> PlanType \cup {NoPlan}]

ScheduleInit == plan = [p \in Schedulers |-> NoPlan]

-----------------------------------------------------------------------------
(* The searchStore.                                                         *)

\* Mutant: the entries of locked slots too.
ssAllDiscussions ==
    {<<d, {}>> : d \in {x \in DOMAIN event_discussions : EntriesOf(x) = {}}}
        \cup {<<e.discussionid, {e}>> : e \in event_schedule}

\* ss.Discussions: the left join of the discussions with their entries, without
\* the entries of locked slots.  A row is a discussion with the entry that it
\* was joined to; a discussion that has several entries has several rows.
ssDiscussions ==
    {<<d, {}>> : d \in {x \in DOMAIN event_discussions : EntriesOf(x) = {}}}
        \cup {<<e.discussionid, {e}>> :
                 e \in {x \in event_schedule : ~event_slots[x.slotid].islocked}}

\* d.PossibleSlots
PossibleSlots(d) ==
    IF SlotsOf(d) = {} THEN SchedulableSlots ELSE SlotsOf(d) \cap SchedulableSlots

SnapshotFails ==
    \/ \E d \in DOMAIN event_discussions : ~event_discussions[d].ispublic
    \/ SchedulableSlots = {}
    \/ \E r \in ssDiscussions : PossibleSlots(r[1]) = {}

\* The contract of a plan: at gives the rows that are placed their slot and
\* location.  The discussions of a slot take the locations in order, and a row
\* is left out only when every slot it could go to is full.  Which of its slots a
\* row gets (the first of highest score) is left open here, so the properties
\* that hold do so whatever the score is; Heuristic and SchedulerRuns have it.
IsPlacement(at) ==
    /\ IsInjective(at)
    /\ \A r \in DOMAIN at :
          /\ at[r][1] \in PossibleSlots(r[1])
          /\ \A l \in event_locations :
                l < at[r][2] => \E q \in DOMAIN at : at[q] = <<at[r][1], l>>
    /\ \A r \in ssDiscussions \ DOMAIN at :
          \A s \in PossibleSlots(r[1]), l \in event_locations :
             \E q \in DOMAIN at : at[q] = <<s, l>>

PlannedEntries(at) ==
    {[discussionid |-> r[1], slotid |-> at[r][1], locationid |-> at[r][2]] :
        r \in DOMAIN at}

\* makeSnapshot, and the planning on the snapshot.
makeSnapshot(p) ==
    /\ plan[p] = NoPlan
    /\ ~SnapshotFails
    /\ \E placed \in SUBSET ssDiscussions :
       \E at \in [placed -> SchedulableSlots \X event_locations] :
          /\ IsPlacement(at)
          /\ plan' = [plan EXCEPT ![p] = [slots |-> SchedulableSlots,
                                          entries |-> PlannedEntries(at)]]
    /\ UNCHANGED dbVars

\* Mutant: islocked and isbreak are not read again.
ScheduleSetUnchecked(pl) ==
    /\ pl.slots \subseteq DOMAIN event_slots
    /\ \A e \in pl.entries : /\ e.discussionid \in DOMAIN event_discussions
                             /\ e.locationid \in event_locations

\* The slots are checked again, and the foreign keys of event_schedule are, as
\* the plan may be out of date by now.
ScheduleSetOK(pl) ==
    /\ pl.slots \subseteq SchedulableSlots
    /\ \A e \in pl.entries : /\ e.discussionid \in DOMAIN event_discussions
                             /\ e.locationid \in event_locations

EntriesOutside(slots) == {e \in event_schedule : e.slotid \notin slots}

scheduleSet(p) ==
    /\ plan[p] # NoPlan
    /\ ScheduleSetOK(plan[p])
    /\ event_schedule' = EntriesOutside(plan[p].slots) \cup plan[p].entries
    /\ plan' = [plan EXCEPT ![p] = NoPlan]
    /\ UNCHANGED <<personTables, timeTables, event_discussions_possible_slots,
                   generated>>

\* scheduleSet was refused, txLoop ran out of retries, or the process ended.
scheduleFail(p) ==
    /\ plan[p] # NoPlan
    /\ plan' = [plan EXCEPT ![p] = NoPlan]
    /\ UNCHANGED dbVars
=============================================================================

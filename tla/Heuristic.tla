------------------------------ MODULE Heuristic ------------------------------
(* event/schedule.go: makeScheduleHeuristic and placeDiscussions, between the *)
(* two transactions of MakeSchedule.  They read the searchStore only, so the  *)
(* tables stand for the snapshot of them and stay as they are.                *)
EXTENDS EventStore, FiniteSetsExt

CONSTANT Runner     \* the scheduler that is followed

ASSUME RunnerAssumption == Runner \in Schedulers

\* id.GenerateID returns one of finitely many strings.
ASSUME FiniteIDsAssumption == IsFiniteSet(UserIDs) /\ IsFiniteSet(SlotIDs)

VARIABLES
    todo,           \* sched.UnplacedDiscussions, those not yet looked at
    discussions,    \* sched.Slots[i].Discussions, by slot
    unplaced

hvars == <<vars, todo, discussions, unplaced>>

-----------------------------------------------------------------------------
(* Interest and score.  A row r of ss.Discussions has its discussion in r[1]. *)

UserInterest(u, r) ==
    IF <<u, r[1]>> \in DOMAIN event_interest THEN event_interest[<<u, r[1]>>]
                                             ELSE 0

MaxInterest(r) == MapThenSumSet(LAMBDA u : UserInterest(u, r), UserIDs)

\* Everyone goes to the discussion of the slot that interests them most.
userMaxInt(rows, u) == Max({0} \cup {UserInterest(u, r) : r \in rows})

SlotScore(rows) == MapThenSumSet(LAMBDA u : userMaxInt(rows, u), UserIDs)

scoreSlotDelta(rows, hyp) == SlotScore(rows \cup {hyp}) - SlotScore(rows)

EmptyPlaces(s) == Cardinality(event_locations) - Len(discussions[s])

Score(s, r) == scoreSlotDelta(Range(discussions[s]), r) + EmptyPlaces(s)

\* Mutant: the restrictions are not looked at.
EligibleAnywhere(r) == {s \in SchedulableSlots : EmptyPlaces(s) > 0}

\* Mutant: a full slot takes one more.
EligibleWhenFull(r) == {s \in PossibleSlots(r[1]) : EmptyPlaces(s) >= 0}

\* The slots that the loop does not skip.
Eligible(r) == {s \in PossibleSlots(r[1]) : EmptyPlaces(s) > 0}

\* order by dayid, slotidx
Before(s, t) ==
    LET x == event_slots[s]  y == event_slots[t]
    IN  x.dayid < y.dayid \/ (x.dayid = y.dayid /\ x.slotidx < y.slotidx)

\* The first of the slots with the highest score, if that is not zero.
Best(r) ==
    {s \in Eligible(r) :
        /\ Score(s, r) > 0
        /\ \A t \in Eligible(r) : \/ Score(t, r) < Score(s, r)
                                  \/ Score(t, r) = Score(s, r) /\ ~Before(t, s)}

-----------------------------------------------------------------------------
\* scheduleMakeEmpty, after a snapshot of any database.
HeuristicInit ==
    /\ TypeOK /\ ForeignKeys /\ SlotsContiguous /\ OnePerPlace
    /\ ~SnapshotFails
    /\ plan[Runner] = NoPlan
    /\ todo = ssDiscussions
    /\ discussions = [s \in SchedulableSlots |-> <<>>]
    /\ unplaced = {}

\* Mutant: not sorted.
IsNextUnsorted(r) == r \in todo

\* sort.Slice is not stable: rows of equal interest come in any order.
IsNext(r) == r \in todo /\ \A q \in todo : MaxInterest(q) <= MaxInterest(r)

\* "Putting discussion in slot"
PutInSlot(r) ==
    /\ IsNext(r)
    /\ \E s \in Best(r) :
          discussions' = [discussions EXCEPT ![s] = Append(@, r)]
    /\ todo' = todo \ {r}
    /\ UNCHANGED <<vars, unplaced>>

\* "Can't find a good slot!"
LeaveOut(r) ==
    /\ IsNext(r)
    /\ Best(r) = {}
    /\ unplaced' = unplaced \cup {r}
    /\ todo' = todo \ {r}
    /\ UNCHANGED <<vars, discussions>>

\* ss.Locations[j]
LocationAt(j) ==
    CHOOSE l \in event_locations :
        Cardinality({k \in event_locations : k < l}) = j - 1

\* With more discussions in a slot than there are locations MakeSchedule fails.
placeDiscussions ==
    /\ todo = {}
    /\ plan[Runner] = NoPlan
    /\ \A s \in SchedulableSlots : EmptyPlaces(s) >= 0
    /\ plan' = [plan EXCEPT ![Runner] =
          [slots |-> SchedulableSlots,
           entries |-> UNION {
              {[discussionid |-> discussions[s][j][1], slotid |-> s,
                locationid |-> LocationAt(j)] : j \in 1..Len(discussions[s])} :
              s \in SchedulableSlots}]]
    /\ UNCHANGED <<dbVars, todo, discussions, unplaced>>

HeuristicNext ==
    \/ \E r \in ssDiscussions : PutInSlot(r) \/ LeaveOut(r)
    \/ placeDiscussions

\* The loop runs in one goroutine and waits for nothing.
HeuristicSpec ==
    HeuristicInit /\ [][HeuristicNext]_hvars /\ WF_hvars(HeuristicNext)

-----------------------------------------------------------------------------
\* The planning is what module Schedule takes it for: the plan that it makes is
\* one that the contract of makeSnapshot allows.
PlanMeetsContract == [][makeSnapshot(Runner)]_vars

\* Every accepted snapshot gets a plan: the loop comes to its end, and the error
\* of placeDiscussions, more discussions in a slot than locations, never happens.
PlanMade == <>(plan[Runner] # NoPlan)

\* "NB we don't need to check index < 0 here; score will always be > 0": a slot
\* that has a place left is never passed over, so a row is left out only when
\* the slots it could go to are full, and then of rows that are as popular.
LeftOutForPopular ==
    \A r \in unplaced : \A s \in PossibleSlots(r[1]) :
        /\ Len(discussions[s]) = Cardinality(event_locations)
        /\ \A q \in Range(discussions[s]) : MaxInterest(q) >= MaxInterest(r)
=============================================================================

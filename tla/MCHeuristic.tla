----------------------------- MODULE MCHeuristic -----------------------------
(* Small instances of Heuristic: every interest that the users can have in    *)
(* the discussions, some restrictions, some sets of locations, and what the   *)
(* last run of the scheduler has left.                                        *)
EXTENDS Heuristic, TLC

CONSTANTS u1, u2, d1, d2, d3, s1, s2, t1, t2, t3,
          Restricted,   \* the discussions that may be restricted to a slot
          LocationSets

TitleOf == d1 :> t1 @@ d2 :> t2 @@ d3 :> t3
NameOf == u1 :> "admin" @@ u2 :> "bob"

\* Slots s1 and s2 of the one day; the slots in locked are.
TwoSlots(locked) ==
    [s \in {s1, s2} |-> [dayid |-> 1, slotidx |-> IF s = s1 THEN 1 ELSE 2,
                         isbreak |-> FALSE, islocked |-> s \in locked]]

Database ==
    /\ event_users = [u \in UserIDs |-> [username |-> NameOf[u],
                                         isadmin |-> u = u1, isverified |-> TRUE]]
    /\ event_discussions = [d \in DiscussionIDs |->
           [owner |-> u1, title |-> TitleOf[d], approved |-> TitleOf[d],
            ispublic |-> TRUE]]
    /\ \E f \in [UserIDs \X DiscussionIDs -> 0..InterestMax] :
          event_interest = Restrict(f, {p \in DOMAIN f : f[p] > 0})
    /\ \E f \in [Restricted -> {{}, {s1}, {s2}}] :
          event_discussions_possible_slots = UNION {{d} \X f[d] : d \in Restricted}
    /\ event_locations \in LocationSets
    /\ event_days = {1}
    /\ \/ event_slots = TwoSlots({}) /\ event_schedule = {}
       \/ \E l \in event_locations, locked \in {{}, {s1}} :
             /\ event_slots = TwoSlots(locked)
             /\ event_schedule = {[discussionid |-> d1, slotid |-> s1,
                                   locationid |-> l]}
    /\ generated = UserIDs \cup DiscussionIDs \cup SlotIDs
    /\ listed = SlotIDs
    /\ plan = [p \in Schedulers |-> NoPlan]

MCInit == Database /\ HeuristicInit
MCSpec == MCInit /\ [][HeuristicNext]_hvars /\ WF_hvars(HeuristicNext)

LocationsWithGap == {{}, {2}, {1, 2}}
=============================================================================

------------------------------ MODULE Locations ------------------------------
(* event/location.go.  LocationUpdate only writes columns that nothing in   *)
(* the model reads.                                                         *)
EXTENDS EventDB

NewLocation ==
    /\ \E l \in LocationIDs :
           /\ IsNextKey(event_locations, l)
           /\ event_locations' = event_locations \cup {l}
    /\ UNCHANGED <<personTables, event_days, event_slots, listed, placeTables,
                   generated, plan>>

\* The delete fails on the foreign key of event_schedule.
DeleteLocation(l) ==
    /\ l \in event_locations
    /\ \A e \in event_schedule : e.locationid # l
    /\ event_locations' = event_locations \ {l}
    /\ UNCHANGED <<personTables, event_days, event_slots, listed, placeTables,
                   generated, plan>>
=============================================================================

---------------------------- MODULE MCWebHandlers ----------------------------
(* Small instances of WebHandlers.                                            *)
EXTENDS WebHandlers, TLC

CONSTANTS u1, u2, u3, d1, s1, t1, t2, q1, q2, cli

OneSession == {<<[valid |-> TRUE, slots |-> <<FALSE>>]>>}

\* Bound: two requests at a time only while there is no location to plan for.
RequestBound ==
    \/ event_locations = {}
    \/ Cardinality({q \in Requests : request[q] # NoRequest}) <= 1

Symmetry == Permutations(UserIDs) \cup Permutations(Titles)
                \cup Permutations(Requests)
=============================================================================

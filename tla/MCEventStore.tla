----------------------------- MODULE MCEventStore -----------------------------
(* Small instances of EventStore.  A timetable is written as the isbreak      *)
(* flags of the slots of its days.                                            *)
EXTENDS EventStore, TLC

CONSTANTS u1, u2, u3, d1, d2, s1, s2, s3, t1, t2

Day(flags) == [valid |-> TRUE, slots |-> flags]
BadDay == [valid |-> FALSE, slots |-> <<>>]
S == FALSE
B == TRUE

\* Shapes that grow, shrink and drop days, and one that is refused.
GrowTimetables ==
    {<<Day(<<S>>)>>, <<Day(<<S, B>>)>>, <<Day(<<S>>), Day(<<S>>)>>, <<BadDay>>}

\* A session becomes a break and the reverse.
FlipTimetables ==
    {<<Day(<<S, S>>)>>, <<Day(<<B>>), Day(<<S>>)>>, <<Day(<<>>), Day(<<S>>)>>}

\* A slot is added, dropped, and turned into a break and back.
BreakTimetables == {<<Day(<<S>>)>>, <<Day(<<S, S>>)>>, <<Day(<<B, S>>)>>}

Symmetry == Permutations(UserIDs) \cup Permutations(DiscussionIDs)
                \cup Permutations(SlotIDs) \cup Permutations(Titles)
=============================================================================

--------------------------- MODULE HeuristicProofs ---------------------------
(* The planning of module Heuristic, for every database: what it leaves out,   *)
(* and that its plan is one that module Schedule allows.                       *)
EXTENDS Heuristic, FiniteSetTheorems, TLAPS

-----------------------------------------------------------------------------
(* Least elements.  Induction is argued by a least counterexample.           *)

\* A set of natural numbers that is not empty has a least element.
LEMMA NatMin ==
    ASSUME NEW T, T \subseteq Nat, T # {}
    PROVE  \E n \in T : \A m \in T : n <= m
<1> DEFINE R == OpToRel(<, Nat)
<1>1. IsWellFoundedOn(R, Nat)
    BY NatLessThanWellFounded
<1>2. \A m, n \in Nat : m < n => <<m, n>> \in R
    BY DEF OpToRel
<1> HIDE DEF R
<1>3. PICK n \in T : \A m \in T : ~(<<m, n>> \in R)
    BY <1>1, WFMin
<1>4. \A m \in T : n <= m
    <2> TAKE m \in T
    <2>1. m \in Nat /\ n \in Nat
        OBVIOUS
    <2>2. ~(m < n)
        BY <1>2, <1>3, <2>1
    <2> QED
        BY <2>1, <2>2
<1> QED
    BY <1>4

\* A finite set that is not empty has a minimal element for every strict order: one
\* that has fewest elements below it.
LEMMA FiniteMinimal ==
    ASSUME NEW E, IsFiniteSet(E), E # {}, NEW R,
           \A x \in E : <<x, x>> \notin R,
           \A x, y, z \in E : <<x, y>> \in R /\ <<y, z>> \in R => <<x, z>> \in R
    PROVE  \E x \in E : \A y \in E : <<y, x>> \notin R
<1> DEFINE Below(x) == {y \in E : <<y, x>> \in R}
           Sizes == {Cardinality(Below(x)) : x \in E}
<1>1. \A x \in E : IsFiniteSet(Below(x)) /\ Cardinality(Below(x)) \in Nat
    <2> TAKE x \in E
    <2>1. Below(x) \in SUBSET E
        OBVIOUS
    <2>2. IsFiniteSet(Below(x))
        BY <2>1, FS_Subset
    <2> QED
        BY <2>2, FS_CardinalityType
<1> HIDE DEF Below
<1>2. Sizes \subseteq Nat /\ Sizes # {}
    BY <1>1
<1>3. PICK n \in Sizes : \A m \in Sizes : n <= m
    BY <1>2, NatMin
<1>4. PICK x \in E : n = Cardinality(Below(x))
    OBVIOUS
<1>5. ASSUME NEW y \in E, <<y, x>> \in R PROVE FALSE
    <2>1. Below(y) \subseteq Below(x) /\ y \in Below(x) /\ y \notin Below(y)
        BY <1>5 DEF Below
    <2>2. /\ Cardinality(Below(y)) <= Cardinality(Below(x))
          /\ Cardinality(Below(x)) = Cardinality(Below(y)) => Below(x) = Below(y)
        BY <1>1, <2>1, FS_Subset
    <2>3. Cardinality(Below(x)) <= Cardinality(Below(y))
        BY <1>3, <1>4
    <2>4. Cardinality(Below(x)) \in Nat /\ Cardinality(Below(y)) \in Nat
        BY <1>1
    <2> QED
        BY <2>1, <2>2, <2>3, <2>4
<1> QED
    BY <1>5

-----------------------------------------------------------------------------
(* Sums over a finite set, as the folds of the community modules define them. *)

Pick(s) == CHOOSE x \in s : TRUE

\* f is the sum of g over each subset of S.
IsSum(f, g, S) ==
    f = [s \in SUBSET S |-> IF s = {} THEN 0 ELSE g[Pick(s)] + f[s \ {Pick(s)}]]

\* A fold takes one element away and leaves a smaller set.
LEMMA PickLess ==
    ASSUME NEW S, IsFiniteSet(S), NEW s \in SUBSET S, s # {}
    PROVE  /\ Pick(s) \in s
           /\ s \ {Pick(s)} \in SUBSET S
           /\ Cardinality(s) \in Nat
           /\ Cardinality(s) >= 1
           /\ Cardinality(s \ {Pick(s)}) = Cardinality(s) - 1
<1>1. Pick(s) \in s
    BY DEF Pick
<1>2. IsFiniteSet(s)
    BY FS_Subset
<1>3. Cardinality(s) \in Nat /\ Cardinality(s \ {Pick(s)}) = Cardinality(s) - 1
    BY <1>1, <1>2, FS_CardinalityType, FS_RemoveElement
<1>4. Cardinality(s) # 0
    BY <1>2, FS_EmptySet
<1> QED
    BY <1>1, <1>3, <1>4

\* The recursion that defines the sum has a solution.
LEMMA SumExists ==
    ASSUME NEW S, IsFiniteSet(S), NEW g \in [S -> Nat]
    PROVE  \E f \in [SUBSET S -> Nat] : IsSum(f, g, S)
<1> DEFINE Step(f, s) == IF s = {} THEN 0 ELSE g[Pick(s)] + f[s \ {Pick(s)}]
           UpTo(f, n) == \A s \in SUBSET S : Cardinality(s) <= n => f[s] = Step(f, s)
           Bad == {n \in Nat : ~ \E f \in [SUBSET S -> Nat] : UpTo(f, n)}
<1>1. \A s \in SUBSET S : IsFiniteSet(s) /\ Cardinality(s) \in Nat
    BY FS_Subset, FS_CardinalityType
<1>2. Bad = {}
    <2> SUFFICES ASSUME Bad # {} PROVE FALSE
        OBVIOUS
    <2>1. PICK n \in Bad : \A m \in Bad : n <= m
        <3>1. Bad \subseteq Nat
            OBVIOUS
        <3> HIDE DEF Bad
        <3> QED
            BY <3>1, NatMin
    <2>2. n # 0
        <3> SUFFICES ASSUME n = 0 PROVE FALSE
            OBVIOUS
        <3> DEFINE zero == [s \in SUBSET S |-> 0]
        <3>1. UpTo(zero, 0)
            <4> SUFFICES ASSUME NEW s \in SUBSET S, Cardinality(s) <= 0
                         PROVE  zero[s] = Step(zero, s)
                OBVIOUS
            <4>1. s = {}
                BY <1>1, FS_EmptySet
            <4> QED
                BY <4>1
        <3>2. zero \in [SUBSET S -> Nat]
            OBVIOUS
        <3> QED
            BY <3>1, <3>2
    <2>3. n \in Nat /\ n - 1 \in Nat /\ n - 1 \notin Bad
        <3>1. n \in Nat
            BY <2>1
        <3> HIDE DEF Bad
        <3> QED
            BY <2>1, <2>2, <3>1
    <2>4. PICK f \in [SUBSET S -> Nat] : UpTo(f, n - 1)
        BY <2>3
    <2> DEFINE k == [s \in SUBSET S |-> IF Cardinality(s) = n THEN Step(f, s) ELSE f[s]]
    <2>5. \A s \in SUBSET S : Step(f, s) \in Nat
        <3> SUFFICES ASSUME NEW s \in SUBSET S, s # {} PROVE Step(f, s) \in Nat
            OBVIOUS
        <3>1. g[Pick(s)] \in Nat /\ f[s \ {Pick(s)}] \in Nat
            BY PickLess
        <3> QED
            BY <3>1
    <2>6. k \in [SUBSET S -> Nat]
        BY <2>5
    <2>7. ASSUME NEW s \in SUBSET S, Cardinality(s) <= n
          PROVE  k[s] = Step(k, s)
        <3>1. Step(k, s) = Step(f, s)
            <4>1. CASE s = {}
                BY <4>1
            <4>2. CASE s # {}
                <5>1. /\ s \ {Pick(s)} \in SUBSET S
                      /\ Cardinality(s \ {Pick(s)}) = Cardinality(s) - 1
                      /\ Cardinality(s) \in Nat
                    BY <4>2, PickLess
                <5>2. Cardinality(s \ {Pick(s)}) # n
                    BY <2>3, <2>7, <5>1
                <5>3. k[s \ {Pick(s)}] = f[s \ {Pick(s)}]
                    BY <5>1, <5>2
                <5> HIDE DEF k
                <5> QED
                    BY <4>2, <5>3
            <4> QED
                BY <4>1, <4>2
        <3>2. CASE Cardinality(s) = n
            <4>1. k[s] = Step(f, s)
                BY <3>2
            <4> HIDE DEF k, Step
            <4> QED
                BY <3>1, <4>1
        <3>3. CASE Cardinality(s) # n
            <4>1. k[s] = f[s]
                BY <3>3
            <4>2. Cardinality(s) <= n - 1
                BY <1>1, <2>3, <2>7, <3>3
            <4>3. f[s] = Step(f, s)
                BY <2>4, <4>2
            <4> HIDE DEF k, Step
            <4> QED
                BY <3>1, <4>1, <4>3
        <3> QED
            BY <3>2, <3>3
    <2>8. UpTo(k, n)
        BY <2>7
    <2>9. n \notin Bad
        <3> HIDE DEF k, UpTo
        <3> QED
            BY <2>6, <2>8
    <2> QED
        BY <2>1, <2>9
<1>3. Cardinality(S) \in Nat
    BY FS_CardinalityType
<1>4. PICK f \in [SUBSET S -> Nat] : UpTo(f, Cardinality(S))
    BY <1>2, <1>3
<1>5. \A s \in SUBSET S : f[s] = Step(f, s)
    BY <1>4, FS_Subset
<1>6. IsSum(f, g, S)
    BY <1>5 DEF IsSum
<1> QED
    BY <1>6

\* A sum of naturals is one, and grows with its terms.
LEMMA SumMonotone ==
    ASSUME NEW S, IsFiniteSet(S), NEW g \in [S -> Nat], NEW h \in [S -> Nat],
           \A x \in S : g[x] <= h[x],
           NEW f, IsSum(f, g, S), NEW k, IsSum(k, h, S)
    PROVE  f[S] \in Nat /\ k[S] \in Nat /\ f[S] <= k[S]
<1> DEFINE Good(s) == f[s] \in Nat /\ k[s] \in Nat /\ f[s] <= k[s]
           Sizes == {Cardinality(s) : s \in {x \in SUBSET S : ~Good(x)}}
<1>1. \A s \in SUBSET S : IsFiniteSet(s) /\ Cardinality(s) \in Nat
    BY FS_Subset, FS_CardinalityType
<1>2. \A s \in SUBSET S :
         /\ f[s] = IF s = {} THEN 0 ELSE g[Pick(s)] + f[s \ {Pick(s)}]
         /\ k[s] = IF s = {} THEN 0 ELSE h[Pick(s)] + k[s \ {Pick(s)}]
    BY DEF IsSum
<1>3. Sizes = {}
    <2> SUFFICES ASSUME Sizes # {} PROVE FALSE
        OBVIOUS
    <2>1. Sizes \subseteq Nat
        BY <1>1
    <2>2. PICK n \in Sizes : \A m \in Sizes : n <= m
        BY <2>1, NatMin
    <2>3. PICK s \in SUBSET S : ~Good(s) /\ n = Cardinality(s)
        OBVIOUS
    <2>4. CASE s = {}
        <3>1. f[s] = 0 /\ k[s] = 0
            BY <1>2, <2>4
        <3> QED
            BY <2>3, <3>1
    <2>5. CASE s # {}
        <3> DEFINE x == Pick(s)
                   rest == s \ {x}
        <3>1. x \in S /\ rest \in SUBSET S /\ Cardinality(rest) = n - 1 /\ n \in Nat
            BY <2>3, <2>5, PickLess
        <3>2. Good(rest)
            BY <2>2, <3>1
        <3>3. f[s] = g[x] + f[rest] /\ k[s] = h[x] + k[rest]
            BY <1>2, <2>5
        <3>4. g[x] \in Nat /\ h[x] \in Nat /\ g[x] <= h[x]
            BY <3>1
        <3> HIDE DEF x, rest
        <3> QED
            BY <2>3, <3>2, <3>3, <3>4
    <2> QED
        BY <2>4, <2>5
<1>4. Good(S)
    BY <1>3
<1> QED
    BY <1>4

-----------------------------------------------------------------------------
(* The score of a slot does not fall when a discussion is added to it.       *)

\* Max is what its name says on bounded sets, infinite or not.
LEMMA MaxOfBounded ==
    ASSUME NEW B, B \subseteq Nat, B # {}, NEW n \in Nat, \A b \in B : b <= n
    PROVE  Max(B) \in B /\ \A b \in B : b <= Max(B)
<1> DEFINE Gaps == {n - b : b \in B}
<1>1. Gaps \subseteq Nat /\ Gaps # {}
    <2>1. \A b \in B : n - b \in Nat
        <3> TAKE b \in B
        <3>1. b \in Nat /\ b <= n
            OBVIOUS
        <3> QED
            BY <3>1
    <2> QED
        BY <2>1
<1>2. PICK m \in Gaps : \A k \in Gaps : m <= k
    BY <1>1, NatMin
<1>3. PICK a \in B : m = n - a
    OBVIOUS
<1>4. \A b \in B : a >= b
    <2> TAKE b \in B
    <2>1. m <= n - b
        BY <1>2
    <2> QED
        BY <1>3, <2>1
<1>5. Max(B) \in B /\ \A b \in B : Max(B) >= b
    BY <1>4 DEF Max
<1> QED
    BY <1>5

\* One more discussion in a slot takes no interest away from a user.
LEMMA userMaxIntGrows ==
    ASSUME DBTypeOK, NEW rows, NEW hyp, NEW u
    PROVE  /\ userMaxInt(rows, u) \in Nat
           /\ userMaxInt(rows \cup {hyp}, u) \in Nat
           /\ userMaxInt(rows, u) <= userMaxInt(rows \cup {hyp}, u)
<1> DEFINE Values(rs) == {0} \cup {UserInterest(u, r) : r \in rs}
<1>1. InterestMax \in Nat
    BY InterestMaxAssumption
<1>2. \A r : UserInterest(u, r) \in 0..InterestMax
    <2> TAKE r
    <2>1. CASE <<u, r[1]>> \in DOMAIN event_interest
        <3>1. event_interest[<<u, r[1]>>] \in Interests
            BY <2>1 DEF DBTypeOK, IsTable
        <3> QED
            BY <1>1, <2>1, <3>1 DEF UserInterest, Interests
    <2> QED
        BY <1>1, <2>1 DEF UserInterest
<1>3. \A rs : /\ Values(rs) \subseteq Nat
              /\ Values(rs) # {}
              /\ \A b \in Values(rs) : b <= InterestMax
    BY <1>1, <1>2
<1>4. Values(rows) \subseteq Values(rows \cup {hyp})
    OBVIOUS
<1>5. \A rs : userMaxInt(rs, u) = Max(Values(rs))
    BY DEF userMaxInt
<1> HIDE DEF Values
<1>6. \A rs : /\ Max(Values(rs)) \in Values(rs)
              /\ \A b \in Values(rs) : b <= Max(Values(rs))
    BY <1>1, <1>3, MaxOfBounded
<1> QED
    BY <1>3, <1>4, <1>5, <1>6

\* SlotScore is the sum over the users that its definition stands for.
LEMMA ScoreIsSum ==
    ASSUME DBTypeOK, NEW rows
    PROVE  \E f : /\ IsSum(f, [u \in UserIDs |-> userMaxInt(rows, u)], UserIDs)
                  /\ SlotScore(rows) = f[UserIDs]
<1> DEFINE g == [u \in UserIDs |-> userMaxInt(rows, u)]
           Folds(f) == f = [s \in SUBSET UserIDs |->
                               IF s = {} THEN 0
                               ELSE LET x == CHOOSE x \in s : TRUE
                                    IN  userMaxInt(rows, x) + f[s \ {x}]]
<1>1. g \in [UserIDs -> Nat]
    BY userMaxIntGrows
<1>2. PICK k \in [SUBSET UserIDs -> Nat] : IsSum(k, g, UserIDs)
    BY <1>1, FiniteIDsAssumption, SumExists
<1>3. \A s \in SUBSET UserIDs : s # {} => g[Pick(s)] = userMaxInt(rows, Pick(s))
    BY DEF Pick
<1>4. \A f : IsSum(f, g, UserIDs) <=> Folds(f)
    <2> TAKE f
    <2> DEFINE A == [s \in SUBSET UserIDs |->
                        IF s = {} THEN 0 ELSE g[Pick(s)] + f[s \ {Pick(s)}]]
               B == [s \in SUBSET UserIDs |->
                        IF s = {} THEN 0
                        ELSE LET x == CHOOSE x \in s : TRUE
                             IN  userMaxInt(rows, x) + f[s \ {x}]]
    <2>1. \A s \in SUBSET UserIDs : A[s] = B[s]
        <3> SUFFICES ASSUME NEW s \in SUBSET UserIDs, s # {} PROVE A[s] = B[s]
            OBVIOUS
        <3>1. A[s] = g[Pick(s)] + f[s \ {Pick(s)}]
            OBVIOUS
        <3>2. B[s] = userMaxInt(rows, Pick(s)) + f[s \ {Pick(s)}]
            BY DEF Pick
        <3> HIDE DEF A, B, g
        <3> QED
            BY <1>3, <3>1, <3>2
    <2>2. A = B
        BY <2>1
    <2> QED
        BY <2>2 DEF IsSum
<1>5. Folds(k)
    BY <1>2, <1>4
<1>6. \E f : Folds(f) /\ SlotScore(rows) = f[UserIDs]
    BY <1>5 DEF SlotScore, MapThenSumSet, MapThenFoldSet
<1> HIDE DEF Folds, g
<1>7. PICK f : Folds(f) /\ SlotScore(rows) = f[UserIDs]
    BY <1>6
<1>8. IsSum(f, g, UserIDs)
    BY <1>4, <1>7
<1> QED
    BY <1>7, <1>8 DEF g

\* The delta of a score is never negative: a slot with a place left scores above zero.
LEMMA ScoreGrows ==
    ASSUME DBTypeOK, NEW rows, NEW hyp
    PROVE  scoreSlotDelta(rows, hyp) \in Nat
<1> DEFINE g == [u \in UserIDs |-> userMaxInt(rows, u)]
           h == [u \in UserIDs |-> userMaxInt(rows \cup {hyp}, u)]
<1>1. g \in [UserIDs -> Nat] /\ h \in [UserIDs -> Nat]
    BY userMaxIntGrows
<1>2. \A u \in UserIDs : g[u] <= h[u]
    BY userMaxIntGrows
<1>3. PICK f : IsSum(f, g, UserIDs) /\ SlotScore(rows) = f[UserIDs]
    BY ScoreIsSum
<1>4. PICK k : IsSum(k, h, UserIDs) /\ SlotScore(rows \cup {hyp}) = k[UserIDs]
    BY ScoreIsSum
<1> HIDE DEF g, h
<1>5. f[UserIDs] \in Nat /\ k[UserIDs] \in Nat /\ f[UserIDs] <= k[UserIDs]
    BY <1>1, <1>2, <1>3, <1>4, FiniteIDsAssumption, SumMonotone
<1> QED
    BY <1>3, <1>4, <1>5 DEF scoreSlotDelta

-----------------------------------------------------------------------------
(* A row is left out only when no slot that it could go to has a place.      *)

\* There are finitely many slots to fill and locations to use.
LEMMA FinitePlaces ==
    ASSUME DBTypeOK
    PROVE  /\ IsFiniteSet(SchedulableSlots) /\ SchedulableSlots \subseteq DOMAIN event_slots
           /\ IsFiniteSet(event_locations) /\ Cardinality(event_locations) \in Nat
<1>1. SchedulableSlots \subseteq DOMAIN event_slots
    BY DEF SchedulableSlots, NonBreakSlots
<1>2. IsFiniteSet(SchedulableSlots)
    BY <1>1, FiniteIDsAssumption, FS_Subset DEF DBTypeOK, IsTable
<1>3. IsFiniteSet(1..MaxLocations)
    BY BoundsAssumption, FS_Interval
<1>4. IsFiniteSet(event_locations)
    BY <1>3, FS_Subset DEF DBTypeOK, LocationIDs
<1> QED
    BY <1>1, <1>2, <1>4, FS_CardinalityType

\* There is a best slot when there is an eligible one: every eligible slot scores
\* more than zero for the place that it has left, and among finitely many there is
\* a first of the highest.
LEMMA BestExists ==
    ASSUME DBTypeOK, discussions \in [SchedulableSlots -> Seq(ssDiscussions)],
           NEW r, Eligible(r) # {}
    PROVE  Best(r) # {}
<1> DEFINE E == Eligible(r)
           sc == [s \in E |-> Score(s, r)]
           R == {p \in E \X E : \/ sc[p[1]] > sc[p[2]]
                                \/ sc[p[1]] = sc[p[2]] /\ Before(p[1], p[2])}
<1>1. E \subseteq SchedulableSlots
    BY DEF Eligible, PossibleSlots
<1>2. IsFiniteSet(E)
    BY <1>1, FinitePlaces, FS_Subset
<1>3. \A s \in E : sc[s] = Score(s, r) /\ sc[s] \in Nat /\ sc[s] > 0
    <2> TAKE s \in E
    <2>1. Len(discussions[s]) \in Nat
        BY <1>1
    <2>2. EmptyPlaces(s) \in Int /\ EmptyPlaces(s) > 0
        BY <2>1, FinitePlaces DEF EmptyPlaces, Eligible
    <2>3. scoreSlotDelta(Range(discussions[s]), r) \in Nat
        BY ScoreGrows
    <2> QED
        BY <2>2, <2>3 DEF Score
<1>4. \A s \in E : event_slots[s].dayid \in Nat /\ event_slots[s].slotidx \in Nat
    BY <1>1, FinitePlaces DEF DBTypeOK, IsTable, SlotRow, DayIDs
<1> HIDE DEF E, sc
<1>5. \A s \in E : <<s, s>> \notin R
    BY <1>3, <1>4 DEF Before
<1>6. \A x, y, z \in E : <<x, y>> \in R /\ <<y, z>> \in R => <<x, z>> \in R
    <2>1. \A x, y, z \in E : Before(x, y) /\ Before(y, z) => Before(x, z)
        BY <1>4 DEF Before
    <2>2. \A x, y \in E : <<x, y>> \in R <=> \/ sc[x] > sc[y]
                                             \/ sc[x] = sc[y] /\ Before(x, y)
        OBVIOUS
    <2> HIDE DEF R
    <2> QED
        BY <1>3, <2>1, <2>2
<1>7. E # {}
    BY DEF E
<1>8. PICK s \in E : \A t \in E : <<t, s>> \notin R
    <2> HIDE DEF R
    <2> QED
        BY <1>2, <1>5, <1>6, <1>7, FiniteMinimal
<1>9. \A t \in E : sc[t] < sc[s] \/ (sc[t] = sc[s] /\ ~Before(t, s))
    <2> TAKE t \in E
    <2>1. ~(sc[t] > sc[s]) /\ ~(sc[t] = sc[s] /\ Before(t, s))
        BY <1>8
    <2> QED
        BY <1>3, <2>1
<1>10. s \in Best(r)
    BY <1>3, <1>9 DEF Best, E
<1> QED
    BY <1>10

\* The loop, with the database reduced to the slots, the rows, the slots that a row
\* can go to (Can), the number of places of a slot (cap), and which row is at most
\* as popular as which (Leq).  D are the rows in each slot, T the rows to do, U
\* those left out.
RowSets(D, T, U, Slots, Rows) ==
    /\ D \in [Slots -> Seq(Rows)]
    /\ T \subseteq Rows /\ U \subseteq Rows /\ T \cap U = {}

\* Every row that is neither to do nor left out is in one place.
EachOnce(D, T, U, Slots, Rows) ==
    /\ \A s \in Slots : \A j \in 1..Len(D[s]) : D[s][j] \notin T \cup U
    /\ \A s, t \in Slots : \A j \in 1..Len(D[s]), k \in 1..Len(D[t]) :
          D[s][j] = D[t][k] => s = t /\ j = k
    /\ \A r \in Rows \ (T \cup U) : \E s \in Slots : \E j \in 1..Len(D[s]) : D[s][j] = r

\* A row is where it may be, and no row that is to do is more popular.
WellPlaced(D, T, Slots, Can, cap, Leq) ==
    /\ \A s \in Slots : Len(D[s]) <= cap
    /\ \A s \in Slots : \A j \in 1..Len(D[s]) :
          /\ <<D[s][j], s>> \in Can
          /\ \A r \in T : <<r, D[s][j]>> \in Leq

\* The slots of a row that is left out are full of rows that are as popular.
NoPlace(D, U, Slots, Can, cap, Leq) ==
    \A r \in U, s \in Slots :
       <<r, s>> \in Can => /\ Len(D[s]) = cap
                           /\ \A j \in 1..Len(D[s]) : <<r, D[s][j]>> \in Leq

Filled(D, T, U, Slots, Rows, Can, cap, Leq) ==
    /\ RowSets(D, T, U, Slots, Rows)
    /\ EachOnce(D, T, U, Slots, Rows)
    /\ WellPlaced(D, T, Slots, Can, cap, Leq)
    /\ NoPlace(D, U, Slots, Can, cap, Leq)

\* PutInSlot: a most popular row goes to a slot that has a place.
LEMMA PutFilled ==
    ASSUME NEW D, NEW T, NEW U, NEW Slots, NEW Rows, NEW Can, NEW cap \in Nat, NEW Leq,
           Filled(D, T, U, Slots, Rows, Can, cap, Leq),
           NEW r \in T, NEW s \in Slots, <<r, s>> \in Can, Len(D[s]) < cap,
           \A q \in T : <<q, r>> \in Leq
    PROVE  Filled([D EXCEPT ![s] = Append(D[s], r)], T \ {r}, U,
                  Slots, Rows, Can, cap, Leq)
<1> DEFINE D2 == [D EXCEPT ![s] = Append(D[s], r)]
           Old(t, j) == j \in 1..Len(D[t]) /\ D2[t][j] = D[t][j]
           New(t, j) == t = s /\ j = Len(D[s]) + 1 /\ D2[t][j] = r
<1>1. /\ D \in [Slots -> Seq(Rows)] /\ D[s] \in Seq(Rows) /\ r \in Rows
      /\ T \subseteq Rows /\ U \subseteq Rows /\ T \cap U = {}
    BY DEF Filled, RowSets
<1>2. /\ D2 \in [Slots -> Seq(Rows)]
      /\ D2[s] = Append(D[s], r)
      /\ \A t \in Slots \ {s} : D2[t] = D[t]
    BY <1>1
<1>3. /\ Len(D2[s]) = Len(D[s]) + 1
      /\ D2[s][Len(D[s]) + 1] = r
      /\ \A j \in 1..Len(D[s]) : D2[s][j] = D[s][j]
      /\ Len(D[s]) \in Nat
    BY <1>1, <1>2
<1> HIDE DEF D2
<1>4. \A t \in Slots : \A j \in 1..Len(D2[t]) : Old(t, j) \/ New(t, j)
    BY <1>2, <1>3
<1>5. \A t \in Slots : \A j \in 1..Len(D[t]) : j \in 1..Len(D2[t]) /\ Old(t, j)
    <2> TAKE t \in Slots
    <2> TAKE j \in 1..Len(D[t])
    <2>1. CASE t = s
        BY <1>3, <2>1
    <2>2. CASE t # s
        BY <1>2, <2>2
    <2> QED
        BY <2>1, <2>2
<1> HIDE DEF Old, New
<1>6. RowSets(D2, T \ {r}, U, Slots, Rows)
    BY <1>1, <1>2 DEF RowSets
<1>7. EachOnce(D2, T \ {r}, U, Slots, Rows)
    <2>0. /\ \A t \in Slots : \A j \in 1..Len(D[t]) : D[t][j] \notin T \cup U
          /\ \A t, v \in Slots : \A j \in 1..Len(D[t]), k \in 1..Len(D[v]) :
                D[t][j] = D[v][k] => t = v /\ j = k
          /\ \A q \in Rows \ (T \cup U) :
                \E t \in Slots : \E j \in 1..Len(D[t]) : D[t][j] = q
        BY DEF Filled, EachOnce
    <2>1. ASSUME NEW t \in Slots, NEW j \in 1..Len(D2[t])
          PROVE  D2[t][j] \notin (T \ {r}) \cup U
        <3>1. CASE Old(t, j)
            BY <2>0, <3>1 DEF Old
        <3>2. CASE New(t, j)
            BY <1>1, <3>2 DEF New
        <3> QED
            BY <1>4, <3>1, <3>2
    <2>2. ASSUME NEW t \in Slots, NEW v \in Slots,
                 NEW j \in 1..Len(D2[t]), NEW k \in 1..Len(D2[v]), D2[t][j] = D2[v][k]
          PROVE  t = v /\ j = k
        <3>1. CASE Old(t, j) /\ Old(v, k)
            <4>1. /\ j \in 1..Len(D[t]) /\ k \in 1..Len(D[v])
                  /\ D[t][j] = D[v][k]
                BY <2>2, <3>1 DEF Old
            <4> QED
                BY <2>0, <4>1
        <3>2. CASE New(t, j) /\ New(v, k)
            BY <3>2 DEF New
        <3>3. CASE Old(t, j) /\ New(v, k)
            <4>1. j \in 1..Len(D[t]) /\ D[t][j] = r
                BY <2>2, <3>3 DEF Old, New
            <4> QED
                BY <2>0, <4>1
        <3>4. CASE New(t, j) /\ Old(v, k)
            <4>1. k \in 1..Len(D[v]) /\ D[v][k] = r
                BY <2>2, <3>4 DEF Old, New
            <4> QED
                BY <2>0, <4>1
        <3> QED
            BY <1>4, <3>1, <3>2, <3>3, <3>4
    <2>3. ASSUME NEW q \in Rows \ ((T \ {r}) \cup U)
          PROVE  \E t \in Slots : \E j \in 1..Len(D2[t]) : D2[t][j] = q
        <3>1. CASE q = r
            <4>1. Len(D[s]) + 1 \in 1..Len(D2[s])
                BY <1>3
            <4> QED
                BY <1>3, <3>1, <4>1
        <3>2. CASE q # r
            <4>1. PICK t \in Slots : \E j \in 1..Len(D[t]) : D[t][j] = q
                BY <2>0, <3>2
            <4>2. PICK j \in 1..Len(D[t]) : D[t][j] = q
                BY <4>1
            <4>3. j \in 1..Len(D2[t]) /\ D2[t][j] = q
                BY <1>5, <4>2 DEF Old
            <4> QED
                BY <4>3
        <3> QED
            BY <3>1, <3>2
    <2> QED
        BY <2>1, <2>2, <2>3 DEF EachOnce
<1>8. WellPlaced(D2, T \ {r}, Slots, Can, cap, Leq)
    <2>0. /\ \A t \in Slots : Len(D[t]) <= cap
          /\ \A t \in Slots : \A j \in 1..Len(D[t]) :
                /\ <<D[t][j], t>> \in Can
                /\ \A q \in T : <<q, D[t][j]>> \in Leq
        BY DEF Filled, WellPlaced
    <2>1. ASSUME NEW t \in Slots PROVE Len(D2[t]) <= cap
        <3>1. CASE t = s
            BY <1>3, <3>1
        <3>2. CASE t # s
            BY <1>2, <2>0, <3>2
        <3> QED
            BY <3>1, <3>2
    <2>2. ASSUME NEW t \in Slots, NEW j \in 1..Len(D2[t])
          PROVE  /\ <<D2[t][j], t>> \in Can
                 /\ \A q \in T \ {r} : <<q, D2[t][j]>> \in Leq
        <3>1. CASE Old(t, j)
            BY <2>0, <3>1 DEF Old
        <3>2. CASE New(t, j)
            BY <3>2 DEF New
        <3> QED
            BY <1>4, <3>1, <3>2
    <2> QED
        BY <2>1, <2>2 DEF WellPlaced
<1>9. NoPlace(D2, U, Slots, Can, cap, Leq)
    <2> SUFFICES ASSUME NEW q \in U, NEW t \in Slots, <<q, t>> \in Can
                 PROVE  /\ Len(D2[t]) = cap
                        /\ \A j \in 1..Len(D2[t]) : <<q, D2[t][j]>> \in Leq
        BY DEF NoPlace
    <2>1. Len(D[t]) = cap /\ \A j \in 1..Len(D[t]) : <<q, D[t][j]>> \in Leq
        BY DEF Filled, NoPlace
    <2>2. t # s
        BY <1>3, <2>1
    <2> QED
        BY <1>2, <2>1, <2>2
<1>10. Filled(D2, T \ {r}, U, Slots, Rows, Can, cap, Leq)
    BY <1>6, <1>7, <1>8, <1>9 DEF Filled
<1> QED
    BY <1>10 DEF D2

\* LeaveOut: a row whose slots are full is left out.
LEMMA LeaveFilled ==
    ASSUME NEW D, NEW T, NEW U, NEW Slots, NEW Rows, NEW Can, NEW cap \in Nat, NEW Leq,
           Filled(D, T, U, Slots, Rows, Can, cap, Leq),
           NEW r \in T, \A s \in Slots : <<r, s>> \in Can => Len(D[s]) = cap
    PROVE  Filled(D, T \ {r}, U \cup {r}, Slots, Rows, Can, cap, Leq)
<1>1. RowSets(D, T \ {r}, U \cup {r}, Slots, Rows)
    BY DEF Filled, RowSets
<1>2. (T \ {r}) \cup (U \cup {r}) = T \cup U
    OBVIOUS
<1>3. EachOnce(D, T \ {r}, U \cup {r}, Slots, Rows)
    BY <1>2 DEF Filled, EachOnce
<1>4. WellPlaced(D, T \ {r}, Slots, Can, cap, Leq)
    BY DEF Filled, WellPlaced
<1>5. NoPlace(D, U \cup {r}, Slots, Can, cap, Leq)
    BY DEF Filled, NoPlace, WellPlaced
<1> QED
    BY <1>1, <1>3, <1>4, <1>5 DEF Filled

-----------------------------------------------------------------------------
(* The loop of makeScheduleHeuristic.                                        *)

CanGo ==
    {p \in ssDiscussions \X SchedulableSlots : p[2] \in PossibleSlots(p[1][1])}
AsPopular ==
    {p \in ssDiscussions \X ssDiscussions : MaxInterest(p[1]) <= MaxInterest(p[2])}

LoopInv ==
    /\ DBTypeOK /\ ~SnapshotFails
    /\ Filled(discussions, todo, unplaced, SchedulableSlots, ssDiscussions, CanGo,
              Cardinality(event_locations), AsPopular)

\* The tables are those of the snapshot throughout.
LEMMA SameSnapshot ==
    ASSUME UNCHANGED dbVars
    PROVE  /\ DBTypeOK' <=> DBTypeOK
           /\ SnapshotFails' <=> SnapshotFails
           /\ SchedulableSlots' = SchedulableSlots
           /\ ssDiscussions' = ssDiscussions
           /\ CanGo' = CanGo
           /\ AsPopular' = AsPopular
<1> DEFINE Sum(interest, r) ==
               MapThenSumSet(LAMBDA u : IF <<u, r[1]>> \in DOMAIN interest
                                        THEN interest[<<u, r[1]>>] ELSE 0, UserIDs)
<1> USE DEF dbVars, personTables, timeTables, placeTables
<1>1. \A r : MaxInterest(r)' = Sum(event_interest', r)
    BY DEF MaxInterest, UserInterest, MapThenSumSet, MapThenFoldSet
<1>2. \A r : MaxInterest(r) = Sum(event_interest, r)
    BY DEF MaxInterest, UserInterest
<1> HIDE DEF Sum
<1>3. \A r : MaxInterest(r)' = MaxInterest(r)
    BY <1>1, <1>2
<1>4. SchedulableSlots' = SchedulableSlots
    BY DEF SchedulableSlots, NonBreakSlots, LockedSlots
<1>5. ssDiscussions' = ssDiscussions
    BY DEF ssDiscussions, EntriesOf
<1>6. \A d : PossibleSlots(d)' = PossibleSlots(d)
    BY <1>4 DEF PossibleSlots, SlotsOf
<1>7. SnapshotFails' <=> SnapshotFails
    BY <1>4, <1>5, <1>6 DEF SnapshotFails
<1>8. DBTypeOK' <=> DBTypeOK
    BY DEF DBTypeOK
<1> QED
    BY <1>3, <1>4, <1>5, <1>6, <1>7, <1>8 DEF CanGo, AsPopular

\* The loop begins with empty slots and everything to do.
LEMMA InitLoopInv == HeuristicInit => LoopInv
<1> SUFFICES ASSUME HeuristicInit PROVE LoopInv
    OBVIOUS
<1>1. DBTypeOK /\ ~SnapshotFails
    BY DEF HeuristicInit, TypeOK
<1>2. Cardinality(event_locations) \in Nat
    BY <1>1, FinitePlaces
<1>3. /\ todo = ssDiscussions /\ unplaced = {}
      /\ discussions = [s \in SchedulableSlots |-> <<>>]
    BY DEF HeuristicInit
<1>4. Filled(discussions, todo, unplaced, SchedulableSlots, ssDiscussions, CanGo,
             Cardinality(event_locations), AsPopular)
    BY <1>2, <1>3 DEF Filled, RowSets, EachOnce, WellPlaced, NoPlace
<1> QED
    BY <1>1, <1>4 DEF LoopInv

\* Each iteration keeps what the earlier ones have achieved.
LEMMA NextLoopInv == LoopInv /\ [HeuristicNext]_hvars => LoopInv'
<1> SUFFICES ASSUME LoopInv, [HeuristicNext]_hvars PROVE LoopInv'
    OBVIOUS
<1> DEFINE Slots == SchedulableSlots
           Rows == ssDiscussions
           cap == Cardinality(event_locations)
<1>1. UNCHANGED dbVars
    BY DEF HeuristicNext, PutInSlot, LeaveOut, placeDiscussions, hvars, vars
<1>2. /\ DBTypeOK /\ ~SnapshotFails
      /\ Filled(discussions, todo, unplaced, Slots, Rows, CanGo, cap, AsPopular)
    BY DEF LoopInv
<1>3. cap \in Nat
    BY <1>2, FinitePlaces
<1>4. cap' = cap
    BY <1>1 DEF dbVars, timeTables
<1> SUFFICES Filled(discussions', todo', unplaced', Slots, Rows, CanGo, cap, AsPopular)
    <2>1. Filled(discussions', todo', unplaced', Slots', Rows', CanGo', cap', AsPopular')
        BY <1>1, <1>4, SameSnapshot
    <2> QED
        BY <1>1, <1>2, <2>1, SameSnapshot DEF LoopInv
<1>5. ASSUME NEW r \in todo, IsNext(r) PROVE \A q \in todo : <<q, r>> \in AsPopular
    <2>1. todo \subseteq ssDiscussions
        BY <1>2 DEF Filled, RowSets
    <2> QED
        BY <1>5, <2>1 DEF IsNext, AsPopular
<1>6. ASSUME NEW r \in ssDiscussions, PutInSlot(r)
      PROVE  Filled(discussions', todo', unplaced', Slots, Rows, CanGo, cap, AsPopular)
    <2>1. PICK s \in Best(r) : discussions' = [discussions EXCEPT ![s] = Append(@, r)]
        BY <1>6 DEF PutInSlot
    <2>2. IsNext(r) /\ r \in todo /\ todo' = todo \ {r} /\ unplaced' = unplaced
        BY <1>6 DEF PutInSlot, IsNext
    <2>3. s \in PossibleSlots(r[1]) /\ EmptyPlaces(s) > 0
        BY DEF Best, Eligible
    <2>4. s \in SchedulableSlots
        BY <2>3 DEF PossibleSlots
    <2>5. <<r, s>> \in CanGo
        BY <2>3, <2>4 DEF CanGo
    <2>6. discussions \in [SchedulableSlots -> Seq(ssDiscussions)]
        BY <1>2 DEF Filled, RowSets
    <2>7. Len(discussions[s]) \in Nat
        BY <2>4, <2>6
    <2>8. Len(discussions[s]) < cap
        BY <1>3, <2>3, <2>7 DEF EmptyPlaces
    <2>9. discussions' = [discussions EXCEPT ![s] = Append(discussions[s], r)]
        BY <2>1, <2>4, <2>6
    <2> HIDE DEF cap
    <2> QED
        BY <1>2, <1>3, <1>5, <2>2, <2>4, <2>5, <2>8, <2>9, PutFilled
<1>7. ASSUME NEW r \in ssDiscussions, LeaveOut(r)
      PROVE  Filled(discussions', todo', unplaced', Slots, Rows, CanGo, cap, AsPopular)
    <2>1. /\ Best(r) = {} /\ r \in todo /\ todo' = todo \ {r}
          /\ unplaced' = unplaced \cup {r} /\ discussions' = discussions
        BY <1>7 DEF LeaveOut, IsNext
    <2>2. discussions \in [SchedulableSlots -> Seq(ssDiscussions)]
        BY <1>2 DEF Filled, RowSets
    <2>3. Eligible(r) = {}
        BY <1>2, <2>1, <2>2, BestExists
    <2>4. ASSUME NEW s \in Slots, <<r, s>> \in CanGo
          PROVE  Len(discussions[s]) = cap
        <3>1. s \in PossibleSlots(r[1])
            BY <2>4 DEF CanGo
        <3>2. Len(discussions[s]) \in Nat
            BY <2>2
        <3>3. ~(cap - Len(discussions[s]) > 0)
            BY <2>3, <3>1 DEF Eligible, EmptyPlaces
        <3>4. Len(discussions[s]) <= cap
            BY <1>2 DEF Filled, WellPlaced
        <3> QED
            BY <1>3, <3>2, <3>3, <3>4
    <2> HIDE DEF cap
    <2> QED
        BY <1>2, <1>3, <2>1, <2>4, LeaveFilled
<1>8. CASE UNCHANGED <<todo, discussions, unplaced>>
    BY <1>2, <1>8
<1> QED
    BY <1>6, <1>7, <1>8 DEF HeuristicNext, placeDiscussions, hvars

\* A row is left out only when every slot that it could go to is full, and full of
\* rows that are as popular: for every database, the score of a slot that has a
\* place left is above zero, so that the loop never misses it.
THEOREM LeftOutForPopularHolds == HeuristicSpec => []LeftOutForPopular
<1>1. LoopInv => LeftOutForPopular
    <2> SUFFICES ASSUME LoopInv, NEW r \in unplaced, NEW s \in PossibleSlots(r[1])
                 PROVE  /\ Len(discussions[s]) = Cardinality(event_locations)
                        /\ \A q \in Range(discussions[s]) :
                              MaxInterest(q) >= MaxInterest(r)
        BY DEF LeftOutForPopular
    <2>1. r \in ssDiscussions /\ s \in SchedulableSlots
        BY DEF LoopInv, Filled, RowSets, PossibleSlots
    <2>2. <<r, s>> \in CanGo
        BY <2>1 DEF CanGo
    <2>3. /\ Len(discussions[s]) = Cardinality(event_locations)
          /\ \A j \in 1..Len(discussions[s]) : <<r, discussions[s][j]>> \in AsPopular
        BY <2>1, <2>2 DEF LoopInv, Filled, NoPlace
    <2>4. DOMAIN discussions[s] = 1..Len(discussions[s])
        BY <2>1 DEF LoopInv, Filled, RowSets
    <2> QED
        BY <2>3, <2>4 DEF Range, AsPopular
<1> QED
    BY <1>1, InitLoopInv, NextLoopInv, PTL DEF HeuristicSpec

\* The loop never puts more discussions into a slot than there are locations, so
\* the error that placeDiscussions has for that case never ends a MakeSchedule.
THEOREM NeverTooMany ==
    HeuristicSpec => [](\A s \in SchedulableSlots : EmptyPlaces(s) >= 0)
<1>1. LoopInv => \A s \in SchedulableSlots : EmptyPlaces(s) >= 0
    <2> SUFFICES ASSUME LoopInv, NEW s \in SchedulableSlots PROVE EmptyPlaces(s) >= 0
        OBVIOUS
    <2>1. /\ Len(discussions[s]) <= Cardinality(event_locations)
          /\ discussions[s] \in Seq(ssDiscussions)
        BY DEF LoopInv, Filled, RowSets, WellPlaced
    <2>2. Len(discussions[s]) \in Nat /\ Cardinality(event_locations) \in Nat
        BY <2>1, FinitePlaces DEF LoopInv
    <2> QED
        BY <2>1, <2>2 DEF EmptyPlaces
<1> QED
    BY <1>1, InitLoopInv, NextLoopInv, PTL DEF HeuristicSpec

-----------------------------------------------------------------------------
(* placeDiscussions: the plan is one that module Schedule allows.            *)

\* The number of a location in their order.
Rank(l) == Cardinality({k \in event_locations : k < l}) + 1

\* LocationAt goes through the locations in order and passes none over, whatever
\* gaps there are between their ids.
LEMMA LocationRanks ==
    ASSUME DBTypeOK
    PROVE  /\ \A j \in 1..Cardinality(event_locations) :
                 LocationAt(j) \in event_locations /\ Rank(LocationAt(j)) = j
           /\ \A l \in event_locations :
                 /\ Rank(l) \in 1..Cardinality(event_locations)
                 /\ LocationAt(Rank(l)) = l
           /\ \A l, m \in event_locations : l < m => Rank(l) < Rank(m)
<1> DEFINE L == event_locations
           n == Cardinality(event_locations)
           Below(l) == {k \in L : k < l}
           rank == [l \in L |-> Rank(l)]
<1>1. L \subseteq Nat /\ IsFiniteSet(L) /\ n \in Nat
    BY FinitePlaces DEF DBTypeOK, LocationIDs
<1> HIDE DEF L
<1>2. \A l \in L : IsFiniteSet(Below(l)) /\ Cardinality(Below(l)) \in Nat
    <2> TAKE l \in L
    <2>1. Below(l) \in SUBSET L
        OBVIOUS
    <2>2. IsFiniteSet(Below(l))
        BY <1>1, <2>1, FS_Subset
    <2> QED
        BY <2>2, FS_CardinalityType
<1>3. \A l \in L : Rank(l) = Cardinality(Below(l)) + 1
    BY DEF Rank, L
<1>4. ASSUME NEW l \in L, NEW m \in L, l < m PROVE Rank(l) < Rank(m)
    <2>0. l \in Nat /\ m \in Nat /\ \A k \in L : k \in Nat
        BY <1>1
    <2>1. Below(l) \subseteq Below(m) /\ l \in Below(m) /\ l \notin Below(l)
        <3>1. \A k \in L : k < l => k < m
            BY <1>4, <2>0
        <3>2. ~(l < l)
            BY <2>0
        <3> QED
            BY <1>4, <3>1, <3>2
    <2> HIDE DEF Below
    <2>2. /\ Cardinality(Below(l)) <= Cardinality(Below(m))
          /\ Cardinality(Below(m)) = Cardinality(Below(l)) => Below(m) = Below(l)
        BY <1>2, <2>1, FS_Subset
    <2>3. Cardinality(Below(l)) \in Nat /\ Cardinality(Below(m)) \in Nat
        BY <1>2
    <2>4. Cardinality(Below(l)) < Cardinality(Below(m))
        BY <2>1, <2>2, <2>3
    <2> QED
        BY <1>3, <2>3, <2>4
<1>5. ASSUME NEW l \in L PROVE Rank(l) \in 1..n
    <2>1. Below(l) \subseteq L /\ l \notin Below(l)
        BY <1>1
    <2> HIDE DEF Below
    <2>2. /\ Cardinality(Below(l)) <= Cardinality(L)
          /\ Cardinality(L) = Cardinality(Below(l)) => L = Below(l)
        BY <1>1, <2>1, FS_Subset
    <2>3. Cardinality(Below(l)) < Cardinality(L)
        BY <1>1, <1>2, <2>1, <2>2 DEF L
    <2> QED
        BY <1>1, <1>2, <1>3, <2>3 DEF L
<1>6. \A l, m \in L : Rank(l) = Rank(m) => l = m
    <2> SUFFICES ASSUME NEW l \in L, NEW m \in L, Rank(l) = Rank(m), l # m PROVE FALSE
        OBVIOUS
    <2>1. l \in Nat /\ m \in Nat /\ Rank(l) \in Nat
        BY <1>1, <1>5
    <2>2. l < m \/ m < l
        BY <2>1
    <2>3. ~(Rank(l) < Rank(l))
        BY <2>1
    <2> QED
        BY <1>4, <2>2, <2>3
<1>7. \A j \in 1..n : \E l \in L : Rank(l) = j
    <2>1. rank \in Injection(L, 1..n)
        <3>1. rank \in [L -> 1..n]
            BY <1>5
        <3>2. \A l, m \in L : rank[l] = rank[m] => l = m
            BY <1>6
        <3> HIDE DEF rank
        <3> QED
            BY <3>1, <3>2 DEF Injection, IsInjective
    <2>2. IsFiniteSet(1..n) /\ Cardinality(1..n) = n
        BY <1>1, FS_Interval
    <2>3. Cardinality(L) = n
        BY DEF L
    <2> HIDE DEF rank
    <2>4. rank \in Surjection(L, 1..n)
        BY <2>1, <2>2, <2>3, FS_Injection
    <2> QED
        BY <2>4 DEF Surjection, rank
<1>8. ASSUME NEW j \in 1..n, NEW l \in L
      PROVE  Cardinality({k \in event_locations : k < l}) = j - 1 <=> Rank(l) = j
    <2>1. Cardinality({k \in event_locations : k < l}) \in Nat
        BY <1>2 DEF L
    <2> QED
        BY <1>1, <2>1 DEF Rank
<1>9. ASSUME NEW j \in 1..n
      PROVE  LocationAt(j) \in L /\ Rank(LocationAt(j)) = j
    <2>1. PICK l \in L : Rank(l) = j
        BY <1>7
    <2>2. Cardinality({k \in event_locations : k < l}) = j - 1
        BY <1>8, <2>1
    <2>3. /\ LocationAt(j) \in event_locations
          /\ Cardinality({k \in event_locations : k < LocationAt(j)}) = j - 1
        BY <2>2 DEF LocationAt, L
    <2> QED
        BY <1>8, <2>3 DEF L
<1>10. ASSUME NEW l \in L PROVE LocationAt(Rank(l)) = l
    BY <1>5, <1>6, <1>9
<1> QED
    BY <1>4, <1>5, <1>9, <1>10 DEF L

\* What the loop has put into the slots is a placement, once nothing is to do.
LEMMA LoopPlaces ==
    ASSUME LoopInv, todo = {}
    PROVE  \E placed \in SUBSET ssDiscussions :
           \E at \in [placed -> SchedulableSlots \X event_locations] :
              /\ IsPlacement(at)
              /\ PlannedEntries(at) =
                    UNION {{[discussionid |-> discussions[s][j][1], slotid |-> s,
                             locationid |-> LocationAt(j)] :
                               j \in 1..Len(discussions[s])} : s \in SchedulableSlots}
<1> DEFINE D == discussions
           Slots == SchedulableSlots
           Rows == ssDiscussions
           cap == Cardinality(event_locations)
           placed == {r \in Rows : \E s \in Slots : \E j \in 1..Len(D[s]) : D[s][j] = r}
           SlotOf(r) == CHOOSE s \in Slots : \E j \in 1..Len(D[s]) : D[s][j] = r
           IndexOf(r) == CHOOSE j \in 1..Len(D[SlotOf(r)]) : D[SlotOf(r)][j] = r
           at == [r \in placed |-> <<SlotOf(r), LocationAt(IndexOf(r))>>]
<1>1. /\ DBTypeOK /\ cap \in Nat
      /\ RowSets(D, todo, unplaced, Slots, Rows)
      /\ EachOnce(D, todo, unplaced, Slots, Rows)
      /\ WellPlaced(D, todo, Slots, CanGo, cap, AsPopular)
      /\ NoPlace(D, unplaced, Slots, CanGo, cap, AsPopular)
    BY FinitePlaces DEF LoopInv, Filled
<1>2. /\ \A j \in 1..cap : LocationAt(j) \in event_locations /\ Rank(LocationAt(j)) = j
      /\ \A l \in event_locations : Rank(l) \in 1..cap /\ LocationAt(Rank(l)) = l
      /\ \A l, m \in event_locations : l < m => Rank(l) < Rank(m)
    BY <1>1, LocationRanks
<1> HIDE DEF D, Slots, Rows, cap
<1>3. \A s \in Slots : \A j \in 1..Len(D[s]) :
         /\ D[s][j] \in Rows
         /\ Len(D[s]) \in Nat
         /\ j \in 1..cap
    <2> SUFFICES ASSUME NEW s \in Slots, NEW j \in 1..Len(D[s])
                 PROVE  D[s][j] \in Rows /\ Len(D[s]) \in Nat /\ j \in 1..cap
        OBVIOUS
    <2>1. D[s] \in Seq(Rows)
        BY <1>1 DEF RowSets
    <2>2. Len(D[s]) <= cap
        BY <1>1 DEF WellPlaced
    <2> QED
        BY <1>1, <2>1, <2>2
<1>4. ASSUME NEW s \in Slots, NEW j \in 1..Len(D[s])
      PROVE  D[s][j] \in placed /\ at[D[s][j]] = <<s, LocationAt(j)>>
    <2> DEFINE r == D[s][j]
    <2>1. r \in placed
        BY <1>3
    <2>2. SlotOf(r) \in Slots /\ \E k \in 1..Len(D[SlotOf(r)]) : D[SlotOf(r)][k] = r
        OBVIOUS
    <2>3. IndexOf(r) \in 1..Len(D[SlotOf(r)]) /\ D[SlotOf(r)][IndexOf(r)] = r
        <3> HIDE DEF SlotOf, r
        <3> QED
            BY <2>2
    <2>4. at[r] = <<SlotOf(r), LocationAt(IndexOf(r))>>
        <3> HIDE DEF SlotOf, IndexOf, placed, r
        <3> QED
            BY <2>1
    <2> HIDE DEF SlotOf, IndexOf, placed, at
    <2>5. SlotOf(r) = s /\ IndexOf(r) = j
        BY <1>1, <2>2, <2>3 DEF EachOnce
    <2> QED
        BY <2>1, <2>4, <2>5
<1>5. \A r \in placed : \E s \in Slots : \E j \in 1..Len(D[s]) : r = D[s][j]
    OBVIOUS
<1>6. placed \in SUBSET Rows /\ DOMAIN at = placed
    OBVIOUS
<1>7. at \in [placed -> Slots \X event_locations]
    <2>1. \A r \in placed : at[r] \in Slots \X event_locations
        <3> HIDE DEF at, placed
        <3> TAKE r \in placed
        <3>1. PICK s \in Slots : \E j \in 1..Len(D[s]) : r = D[s][j]
            BY <1>5
        <3>2. PICK j \in 1..Len(D[s]) : r = D[s][j]
            BY <3>1
        <3>3. at[r] = <<s, LocationAt(j)>>
            BY <1>4, <3>2
        <3>4. LocationAt(j) \in event_locations
            BY <1>2, <1>3
        <3> QED
            BY <3>3, <3>4
    <2> HIDE DEF placed, SlotOf, IndexOf
    <2> QED
        BY <2>1
<1> HIDE DEF SlotOf, IndexOf, placed, at
<1>8. \A s \in Slots : \A r \in Rows : <<r, s>> \in CanGo <=> s \in PossibleSlots(r[1])
    BY DEF CanGo, Slots, Rows
<1>9. IsInjective(at)
    <2> SUFFICES ASSUME NEW q \in placed, NEW r \in placed, at[q] = at[r] PROVE q = r
        BY <1>6 DEF IsInjective
    <2>1. PICK s \in Slots : \E j \in 1..Len(D[s]) : q = D[s][j]
        BY <1>5
    <2>2. PICK j \in 1..Len(D[s]) : q = D[s][j]
        BY <2>1
    <2>3. PICK t \in Slots : \E k \in 1..Len(D[t]) : r = D[t][k]
        BY <1>5
    <2>4. PICK k \in 1..Len(D[t]) : r = D[t][k]
        BY <2>3
    <2>5. s = t /\ LocationAt(j) = LocationAt(k)
        BY <1>4, <2>2, <2>4
    <2>6. j \in 1..cap /\ k \in 1..cap
        BY <1>3, <2>5
    <2>7. j = k
        BY <1>2, <2>5, <2>6
    <2> QED
        BY <2>2, <2>4, <2>5, <2>7
<1>10. ASSUME NEW r \in placed
       PROVE  /\ at[r][1] \in PossibleSlots(r[1])
              /\ \A l \in event_locations :
                    l < at[r][2] => \E q \in placed : at[q] = <<at[r][1], l>>
    <2>1. PICK s \in Slots : \E j \in 1..Len(D[s]) : r = D[s][j]
        BY <1>5
    <2>2. PICK j \in 1..Len(D[s]) : r = D[s][j]
        BY <2>1
    <2>3. at[r] = <<s, LocationAt(j)>>
        BY <1>4, <2>2
    <2>4. s \in PossibleSlots(r[1])
        BY <1>1, <1>3, <1>8, <2>2 DEF WellPlaced
    <2>5. ASSUME NEW l \in event_locations, l < LocationAt(j)
          PROVE  \E q \in placed : at[q] = <<s, l>>
        <3>1. j \in 1..cap /\ Len(D[s]) \in Nat
            BY <1>3
        <3>2. LocationAt(j) \in event_locations /\ Rank(LocationAt(j)) = j
            BY <1>2, <3>1
        <3>3. Rank(l) \in 1..cap /\ LocationAt(Rank(l)) = l /\ Rank(l) < j
            BY <1>2, <2>5, <3>2
        <3>4. Rank(l) \in 1..Len(D[s])
            BY <1>1, <3>1, <3>3
        <3> QED
            BY <1>4, <3>3, <3>4
    <2> QED
        BY <2>3, <2>4, <2>5
<1>11. ASSUME NEW r \in Rows \ placed, NEW s \in PossibleSlots(r[1]),
              NEW l \in event_locations
       PROVE  \E q \in placed : at[q] = <<s, l>>
    <2>1. s \in Slots
        BY DEF PossibleSlots, Slots
    <2>2. r \in unplaced
        BY <1>1 DEF EachOnce, placed
    <2>3. Len(D[s]) = cap
        BY <1>1, <1>8, <2>1, <2>2 DEF NoPlace
    <2>4. Rank(l) \in 1..Len(D[s]) /\ LocationAt(Rank(l)) = l
        BY <1>2, <2>3
    <2> QED
        BY <1>4, <2>1, <2>4
<1>12. IsPlacement(at)
    BY <1>6, <1>9, <1>10, <1>11 DEF IsPlacement, Rows
<1>13. PlannedEntries(at) =
          UNION {{[discussionid |-> D[s][j][1], slotid |-> s,
                   locationid |-> LocationAt(j)] : j \in 1..Len(D[s])} : s \in Slots}
    <2> DEFINE Entry(s, j) == [discussionid |-> D[s][j][1], slotid |-> s,
                               locationid |-> LocationAt(j)]
               Of(r) == [discussionid |-> r[1], slotid |-> at[r][1],
                         locationid |-> at[r][2]]
    <2>1. PlannedEntries(at) = {Of(r) : r \in placed}
        BY <1>6 DEF PlannedEntries
    <2>2. \A s \in Slots : \A j \in 1..Len(D[s]) :
             D[s][j] \in placed /\ Of(D[s][j]) = Entry(s, j)
        <3> TAKE s \in Slots
        <3> TAKE j \in 1..Len(D[s])
        <3>1. D[s][j] \in placed /\ at[D[s][j]] = <<s, LocationAt(j)>>
            BY <1>4
        <3>2. at[D[s][j]][1] = s /\ at[D[s][j]][2] = LocationAt(j)
            BY <3>1
        <3> QED
            BY <3>1, <3>2
    <2> HIDE DEF Of, Entry
    <2>3. {Of(r) : r \in placed}
              = UNION {{Entry(s, j) : j \in 1..Len(D[s])} : s \in Slots}
        BY <1>5, <2>2
    <2> QED
        BY <2>1, <2>3 DEF Entry
<1> QED
    BY <1>6, <1>7, <1>12, <1>13 DEF D, Slots, Rows

\* The planning makes a plan that the contract of makeSnapshot allows, whatever the
\* database: no row is in two places, no place has two, the locations of a slot are
\* used in order, and a row is left out only when its slots are full.
THEOREM PlanMeetsContractHolds == HeuristicSpec => PlanMeetsContract
<1>1. LoopInv /\ [HeuristicNext]_hvars => [makeSnapshot(Runner)]_vars
    <2> SUFFICES ASSUME LoopInv, [HeuristicNext]_hvars PROVE [makeSnapshot(Runner)]_vars
        OBVIOUS
    <2>1. CASE placeDiscussions
        <3>1. PICK placed \in SUBSET ssDiscussions :
               \E at \in [placed -> SchedulableSlots \X event_locations] :
                  /\ IsPlacement(at)
                  /\ PlannedEntries(at) =
                        UNION {{[discussionid |-> discussions[s][j][1], slotid |-> s,
                                 locationid |-> LocationAt(j)] :
                                   j \in 1..Len(discussions[s])} :
                                      s \in SchedulableSlots}
            BY <2>1, LoopPlaces DEF placeDiscussions
        <3>2. PICK at \in [placed -> SchedulableSlots \X event_locations] :
                  /\ IsPlacement(at)
                  /\ plan' = [plan EXCEPT ![Runner] =
                                 [slots |-> SchedulableSlots,
                                  entries |-> PlannedEntries(at)]]
            BY <2>1, <3>1 DEF placeDiscussions
        <3>3. plan[Runner] = NoPlan /\ ~SnapshotFails /\ UNCHANGED dbVars
            BY <2>1 DEF placeDiscussions, LoopInv
        <3> QED
            BY <3>2, <3>3 DEF makeSnapshot
    <2>2. CASE UNCHANGED vars
        BY <2>2
    <2> QED
        BY <2>1, <2>2 DEF HeuristicNext, PutInSlot, LeaveOut, hvars
<1> QED
    BY <1>1, InitLoopInv, NextLoopInv, PTL DEF HeuristicSpec, PlanMeetsContract
=============================================================================

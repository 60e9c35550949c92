---- MODULE TxLoopProofs ----
(***************************************************************************)
(* Proofs about TxLoop, for any number of callers and any operations whose *)
(* statements fit: every operation without nested transactions is atomic   *)
(* for its callers, listings are not torn and hand nothing out twice.      *)
(***************************************************************************)
EXTENDS TxLoop, TLAPS

\* The tables that the first n statements of b use, and those that they write.
Covered(b, n) == UNION {Touched(b[i]) : i \in 1..n}
Written(b, n) == UNION {b[i].writes : i \in 1..n}

\* The call cl may still fail, or has something to commit.
Open(cl) == cl.end = "no" /\ (cl.pos < Len(Body[cl.op]) \/ TxWrites[cl.op] # {})

\* What the statements of a transaction have seen is locked, and therefore as it was.
PlainOK(cl, h, d) ==
    /\ cl.torn = {}
    /\ Open(cl) =>
          /\ \A t \in Tables :
                cl.saw[t] = IF t \in Covered(Body[cl.op], cl.pos) THEN d[t] ELSE NoValue
          /\ Covered(Body[cl.op], cl.pos) \subseteq h["tx"].rd \cup h["tx"].wr
          /\ Written(Body[cl.op], cl.pos) \subseteq h["tx"].wr

\* So is the list of a nested operation, from its first statement on.
ListOK(cl, h, d) ==
    /\ cl.torn \cap Body[cl.op][1].reads = {}
    /\ cl.end = "no" /\ cl.pos = 0 => \A t \in Tables : cl.saw[t] = NoValue
    /\ cl.end = "no" /\ cl.pos # 0 =>
          \A t \in Body[cl.op][1].reads : t \in h["tx"].rd /\ cl.saw[t] = d[t]

CallOK(cl, h, d) ==
    /\ cl \in CallType /\ cl.pos <= Len(Body[cl.op])
    /\ IF cl.op \in Nested THEN ListOK(cl, h, d) ELSE PlainOK(cl, h, d)

HeldOK == held \in [Clients -> [Conns -> [rd : SUBSET Tables, wr : SUBSET Tables]]]

\* No two connections, of whatever callers, have a table locked of which one has written.
Exclusion == \A c, d \in Clients, k, l \in Conns :
    <<c, k>> # <<d, l>> => held[c][k].wr \cap (held[d][l].rd \cup held[d][l].wr) = {}

LoopInv ==
    /\ db \in [Tables -> Values] /\ busy \in BOOLEAN
    /\ HeldOK /\ Exclusion
    /\ DOMAIN call = Clients
    /\ \A c \in Clients : call[c] # NoCall => CallOK(call[c], held[c], db)

LEMMA InvType == LoopInv => TypeOK
BY DEF LoopInv, HeldOK, CallOK, TypeOK

LEMMA InvNotTorn == LoopInv => NoTornRead
<1> SUFFICES ASSUME LoopInv, NEW c \in Clients, InCall(c)
             PROVE  call[c].torn \cap
                       (IF call[c].op \in Nested THEN Statements(c)[1].reads ELSE Tables) = {}
    BY DEF NoTornRead
<1> QED
    BY DEF LoopInv, InCall, CallOK, ListOK, PlainOK, Statements

-----------------------------------------------------------------------------
\* Operations and their statements.

LEMMA BodyFacts ==
    ASSUME NEW op \in Ops
    PROVE  /\ Body[op] \in Seq(StmtType) /\ Len(Body[op]) \in Nat /\ Len(Body[op]) >= 1
           /\ DOMAIN Body[op] = 1..Len(Body[op])
           /\ \A i \in 1..Len(Body[op]) : Body[op][i] \in StmtType
           /\ Fits(Body[op])
<1>1. Body[op] \in Seq(StmtType) /\ Fits(Body[op])
    BY BodyAssumption
<1>2. Body[op] # <<>>
    BY <1>1 DEF Fits
<1> QED
    BY <1>1, <1>2

LEMMA CoveredNext ==
    ASSUME NEW b, NEW n \in Nat
    PROVE  /\ Covered(b, n + 1) = Covered(b, n) \cup Touched(b[n + 1])
           /\ Written(b, n + 1) = Written(b, n) \cup b[n + 1].writes
           /\ Covered(b, 0) = {} /\ Written(b, 0) = {}
<1>1. 1..(n + 1) = (1..n) \cup {n + 1} /\ 1..0 = {}
    OBVIOUS
<1> QED
    BY <1>1 DEF Covered, Written

LEMMA StmtFacts ==
    ASSUME NEW op \in Ops, NEW i \in 1..Len(Body[op])
    PROVE  /\ Body[op][i] \in StmtType
           /\ Touched(Body[op][i]) \subseteq Tables /\ Body[op][i].writes \subseteq Tables
           /\ Touched(Body[op][i]) \subseteq Foot[op] /\ Body[op][i].writes \subseteq Writes[op]
           /\ Body[op][i].conn # "pool" => Body[op][i].writes \subseteq TxWrites[op]
BY BodyFacts DEF StmtType, Touched, Foot, FootOf, Writes, WritesOf, TxWrites, TxWritesOf

\* Nested operations write nothing.
LEMMA NestedFacts ==
    ASSUME NEW op \in Nested
    PROVE  /\ op \in Ops /\ Writes[op] = {} /\ TxWrites[op] = {}
           /\ \A i \in 1..Len(Body[op]) : Body[op][i].writes = {}
           /\ Body[op][1].conn = "tx" /\ Body[op][1].loop = "tx" /\ ~Body[op][1].top
           /\ \A i \in 2..Len(Body[op]) :
                 /\ Body[op][i].loop = "inner"
                 /\ \E j \in 2..i : Body[op][j].top /\ \A k \in (j + 1)..i : ~Body[op][k].top
<1>1. op \in Ops /\ OpensInner(Body[op])
    BY DEF Nested
<1>2. Fits(Body[op]) /\ DOMAIN Body[op] = 1..Len(Body[op])
    BY <1>1, BodyFacts
<1>3. WritesOf(Body[op]) = {}
    BY <1>1, <1>2 DEF Fits
<1>4. \A i \in 1..Len(Body[op]) : Body[op][i].writes = {}
    BY <1>2, <1>3 DEF WritesOf
<1> QED
    BY <1>1, <1>2, <1>3, <1>4 DEF Fits, Writes, TxWrites, TxWritesOf

\* In the others only the last statement can be outside of the transaction.
LEMMA PlainFacts ==
    ASSUME NEW op \in Ops \ Nested
    PROVE  /\ \A i \in 1..Len(Body[op]) :
                 /\ Body[op][i].loop = "tx" /\ Body[op][i].conn \in {"tx", "pool"}
                 /\ Body[op][i].conn = "pool" => i = Len(Body[op]) /\ TxWrites[op] = {}
           /\ Foot[op] = Covered(Body[op], Len(Body[op]))
           /\ Writes[op] = Written(Body[op], Len(Body[op]))
           /\ TxWrites[op] \subseteq Writes[op]
           /\ TxWrites[op] # {} => TxWrites[op] = Writes[op]
<1>1. ~OpensInner(Body[op]) /\ Fits(Body[op]) /\ DOMAIN Body[op] = 1..Len(Body[op])
      /\ \A i \in 1..Len(Body[op]) : Body[op][i] \in StmtType
    BY BodyFacts DEF Nested
<1>2. \A i \in 1..Len(Body[op]) :
         /\ Body[op][i].loop = "tx" /\ Body[op][i].conn \in {"tx", "pool"}
         /\ Body[op][i].conn = "pool" => i = Len(Body[op]) /\ TxWrites[op] = {}
    BY <1>1 DEF Fits, OpensInner, StmtType, Conns, TxWrites
<1>3. Foot[op] = Covered(Body[op], Len(Body[op])) /\ Writes[op] = Written(Body[op], Len(Body[op]))
    BY <1>1 DEF Foot, FootOf, Writes, WritesOf, Covered, Written
<1>4. TxWrites[op] \subseteq Writes[op]
    BY <1>1 DEF TxWrites, TxWritesOf, Writes, WritesOf
<1>5. TxWrites[op] # {} => TxWrites[op] = Writes[op]
    BY <1>1, <1>2 DEF TxWrites, TxWritesOf, Writes, WritesOf
<1> QED
    BY <1>2, <1>3, <1>4, <1>5

-----------------------------------------------------------------------------
\* Steps.

\* A call does not notice changes of tables that it has not locked.
LEMMA CallStays ==
    ASSUME NEW cl, NEW h, NEW d, NEW d2, CallOK(cl, h, d),
           \A t \in h["tx"].rd \cup h["tx"].wr : d2[t] = d[t]
    PROVE  CallOK(cl, h, d2)
<1>1. CASE cl.op \in Nested
    BY <1>1 DEF CallOK, ListOK
<1>2. CASE cl.op \notin Nested
    <2>1. PlainOK(cl, h, d)
        BY <1>2 DEF CallOK
    <2>2. PlainOK(cl, h, d2)
        BY <2>1 DEF PlainOK
    <2> QED
        BY <1>2, <2>2 DEF CallOK
<1> QED
    BY <1>1, <1>2

Locks == [Conns -> [rd : SUBSET Tables, wr : SUBSET Tables]]

\* The steps of one caller.
LEMMA OneCall ==
    ASSUME LoopInv, NEW c \in Clients,
           call' = [call EXCEPT ![c] = call'[c]], held' = [held EXCEPT ![c] = held'[c]],
           db' \in [Tables -> Values], busy' \in BOOLEAN, held'[c] \in Locks, Exclusion',
           \A d \in Clients \ {c} : \A t \in held[d]["tx"].rd \cup held[d]["tx"].wr : db'[t] = db[t],
           call'[c] # NoCall => CallOK(call'[c], held'[c], db')
    PROVE  LoopInv'
<1>1. HeldOK' /\ DOMAIN call' = Clients
    BY DEF LoopInv, HeldOK, Locks
<1>2. ASSUME NEW d \in Clients, call'[d] # NoCall
      PROVE  CallOK(call'[d], held'[d], db')
    <2>1. CASE d = c
        BY <1>2, <2>1
    <2>2. CASE d # c
        <3>1. call'[d] = call[d] /\ held'[d] = held[d]
            BY <2>2 DEF LoopInv, HeldOK
        <3>2. CallOK(call[d], held[d], db)
            BY <1>2, <3>1 DEF LoopInv
        <3> QED
            BY <2>2, <3>1, <3>2, CallStays
    <2> QED
        BY <2>1, <2>2
<1> QED
    BY <1>1, <1>2 DEF LoopInv

LEMMA FewerLocks ==
    ASSUME LoopInv, NEW c \in Clients, held' = [held EXCEPT ![c] = held'[c]],
           \A k \in Conns : held'[c][k].rd \subseteq held[c][k].rd /\ held'[c][k].wr \subseteq held[c][k].wr
    PROVE  Exclusion'
<1>1. \A d \in Clients, k \in Conns :
         held'[d][k].rd \subseteq held[d][k].rd /\ held'[d][k].wr \subseteq held[d][k].wr
    BY DEF LoopInv, HeldOK
<1> QED
    BY <1>1 DEF LoopInv, Exclusion

LEMMA CallFacts ==
    ASSUME LoopInv, NEW c \in Clients, call[c] # NoCall
    PROVE  /\ CallOK(call[c], held[c], db) /\ call[c] \in CallType
           /\ call[c].op \in Ops /\ call[c].pos \in Nat /\ call[c].pos <= Len(Body[call[c].op])
           /\ call[c].saw \in [Tables -> Values \cup {NoValue}]
           /\ held[c] \in Locks /\ DOMAIN call = Clients
BY DEF LoopInv, CallOK, CallType, HeldOK, Locks

LEMMA FreeFacts == Free \in Locks /\ \A k \in Conns : Free[k].rd = {} /\ Free[k].wr = {}
BY DEF Free, NoLocks, Locks

\* The call that End leaves.
LEMMA EndFacts ==
    ASSUME LoopInv, NEW c \in Clients, call[c] # NoCall, NEW how \in {"done", "failed"}, End(c, how)
    PROVE  /\ call' = [call EXCEPT ![c] = call'[c]] /\ call'[c] \in CallType
           /\ call'[c].op = call[c].op /\ call'[c].end = how /\ call'[c].torn = call[c].torn
           /\ call'[c].pos = Len(Body[call[c].op])
           /\ call'[c].saw = IF how = "done" THEN call[c].saw ELSE NothingSeen
           /\ held' = [held EXCEPT ![c] = held'[c]] /\ held'[c] = Free
<1> DEFINE seen == IF how = "done" THEN call[c].saw ELSE NothingSeen
<1>1. /\ call[c] \in CallType /\ call[c].op \in Ops /\ call[c].saw \in [Tables -> Values \cup {NoValue}]
      /\ DOMAIN call = Clients /\ DOMAIN held = Clients
    BY CallFacts DEF LoopInv, HeldOK
<1>2. Len(Body[call[c].op]) \in Nat
    BY <1>1, BodyFacts
<1>3. seen \in [Tables -> Values \cup {NoValue}]
    BY <1>1 DEF NothingSeen
<1>4. /\ call' = [call EXCEPT ![c] = call'[c]]
      /\ call'[c] = [Begin(call[c].op) EXCEPT !.pos = Len(Body[call[c].op]), !.end = how,
            !.saw = seen, !.torn = call[c].torn]
      /\ held' = [held EXCEPT ![c] = held'[c]] /\ held'[c] = Free
    BY <1>1 DEF End, Statements
<1>5. [k \in Conns |-> 1] \in [Conns -> 1..(minTxRetries + 1)]
    BY LoopAssumption
<1> HIDE DEF seen
<1>6. call[c].torn \in SUBSET Tables
    BY <1>1 DEF CallType
<1>7. call'[c] = [op |-> call[c].op, pos |-> Len(Body[call[c].op]), end |-> how,
                  tries |-> [k \in Conns |-> 1], late |-> [k \in Conns |-> FALSE],
                  saw |-> seen, torn |-> call[c].torn]
    BY <1>4 DEF Begin
<1>8. call'[c] \in CallType
    BY <1>1, <1>2, <1>3, <1>5, <1>6, <1>7 DEF CallType
<1>9. /\ call'[c].op = call[c].op /\ call'[c].end = how /\ call'[c].torn = call[c].torn
      /\ call'[c].pos = Len(Body[call[c].op]) /\ call'[c].saw = seen
    BY <1>7
<1>10. call'[c].saw = IF how = "done" THEN call[c].saw ELSE NothingSeen
    BY <1>9 DEF seen
<1> QED
    BY <1>4, <1>8, <1>9, <1>10

LEMMA EndKeeps ==
    ASSUME LoopInv, NEW c \in Clients, call[c] # NoCall, NEW how \in {"done", "failed"}, End(c, how),
           db' \in [Tables -> Values], UNCHANGED busy,
           \A d \in Clients \ {c} : \A t \in held[d]["tx"].rd \cup held[d]["tx"].wr : db'[t] = db[t]
    PROVE  LoopInv'
<1>1. /\ call' = [call EXCEPT ![c] = call'[c]] /\ call'[c] \in CallType
      /\ call'[c].op = call[c].op /\ call'[c].end = how /\ call'[c].torn = call[c].torn
      /\ call'[c].pos = Len(Body[call[c].op])
      /\ held' = [held EXCEPT ![c] = held'[c]] /\ held'[c] = Free
    BY EndFacts
<1>2. Len(Body[call[c].op]) \in Nat
    BY CallFacts, BodyFacts
<1>3. Exclusion'
    BY <1>1, FewerLocks, FreeFacts
<1>4. CallOK(call'[c], held'[c], db')
    BY <1>1, <1>2, CallFacts DEF CallOK, ListOK, PlainOK, Open
<1> QED
    BY <1>1, <1>3, <1>4, OneCall, FreeFacts DEF LoopInv

LEMMA FailKeeps ==
    ASSUME LoopInv, NEW c \in Clients, call[c] # NoCall, Fail(c)
    PROVE  LoopInv'
BY EndKeeps DEF Fail, LoopInv

LEMMA CallKeeps ==
    ASSUME LoopInv, NEW c \in Clients, Call(c)
    PROVE  LoopInv'
<1>1. PICK op \in MayCall[c] : call' = [call EXCEPT ![c] = Begin(op)]
    BY DEF Call
<1>2. op \in Ops /\ UNCHANGED <<db, held, busy>>
    BY LoopAssumption DEF Call
<1>3. call'[c] = Begin(op) /\ call' = [call EXCEPT ![c] = call'[c]]
    BY <1>1 DEF LoopInv
<1>4. /\ Begin(op) \in CallType /\ Begin(op).op = op /\ Begin(op).pos = 0 /\ Begin(op).torn = {}
      /\ \A t \in Tables : Begin(op).saw[t] = NoValue
    BY <1>2, LoopAssumption DEF Begin, CallType, NothingSeen
<1>5. Covered(Body[op], 0) = {} /\ Written(Body[op], 0) = {}
    BY CoveredNext
<1>6. 0 <= Len(Body[op])
    BY <1>2, BodyFacts
<1>7. CallOK(Begin(op), held[c], db)
    BY <1>4, <1>5, <1>6 DEF CallOK, ListOK, PlainOK
<1>8. held' = [held EXCEPT ![c] = held'[c]] /\ held'[c] \in Locks
    BY <1>2 DEF LoopInv, HeldOK, Locks
<1> QED
    BY <1>2, <1>3, <1>7, <1>8, OneCall DEF LoopInv, Exclusion

LEMMA ReturnKeeps ==
    ASSUME LoopInv, NEW c \in Clients, Return(c)
    PROVE  LoopInv'
<1>1. call'[c] = NoCall /\ call' = [call EXCEPT ![c] = call'[c]] /\ UNCHANGED <<db, held, busy>>
    BY DEF Return, LoopInv
<1>2. held' = [held EXCEPT ![c] = held'[c]] /\ held'[c] \in Locks
    BY <1>1 DEF LoopInv, HeldOK, Locks
<1> QED
    BY <1>1, <1>2, OneCall DEF LoopInv, Exclusion

-----------------------------------------------------------------------------
\* A statement in an inner transaction, after the list was read.
InInner(c) ==
    /\ call[c].op \in Nested /\ call[c].pos >= 1 /\ call[c].pos < Len(Body[call[c].op])

LEMMA RestartFacts ==
    ASSUME LoopInv, NEW c \in Clients, call[c] # NoCall, InInner(c)
    PROVE  /\ Restart(c, "inner") \in 1..call[c].pos
           /\ \A j \in (Restart(c, "inner") + 1)..call[c].pos : ~Body[call[c].op][j + 1].top
<1> DEFINE b == Body[call[c].op]
           n == call[c].pos
           First(i) == b[i + 1].top /\ \A j \in (i + 1)..n : ~b[j + 1].top
<1>1. n \in Nat /\ n >= 1 /\ n + 1 \in 2..Len(b)
    BY CallFacts, BodyFacts DEF InInner
<1>2. PICK j \in 2..(n + 1) : b[j].top /\ \A k \in (j + 1)..(n + 1) : ~b[k].top
    BY <1>1, NestedFacts DEF InInner
<1>3. ~b[1].top
    BY NestedFacts DEF InInner
<1> HIDE DEF b, n
<1>4. j - 1 \in 0..n /\ First(j - 1)
    BY <1>1, <1>2
<1>5. Restart(c, "inner") = CHOOSE i \in 0..n : First(i)
    BY DEF Restart, Statements, b, n
<1> HIDE DEF First
<1>6. Restart(c, "inner") \in 0..n /\ First(Restart(c, "inner"))
    BY <1>4, <1>5
<1>7. Restart(c, "inner") # 0
    BY <1>3, <1>6 DEF First
<1> QED
    BY <1>1, <1>6, <1>7 DEF First, b, n

LEMMA AgainFacts ==
    ASSUME LoopInv, NEW c \in Clients, call[c] # NoCall, NEW l \in Conns, Again(c, l),
           l = "inner" => InInner(c)
    PROVE  /\ call' = [call EXCEPT ![c] = call'[c]] /\ call'[c] \in CallType
           /\ call'[c].op = call[c].op /\ call'[c].end = call[c].end /\ call'[c].torn = call[c].torn
           /\ call'[c].pos = Restart(c, l)
           /\ \A t \in Tables : call'[c].saw[t] =
                 IF l = "inner" /\ t \in held[c]["tx"].rd THEN call[c].saw[t] ELSE NoValue
           /\ held' = [held EXCEPT ![c] = held'[c]]
           /\ held'[c] = IF l = "tx" THEN Free ELSE [held[c] EXCEPT !["inner"] = NoLocks]
<1>1. call[c] \in CallType /\ DOMAIN call = Clients /\ DOMAIN held = Clients
    BY CallFacts DEF LoopInv, HeldOK
<1>2. /\ call' = [call EXCEPT ![c] = call'[c]]
      /\ call'[c] = [call[c] EXCEPT !.pos = Restart(c, l), !.tries = OneMore(c, l), !.saw = SawBefore(c, l)]
      /\ held' = [held EXCEPT ![c] = held'[c]]
      /\ held'[c] = IF l = "tx" THEN Free ELSE [held[c] EXCEPT !["inner"] = NoLocks]
    BY <1>1 DEF Again
<1>3. OneMore(c, l) \in [Conns -> 1..(minTxRetries + 1)]
    BY <1>1, LoopAssumption DEF CallType, OneMore
<1>4. SawBefore(c, l) \in [Tables -> Values \cup {NoValue}]
    BY <1>1 DEF CallType, SawBefore
<1>5. Restart(c, l) \in Nat
    <2>1. CASE l = "tx"
        BY <2>1 DEF Restart
    <2>2. CASE l = "inner"
        BY <2>2, RestartFacts, CallFacts
    <2> QED
        BY <2>1, <2>2 DEF Conns
<1>6. /\ call'[c] \in CallType
      /\ call'[c].op = call[c].op /\ call'[c].end = call[c].end /\ call'[c].torn = call[c].torn
      /\ call'[c].pos = Restart(c, l) /\ call'[c].saw = SawBefore(c, l)
    BY <1>1, <1>2, <1>3, <1>4, <1>5 DEF CallType
<1> QED
    BY <1>2, <1>6 DEF SawBefore

LEMMA AgainKeeps ==
    ASSUME LoopInv, NEW c \in Clients, call[c] # NoCall, call[c].end = "no", NEW l \in Conns,
           Again(c, l), l = "inner" => InInner(c)
    PROVE  LoopInv'
<1>1. /\ call' = [call EXCEPT ![c] = call'[c]] /\ call'[c] \in CallType
      /\ call'[c].op = call[c].op /\ call'[c].end = call[c].end /\ call'[c].torn = call[c].torn
      /\ call'[c].pos = Restart(c, l)
      /\ \A t \in Tables : call'[c].saw[t] =
            IF l = "inner" /\ t \in held[c]["tx"].rd THEN call[c].saw[t] ELSE NoValue
      /\ held' = [held EXCEPT ![c] = held'[c]]
      /\ held'[c] = IF l = "tx" THEN Free ELSE [held[c] EXCEPT !["inner"] = NoLocks]
    BY AgainFacts
<1>2. UNCHANGED <<db, busy>>
    BY DEF Again
<1>3. /\ CallOK(call[c], held[c], db) /\ held[c] \in Locks /\ call[c].op \in Ops /\ call[c].pos \in Nat
      /\ call[c].pos <= Len(Body[call[c].op]) /\ Len(Body[call[c].op]) \in Nat
    BY CallFacts, BodyFacts
<1>4. /\ held'[c] \in Locks
      /\ \A k \in Conns : held'[c][k].rd \subseteq held[c][k].rd /\ held'[c][k].wr \subseteq held[c][k].wr
    <2>1. CASE l = "tx"
        BY <1>1, <2>1, FreeFacts
    <2>2. CASE l = "inner"
        BY <1>1, <1>3, <2>2 DEF Locks, NoLocks, Conns
    <2> QED
        BY <2>1, <2>2 DEF Conns
<1>5. Exclusion'
    BY <1>1, <1>4, FewerLocks
<1>6. CASE l = "tx"
    <2>1. call'[c].pos = 0 /\ \A t \in Tables : call'[c].saw[t] = NoValue
        BY <1>1, <1>6 DEF Restart
    <2>2. Covered(Body[call[c].op], 0) = {} /\ Written(Body[call[c].op], 0) = {}
        BY CoveredNext
    <2>3. CallOK(call'[c], held'[c], db')
        BY <1>1, <1>3, <2>1, <2>2 DEF CallOK, ListOK, PlainOK
    <2> QED
        BY <1>1, <1>2, <1>4, <1>5, <2>3, OneCall DEF LoopInv
<1>7. CASE l = "inner"
    <2>1. call[c].op \in Nested /\ call[c].pos # 0 /\ Restart(c, l) \in 1..call[c].pos
        BY <1>3, <1>7, RestartFacts DEF InInner
    <2>2. /\ call[c].torn \cap Body[call[c].op][1].reads = {}
          /\ \A t \in Body[call[c].op][1].reads : t \in held[c]["tx"].rd /\ call[c].saw[t] = db[t]
        BY <1>3, <2>1 DEF CallOK, ListOK
    <2>3. held'[c]["tx"] = held[c]["tx"]
        BY <1>1, <1>3, <1>7 DEF Locks, Conns
    <2>4. held[c]["tx"].rd \subseteq Tables
        BY <1>3 DEF Locks, Conns
    <2>5. ListOK(call'[c], held'[c], db')
        BY <1>1, <1>2, <1>7, <2>1, <2>2, <2>3, <2>4 DEF ListOK
    <2>6. CallOK(call'[c], held'[c], db')
        BY <1>1, <1>3, <2>1, <2>5 DEF CallOK
    <2> QED
        BY <1>1, <1>2, <1>4, <1>5, <2>6, OneCall DEF LoopInv
<1> QED
    BY <1>6, <1>7 DEF Conns

\* A loop fails or starts over.
LEMMA RetryCases ==
    ASSUME NEW c, NEW l, Retry(c, l)
    PROVE  Fail(c) \/ Again(c, l)
BY DEF Retry

LEMMA RunningFacts ==
    ASSUME LoopInv, NEW c \in Clients, Running(c)
    PROVE  /\ call[c] # NoCall /\ call[c].end = "no" /\ call[c].op \in Ops
           /\ call[c].pos \in Nat /\ call[c].pos + 1 \in 1..Len(Body[call[c].op])
           /\ Stmt(c) = Body[call[c].op][call[c].pos + 1] /\ Stmt(c) \in StmtType
           /\ Stmt(c).loop \in Conns
           /\ Stmt(c).loop = "inner" => InInner(c)
<1>1. call[c] # NoCall /\ call[c].end = "no" /\ call[c].pos < Len(Body[call[c].op])
    BY DEF Running, InCall, Statements
<1>2. call[c].op \in Ops /\ call[c].pos \in Nat /\ Len(Body[call[c].op]) \in Nat
    BY <1>1, CallFacts, BodyFacts
<1>3. call[c].pos + 1 \in 1..Len(Body[call[c].op])
    BY <1>1, <1>2
<1>4. Stmt(c) = Body[call[c].op][call[c].pos + 1] /\ Stmt(c) \in StmtType
    BY <1>2, <1>3, StmtFacts DEF Stmt, Statements
<1>5. ASSUME Stmt(c).loop = "inner" PROVE InInner(c)
    <2>1. call[c].op \in Nested
        BY <1>2, <1>3, <1>4, <1>5, PlainFacts
    <2>2. call[c].pos # 0
        BY <1>4, <1>5, <2>1, NestedFacts
    <2> QED
        BY <1>1, <1>2, <2>1, <2>2 DEF InInner
<1> QED
    BY <1>1, <1>2, <1>3, <1>4, <1>5 DEF StmtType

LEMMA RefusedKeeps ==
    ASSUME LoopInv, NEW c \in Clients, Refused(c)
    PROVE  LoopInv'
<1>1. Running(c) /\ (Fail(c) \/ Again(c, Stmt(c).loop))
    BY RetryCases DEF Refused
<1> QED
    BY <1>1, RunningFacts, FailKeeps, AgainKeeps

LEMMA TickKeeps ==
    ASSUME LoopInv, NEW c \in Clients, Tick(c)
    PROVE  LoopInv'
<1>1. PICK l \in Conns : call' = [call EXCEPT ![c].late[l] = TRUE]
    BY DEF Tick, Conns
<1>2. call[c] # NoCall /\ UNCHANGED <<db, held, busy>>
    BY DEF Tick, Running, Committing, InCall
<1>3. call[c] \in CallType /\ CallOK(call[c], held[c], db) /\ DOMAIN call = Clients /\ held[c] \in Locks
    BY <1>2, CallFacts
<1>4. /\ call' = [call EXCEPT ![c] = call'[c]]
      /\ call'[c] = [call[c] EXCEPT !.late = [call[c].late EXCEPT ![l] = TRUE]]
    BY <1>1, <1>3
<1>5. [call[c].late EXCEPT ![l] = TRUE] \in [Conns -> BOOLEAN]
    BY <1>3 DEF CallType
<1>6. /\ call'[c] \in CallType /\ call'[c].op = call[c].op /\ call'[c].end = call[c].end
      /\ call'[c].torn = call[c].torn /\ call'[c].pos = call[c].pos /\ call'[c].saw = call[c].saw
    BY <1>3, <1>4, <1>5 DEF CallType
<1>7. CallOK(call'[c], held[c], db)
    BY <1>3, <1>6 DEF CallOK, ListOK, PlainOK, Open
<1>8. held' = [held EXCEPT ![c] = held'[c]]
    BY <1>2 DEF LoopInv, HeldOK
<1> QED
    BY <1>2, <1>3, <1>4, <1>7, <1>8, OneCall DEF LoopInv, Exclusion

-----------------------------------------------------------------------------
LEMMA AnewType ==
    ASSUME NEW c, NEW S, NEW f \in [Conns -> S], NEW v \in S
    PROVE  Anew(c, f, v) \in [Conns -> S]
BY DEF Anew

LEMMA ExecCall ==
    ASSUME LoopInv, NEW c \in Clients, Exec(c)
    PROVE  /\ call' = [call EXCEPT ![c] = call'[c]] /\ call'[c] \in CallType
           /\ call'[c].op = call[c].op /\ call'[c].end = "no" /\ call'[c].pos = call[c].pos + 1
           /\ call'[c].saw = Sees(c) /\ call'[c].torn = call[c].torn \cup Tears(c)
           /\ Sees(c) \in [Tables -> Values \cup {NoValue}]
<1>1. /\ call[c] \in CallType /\ DOMAIN call = Clients /\ db \in [Tables -> Values]
      /\ call[c].end = "no"
    BY CallFacts, RunningFacts DEF Exec, LoopInv
<1>2. Stmt(c) \in StmtType
    BY RunningFacts DEF Exec
<1>3. Sees(c) \in [Tables -> Values \cup {NoValue}]
    BY <1>1 DEF Sees, CallType
<1>4. Tears(c) \subseteq Tables
    BY <1>2 DEF Tears, Touched, StmtType
<1>5. call[c].tries \in [Conns -> 1..(minTxRetries + 1)] /\ call[c].late \in [Conns -> BOOLEAN]
    BY <1>1 DEF CallType
<1>6. /\ Anew(c, call[c].tries, 1) \in [Conns -> 1..(minTxRetries + 1)]
      /\ Anew(c, call[c].late, FALSE) \in [Conns -> BOOLEAN]
    <2>1. 1 \in 1..(minTxRetries + 1)
        BY LoopAssumption
    <2>2. Anew(c, call[c].tries, 1) \in [Conns -> 1..(minTxRetries + 1)]
        BY <1>5, <2>1, AnewType
    <2>3. Anew(c, call[c].late, FALSE) \in [Conns -> BOOLEAN]
        BY <1>5 DEF Anew
    <2> QED
        BY <2>2, <2>3
<1>7. /\ call' = [call EXCEPT ![c] = call'[c]]
      /\ call'[c] = [call[c] EXCEPT !.pos = call[c].pos + 1, !.saw = Sees(c),
                        !.torn = call[c].torn \cup Tears(c),
                        !.tries = Anew(c, call[c].tries, 1), !.late = Anew(c, call[c].late, FALSE)]
    <2>1. call' = [call EXCEPT ![c] = [call[c] EXCEPT !.pos = call[c].pos + 1, !.saw = Sees(c),
                        !.torn = call[c].torn \cup Tears(c),
                        !.tries = Anew(c, call[c].tries, 1), !.late = Anew(c, call[c].late, FALSE)]]
        BY DEF Exec
    <2> QED
        BY <1>1, <2>1
<1>8. /\ call'[c].op = call[c].op /\ call'[c].end = "no" /\ call'[c].pos = call[c].pos + 1
      /\ call'[c].saw = Sees(c) /\ call'[c].torn = call[c].torn \cup Tears(c)
    BY <1>1, <1>7 DEF CallType
<1>9. call'[c] \in CallType
    <2>1. /\ call[c].torn \cup Tears(c) \in SUBSET Tables /\ call[c].pos + 1 \in Nat
          /\ call[c].op \in Ops
        BY <1>1, <1>4 DEF CallType
    <2>2. call'[c] = [op |-> call[c].op, pos |-> call[c].pos + 1, end |-> "no",
                      tries |-> Anew(c, call[c].tries, 1), late |-> Anew(c, call[c].late, FALSE),
                      saw |-> Sees(c), torn |-> call[c].torn \cup Tears(c)]
        BY <1>1, <1>7 DEF CallType
    <2> DEFINE p == call[c].pos + 1
               torn == call[c].torn \cup Tears(c)
               tries == Anew(c, call[c].tries, 1)
               late == Anew(c, call[c].late, FALSE)
               op == call[c].op
               saw == Sees(c)
    <2>3. /\ p \in Nat /\ torn \in SUBSET Tables /\ op \in Ops
          /\ tries \in [Conns -> 1..(minTxRetries + 1)] /\ late \in [Conns -> BOOLEAN]
          /\ saw \in [Tables -> Values \cup {NoValue}]
        BY <1>3, <1>6, <2>1
    <2>4. call'[c] = [op |-> op, pos |-> p, end |-> "no", tries |-> tries, late |-> late,
                      saw |-> saw, torn |-> torn]
        BY <2>2
    <2> HIDE DEF p, torn, tries, late, op, saw
    <2> QED
        BY <2>3, <2>4 DEF CallType
<1> QED
    BY <1>3, <1>7, <1>8, <1>9

\* A statement locks its tables on its own connection; those of the pool have nothing locked.
LEMMA ExecLocks ==
    ASSUME LoopInv, NEW c \in Clients, Exec(c)
    PROVE  /\ held' = [held EXCEPT ![c] = held'[c]] /\ held'[c] \in Locks
           /\ \A k \in Conns :
                 /\ held'[c][k].rd \subseteq held[c][k].rd \cup (IF k = Stmt(c).conn THEN Stmt(c).reads ELSE {})
                 /\ held'[c][k].wr \subseteq held[c][k].wr \cup (IF k = Stmt(c).conn THEN Stmt(c).writes ELSE {})
           /\ held[c]["tx"].rd \subseteq held'[c]["tx"].rd /\ held[c]["tx"].wr \subseteq held'[c]["tx"].wr
           /\ Stmt(c).conn = "tx" =>
                 Stmt(c).reads \subseteq held'[c]["tx"].rd /\ Stmt(c).writes \subseteq held'[c]["tx"].wr
<1>1. /\ Stmt(c) \in StmtType /\ held[c] \in Locks
      /\ DOMAIN held = Clients /\ held = [held EXCEPT ![c] = held[c]]
    BY RunningFacts, CallFacts DEF Exec, LoopInv, HeldOK
<1>2. CASE Stmt(c).conn = "pool"
    <2>1. held' = held
        BY <1>2 DEF Exec
    <2> QED
        BY <1>1, <1>2, <2>1 DEF Conns
<1>3. CASE Stmt(c).conn # "pool"
    <2>1. Stmt(c).conn \in Conns /\ Stmt(c).reads \subseteq Tables /\ Stmt(c).writes \subseteq Tables
        BY <1>1, <1>3 DEF StmtType
    <2>2. /\ held' = [held EXCEPT ![c] = held'[c]]
          /\ held'[c] = Anew(c, Locked(c, Stmt(c)), NoLocks)
        BY <1>1, <1>3 DEF Exec
    <2>3. /\ Locked(c, Stmt(c)) \in Locks
          /\ \A k \in Conns : Locked(c, Stmt(c))[k] =
                IF k = Stmt(c).conn
                THEN [rd |-> held[c][k].rd \cup Stmt(c).reads, wr |-> held[c][k].wr \cup Stmt(c).writes]
                ELSE held[c][k]
        BY <1>1, <2>1 DEF Locked, Locks
    <2> DEFINE L == Locked(c, Stmt(c))
    <2> HIDE DEF L
    <2>4. NoLocks \in [rd : SUBSET Tables, wr : SUBSET Tables] /\ NoLocks.rd = {} /\ NoLocks.wr = {}
        BY DEF NoLocks
    <2>5. /\ held'[c] \in Locks /\ held'[c]["tx"] = L["tx"]
          /\ held'[c]["inner"] \in {L["inner"], NoLocks}
        BY <2>2, <2>3, <2>4, AnewType DEF Anew, Locks, Conns, L
    <2>6. \A k \in Conns :
             /\ L[k].rd = held[c][k].rd \cup (IF k = Stmt(c).conn THEN Stmt(c).reads ELSE {})
             /\ L[k].wr = held[c][k].wr \cup (IF k = Stmt(c).conn THEN Stmt(c).writes ELSE {})
        <3> TAKE k \in Conns
        <3>1. CASE k = Stmt(c).conn
            <4>1. L[k] = [rd |-> held[c][k].rd \cup Stmt(c).reads, wr |-> held[c][k].wr \cup Stmt(c).writes]
                BY <2>3, <3>1 DEF L
            <4> QED
                BY <3>1, <4>1
        <3>2. CASE k # Stmt(c).conn
            BY <2>3, <3>2 DEF L
        <3> QED
            BY <3>1, <3>2
    <2>7. \A k \in Conns : held'[c][k] \in {L[k], NoLocks}
        BY <2>5 DEF Conns
    <2>8. \A k \in Conns : held'[c][k].rd \subseteq L[k].rd /\ held'[c][k].wr \subseteq L[k].wr
        BY <2>4, <2>7
    <2>9. "tx" \in Conns
        BY DEF Conns
    <2> QED
        BY <2>2, <2>5, <2>6, <2>8, <2>9
<1> QED
    BY <1>2, <1>3

LEMMA ExecExcludes ==
    ASSUME LoopInv, NEW c \in Clients, Exec(c)
    PROVE  Exclusion'
<1> DEFINE s == Stmt(c)
<1>1. /\ \A d \in Clients \ {c} : held'[d] = held[d]
      /\ \A k \in Conns :
            /\ held'[c][k].rd \subseteq held[c][k].rd \cup (IF k = s.conn THEN s.reads ELSE {})
            /\ held'[c][k].wr \subseteq held[c][k].wr \cup (IF k = s.conn THEN s.writes ELSE {})
    BY ExecLocks DEF LoopInv, HeldOK
<1>2. \A d \in Clients, k \in Conns : <<d, k>> # <<c, s.conn>> =>
         held[d][k].wr \cap (s.reads \cup s.writes) = {} /\ held[d][k].rd \cap s.writes = {}
    BY DEF Exec, Conflict, Touched
<1> HIDE DEF s
<1>3. \A d \in Clients, k \in Conns :
         IF <<d, k>> = <<c, s.conn>>
         THEN /\ held'[d][k].rd \subseteq held[d][k].rd \cup s.reads
              /\ held'[d][k].wr \subseteq held[d][k].wr \cup s.writes
         ELSE held'[d][k].rd \subseteq held[d][k].rd /\ held'[d][k].wr \subseteq held[d][k].wr
    BY <1>1
<1> SUFFICES ASSUME NEW d \in Clients, NEW e \in Clients, NEW k \in Conns, NEW l \in Conns,
                    <<d, k>> # <<e, l>>
             PROVE  held'[d][k].wr \cap (held'[e][l].rd \cup held'[e][l].wr) = {}
    BY DEF Exclusion
<1>4. held[d][k].wr \cap (held[e][l].rd \cup held[e][l].wr) = {}
    BY DEF LoopInv, Exclusion
<1>5. CASE <<d, k>> = <<c, s.conn>>
    <2>1. /\ held'[d][k].wr \subseteq held[d][k].wr \cup s.writes
          /\ held'[e][l].rd \subseteq held[e][l].rd /\ held'[e][l].wr \subseteq held[e][l].wr
          /\ held[e][l].wr \cap s.writes = {} /\ held[e][l].rd \cap s.writes = {}
        BY <1>2, <1>3, <1>5
    <2> QED
        BY <1>4, <2>1
<1>6. CASE <<e, l>> = <<c, s.conn>>
    <2>1. /\ held'[e][l].rd \subseteq held[e][l].rd \cup s.reads
          /\ held'[e][l].wr \subseteq held[e][l].wr \cup s.writes
          /\ held'[d][k].wr \subseteq held[d][k].wr
          /\ held[d][k].wr \cap (s.reads \cup s.writes) = {}
        BY <1>2, <1>3, <1>6
    <2> QED
        BY <1>4, <2>1
<1>7. CASE <<d, k>> # <<c, s.conn>> /\ <<e, l>> # <<c, s.conn>>
    BY <1>3, <1>4, <1>7
<1> QED
    BY <1>5, <1>6, <1>7

\* Nobody has locked what a statement changes at once.
LEMMA ExecTables ==
    ASSUME LoopInv, NEW c \in Clients, Exec(c)
    PROVE  /\ db' \in [Tables -> Values]
           /\ \A t \in Tables : db'[t] # db[t] => Stmt(c).conn = "pool" /\ t \in Stmt(c).writes
           /\ \A d \in Clients : \A t \in held[d]["tx"].rd \cup held[d]["tx"].wr : db'[t] = db[t]
<1>1. Sees(c) \in [Tables -> Values \cup {NoValue}] /\ db \in [Tables -> Values] /\ call[c].op \in Ops
    BY ExecCall, RunningFacts DEF Exec, LoopInv
<1>2. Stmt(c) \in StmtType
    BY RunningFacts DEF Exec
<1>3. CASE Stmt(c).conn # "pool"
    BY <1>1, <1>3 DEF Exec
<1>4. CASE Stmt(c).conn = "pool"
    <2>1. db' = [t \in Tables |-> IF t \in Stmt(c).writes
                                  THEN Outcome(call[c].op, t, Sees(c)) ELSE db[t]]
        BY <1>4 DEF Exec
    <2>2. db' \in [Tables -> Values]
        BY <1>1, <2>1, OutcomeAssumption
    <2>3. ASSUME NEW d \in Clients, NEW t \in held[d]["tx"].rd \cup held[d]["tx"].wr
          PROVE  t \in Tables /\ t \notin Stmt(c).writes
        <3>1. "tx" \in Conns /\ "tx" # Stmt(c).conn
            BY <1>4 DEF Conns
        <3>2. held[d]["tx"].wr \cap Stmt(c).writes = {} /\ held[d]["tx"].rd \cap Stmt(c).writes = {}
            BY <3>1 DEF Exec, Conflict, Touched
        <3>3. held[d]["tx"].rd \subseteq Tables /\ held[d]["tx"].wr \subseteq Tables
            BY <3>1 DEF LoopInv, HeldOK
        <3> QED
            BY <3>2, <3>3
    <2> QED
        BY <1>1, <1>4, <2>1, <2>2, <2>3
<1> QED
    BY <1>3, <1>4

LEMMA ExecKeeps ==
    ASSUME LoopInv, NEW c \in Clients, Exec(c)
    PROVE  LoopInv'
<1> DEFINE op == call[c].op
           n == call[c].pos
           s == Stmt(c)
<1>1. /\ call' = [call EXCEPT ![c] = call'[c]] /\ call'[c] \in CallType
      /\ call'[c].op = op /\ call'[c].end = "no" /\ call'[c].pos = n + 1
      /\ call'[c].saw = Sees(c) /\ call'[c].torn = call[c].torn \cup Tears(c)
    BY ExecCall
<1>2. /\ call[c] # NoCall /\ call[c].end = "no" /\ op \in Ops /\ n \in Nat /\ n + 1 \in 1..Len(Body[op])
      /\ s = Body[op][n + 1] /\ s \in StmtType
    BY RunningFacts DEF Exec
<1>3. CallOK(call[c], held[c], db) /\ Len(Body[op]) \in Nat /\ db \in [Tables -> Values]
    BY <1>2, CallFacts, BodyFacts DEF LoopInv
<1>4. /\ db' \in [Tables -> Values]
      /\ \A t \in Tables : db'[t] # db[t] => s.conn = "pool" /\ t \in s.writes
      /\ \A d \in Clients : \A t \in held[d]["tx"].rd \cup held[d]["tx"].wr : db'[t] = db[t]
    BY ExecTables
<1>5. /\ held[c]["tx"].rd \subseteq held'[c]["tx"].rd /\ held[c]["tx"].wr \subseteq held'[c]["tx"].wr
      /\ s.conn = "tx" => s.reads \subseteq held'[c]["tx"].rd /\ s.writes \subseteq held'[c]["tx"].wr
    BY ExecLocks
<1>6. s.reads \subseteq Tables /\ s.writes \subseteq Tables /\ Touched(s) = s.reads \cup s.writes
    BY <1>2 DEF StmtType, Touched
<1>7. /\ \A t \in Tables : Sees(c)[t] = IF t \in Touched(s) /\ call[c].saw[t] = NoValue
                                        THEN db[t] ELSE call[c].saw[t]
      /\ Tears(c) = {t \in Touched(s) : call[c].saw[t] \notin {NoValue, db[t]}}
    BY DEF Sees, Tears
<1> HIDE DEF s
<1>8. ASSUME op \notin Nested PROVE PlainOK(call'[c], held'[c], db')
    <2>1. PlainOK(call[c], held[c], db) /\ Open(call[c])
        BY <1>2, <1>3, <1>8 DEF CallOK, Open
    <2>2. \A t \in Tables : call[c].saw[t] = IF t \in Covered(Body[op], n) THEN db[t] ELSE NoValue
        BY <2>1 DEF PlainOK
    <2>3. call[c].torn \cup Tears(c) = {}
        BY <1>6, <1>7, <2>1, <2>2 DEF PlainOK
    <2>4. ASSUME Open(call'[c]) PROVE s.conn = "tx" /\ \A t \in Tables : db'[t] = db[t]
        <3>1. s.conn # "pool"
            BY <1>1, <1>2, <1>3, <1>8, <2>4, PlainFacts DEF Open
        <3> QED
            BY <1>2, <1>4, <1>8, <3>1, PlainFacts
    <2>5. /\ Covered(Body[op], n + 1) = Covered(Body[op], n) \cup Touched(s)
          /\ Written(Body[op], n + 1) = Written(Body[op], n) \cup s.writes
        BY <1>2, CoveredNext
    <2>6. /\ Covered(Body[op], n) \subseteq held[c]["tx"].rd \cup held[c]["tx"].wr
          /\ Written(Body[op], n) \subseteq held[c]["tx"].wr
        BY <2>1 DEF PlainOK
    <2>7. \A t \in Tables : Sees(c)[t] = IF t \in Covered(Body[op], n + 1) THEN db[t] ELSE NoValue
        BY <1>7, <2>2, <2>5
    <2> QED
        BY <1>1, <1>5, <1>6, <2>3, <2>4, <2>5, <2>6, <2>7 DEF PlainOK
<1>9. ASSUME op \in Nested PROVE ListOK(call'[c], held'[c], db')
    <2>1. ListOK(call[c], held[c], db)
        BY <1>3, <1>9 DEF CallOK
    <2>2. \A t \in Tables : db'[t] = db[t]
        BY <1>2, <1>4, <1>9, NestedFacts
    <2>3. Body[op][1] \in StmtType /\ Body[op][1].reads \subseteq Tables
        BY <1>2, <1>3, StmtFacts DEF StmtType
    <2>4. CASE n = 0
        <3>1. s = Body[op][1] /\ s.conn = "tx"
            BY <1>2, <1>9, <2>4, NestedFacts
        <3>2. \A t \in Tables : call[c].saw[t] = NoValue
            BY <1>2, <2>1, <2>4 DEF ListOK
        <3>3. Tears(c) = {}
            BY <1>6, <1>7, <3>2
        <3> QED
            BY <1>1, <1>2, <1>5, <1>6, <1>7, <2>1, <2>2, <3>1, <3>2, <3>3 DEF ListOK
    <2>5. CASE n # 0
        <3>1. \A t \in Body[op][1].reads : t \in held[c]["tx"].rd /\ call[c].saw[t] = db[t]
            BY <1>2, <2>1, <2>5 DEF ListOK
        <3>2. Tears(c) \cap Body[op][1].reads = {}
            BY <1>7, <3>1
        <3>3. \A t \in Body[op][1].reads : Sees(c)[t] = db[t]
            BY <1>7, <2>3, <3>1
        <3> QED
            BY <1>1, <1>2, <1>5, <2>1, <2>2, <2>3, <3>1, <3>2, <3>3 DEF ListOK
    <2> QED
        BY <2>4, <2>5
<1>10. CallOK(call'[c], held'[c], db')
    BY <1>1, <1>2, <1>3, <1>8, <1>9 DEF CallOK
<1> QED
    BY <1>1, <1>4, <1>10, ExecLocks, ExecExcludes, OneCall DEF Exec, LoopInv

\* A commit changes tables that its own transaction has locked for writing.
LEMMA CommitTables ==
    ASSUME LoopInv, NEW c \in Clients, Committing(c), NEW t \in TxWrites[call[c].op]
    PROVE  t \in Tables /\ t \in held[c]["tx"].wr
<1> DEFINE op == call[c].op
<1>1. /\ call[c] # NoCall /\ call[c].end = "no" /\ call[c].pos = Len(Body[op])
    BY DEF Committing, InCall, Statements
<1>2. op \in Ops /\ CallOK(call[c], held[c], db) /\ held[c] \in Locks
    BY <1>1, CallFacts
<1>3. op \notin Nested
    BY NestedFacts
<1>4. Open(call[c]) /\ PlainOK(call[c], held[c], db)
    BY <1>1, <1>2, <1>3 DEF CallOK, Open
<1>5. Written(Body[op], Len(Body[op])) \subseteq held[c]["tx"].wr
    BY <1>1, <1>4 DEF PlainOK
<1>6. t \in Written(Body[op], Len(Body[op]))
    BY <1>2, <1>3, PlainFacts
<1> QED
    BY <1>2, <1>5, <1>6 DEF Locks, Conns

LEMMA CommitKeeps ==
    ASSUME LoopInv, NEW c \in Clients, Commit(c)
    PROVE  LoopInv'
<1>1. /\ Committing(c) /\ call[c] # NoCall /\ End(c, "done") /\ UNCHANGED busy
      /\ db' = [t \in Tables |-> IF t \in TxWrites[call[c].op]
                                 THEN Outcome(call[c].op, t, call[c].saw) ELSE db[t]]
    BY DEF Commit, Committing, InCall
<1>2. call[c].op \in Ops /\ call[c].saw \in [Tables -> Values \cup {NoValue}] /\ db \in [Tables -> Values]
    BY <1>1, CallFacts DEF LoopInv
<1>3. db' \in [Tables -> Values]
    BY <1>1, <1>2, OutcomeAssumption
<1>4. ASSUME NEW d \in Clients \ {c}, NEW t \in held[d]["tx"].rd \cup held[d]["tx"].wr
      PROVE  db'[t] = db[t]
    <2>1. "tx" \in Conns
        BY DEF Conns
    <2>2. t \in Tables /\ t \notin held[c]["tx"].wr
        BY <2>1 DEF LoopInv, HeldOK, Exclusion
    <2>3. t \notin TxWrites[call[c].op]
        BY <1>1, <2>2, CommitTables
    <2> QED
        BY <1>1, <2>2, <2>3
<1> QED
    BY <1>1, <1>3, <1>4, EndKeeps

LEMMA CommitRefusedKeeps ==
    ASSUME LoopInv, NEW c \in Clients, CommitRefused(c)
    PROVE  LoopInv'
<1>1. call[c] # NoCall /\ call[c].end = "no"
    BY DEF CommitRefused, Committing, InCall
<1>2. CASE call[c].op \in Unchecked
    BY <1>1, <1>2, EndKeeps DEF CommitRefused, LoopInv
<1>3. CASE call[c].op \notin Unchecked
    <2>1. Fail(c) \/ Again(c, "tx")
        BY <1>3, RetryCases DEF CommitRefused
    <2> QED
        BY <1>1, <2>1, FailKeeps, AgainKeeps DEF Conns
<1> QED
    BY <1>2, <1>3

LEMMA ErrorKeeps ==
    ASSUME LoopInv, NEW c \in Clients, Error(c)
    PROVE  LoopInv'
BY FailKeeps DEF Error, Running, Committing, InCall

\* The callback's own error ends the call or starts it over, and only a listing has callbacks.
LEMMA CallbackCases ==
    ASSUME LoopInv, NEW c \in Clients, CallbackError(c)
    PROVE  /\ call[c] # NoCall /\ call[c].end = "no" /\ call[c].op \in Nested
           /\ Fail(c) \/ Again(c, "tx")
<1>1. call[c] # NoCall /\ call[c].end = "no" /\ (Fail(c) \/ Again(c, "tx"))
    BY RetryCases DEF CallbackError, InCall
<1>2. call[c].op \in Ops /\ call[c].pos \in Nat /\ call[c].pos <= Len(Body[call[c].op])
    BY <1>1, CallFacts
<1>3. call[c].pos \in 1..Len(Body[call[c].op]) /\ Body[call[c].op][call[c].pos].loop = "inner"
    BY <1>2, BodyFacts DEF CallbackError, Handed, Statements
<1>4. call[c].op \in Nested
    BY <1>2, <1>3, PlainFacts
<1> QED
    BY <1>1, <1>4

LEMMA CallbackKeeps ==
    ASSUME LoopInv, NEW c \in Clients, CallbackError(c)
    PROVE  LoopInv'
BY CallbackCases, FailKeeps, AgainKeeps DEF Conns

LEMMA InitInv == Init => LoopInv
<1> SUFFICES ASSUME Init PROVE LoopInv
    OBVIOUS
<1>1. HeldOK /\ Exclusion
    BY FreeFacts DEF Init, HeldOK, Exclusion, Locks
<1> QED
    BY <1>1 DEF Init, LoopInv

LEMMA NextInv == LoopInv /\ [Next]_vars => LoopInv'
<1> SUFFICES ASSUME LoopInv, [Next]_vars PROVE LoopInv'
    OBVIOUS
<1>1. CASE UNCHANGED vars
    BY <1>1 DEF vars, LoopInv, HeldOK, Exclusion
<1>2. CASE OtherProcess
    BY <1>2 DEF OtherProcess, LoopInv, HeldOK, Exclusion
<1>3. ASSUME NEW c \in Clients, Call(c) \/ Exec(c) \/ Refused(c) \/ Commit(c) PROVE LoopInv'
    BY <1>3, CallKeeps, ExecKeeps, RefusedKeeps, CommitKeeps
<1>4. ASSUME NEW c \in Clients, CommitRefused(c) \/ Return(c) \/ Error(c) \/ Tick(c) PROVE LoopInv'
    BY <1>4, CommitRefusedKeeps, ReturnKeeps, ErrorKeeps, TickKeeps
<1>5. ASSUME NEW c \in Clients, CallbackError(c) PROVE LoopInv'
    BY <1>5, CallbackKeeps
<1> QED
    BY <1>1, <1>2, <1>3, <1>4, <1>5 DEF Next, Step

LEMMA AlwaysInv == Spec => []LoopInv
BY InitInv, NextInv, PTL DEF Spec

\* Calls, locks and tables keep their types, and the loops of txLoop count within their limits.
THEOREM TxTypesHold == Spec => []TypeOK
BY AlwaysInv, InvType, PTL

\* No operation outside of a nested listing sees two states of a table, and a listing's
\* transactions see the list of discussions as it was read.
THEOREM NoTornReadHolds == Spec => []NoTornRead
BY AlwaysInv, InvNotTorn, PTL

-----------------------------------------------------------------------------
\* No callback twice.

HandedOf(b, n) == {i \in 1..n : b[i].loop = "inner" /\ (i = Len(b) \/ b[i + 1].top)}

\* The own steps of a call: it goes on, ends, or a loop starts over.
LEMMA OwnStep ==
    ASSUME LoopInv, NEW c \in Clients, call[c] # NoCall, call'[c] # NoCall,
           Step(c) \/ Error(c) \/ Tick(c)
    PROVE  /\ call'[c].op = call[c].op
           /\ \/ call'[c].pos >= call[c].pos
              \/ call[c].op \notin Nested \/ call[c].pos = 0
              \/ InInner(c) /\ call'[c].pos = Restart(c, "inner")
<1>1. call[c].op \in Ops /\ call[c].pos \in Nat /\ call[c].pos <= Len(Body[call[c].op]) /\ DOMAIN call = Clients
    BY CallFacts
<1>2. ASSUME NEW how \in {"done", "failed"}, End(c, how)
      PROVE  call'[c].op = call[c].op /\ call'[c].pos >= call[c].pos
    BY <1>1, <1>2, EndFacts, BodyFacts
<1>3. CASE Exec(c)
    BY <1>1, <1>3, ExecCall
<1>4. CASE Refused(c)
    <2>1. Running(c) /\ (Fail(c) \/ Again(c, Stmt(c).loop))
        BY <1>4, RetryCases DEF Refused
    <2>2. CASE Fail(c)
        BY <1>2, <2>2 DEF Fail
    <2>3. CASE Again(c, Stmt(c).loop)
        <3>1. Stmt(c).loop \in Conns /\ (Stmt(c).loop = "inner" => InInner(c))
            BY <2>1, RunningFacts
        <3>2. call'[c].op = call[c].op /\ call'[c].pos = Restart(c, Stmt(c).loop)
            BY <2>3, <3>1, AgainFacts
        <3>3. CASE Stmt(c).loop = "inner"
            BY <3>1, <3>2, <3>3
        <3>4. CASE Stmt(c).loop = "tx"
            <4>1. call[c].pos + 1 \in 1..Len(Body[call[c].op]) /\ Stmt(c) = Body[call[c].op][call[c].pos + 1]
                BY <2>1, RunningFacts
            <4>2. call[c].op \in Nested => call[c].pos + 1 \notin 2..Len(Body[call[c].op])
                BY <3>4, <4>1, NestedFacts
            <4>3. call[c].op \in Nested => call[c].pos = 0
                BY <1>1, <4>1, <4>2
            <4> QED
                BY <3>2, <4>3
        <3> QED
            BY <3>1, <3>3, <3>4 DEF Conns
    <2> QED
        BY <2>1, <2>2, <2>3
<1>5. CASE Commit(c)
    BY <1>2, <1>5 DEF Commit
<1>6. CASE CommitRefused(c)
    <2>1. call[c].op \notin Nested
        BY <1>6, NestedFacts DEF CommitRefused
    <2>2. End(c, "done") \/ Fail(c) \/ Again(c, "tx")
        BY <1>6, RetryCases DEF CommitRefused
    <2>3. CASE Again(c, "tx")
        BY <2>1, <2>3, AgainFacts DEF Conns
    <2> QED
        BY <1>2, <2>2, <2>3 DEF Fail
<1>7. CASE Return(c)
    BY <1>1, <1>7 DEF Return
<1>8. CASE Error(c)
    BY <1>2, <1>8 DEF Error, Fail
<1>9. CASE Tick(c)
    <2>1. PICK l \in Conns : call' = [call EXCEPT ![c].late[l] = TRUE]
        BY <1>9 DEF Tick, Conns
    <2>2. call'[c] = [call[c] EXCEPT !.late = [call[c].late EXCEPT ![l] = TRUE]] /\ call[c] \in CallType
        BY <1>1, <2>1, CallFacts
    <2>3. call'[c].op = call[c].op /\ call'[c].pos = call[c].pos
        BY <2>2 DEF CallType
    <2> QED
        BY <1>1, <2>3
<1> QED
    BY <1>3, <1>4, <1>5, <1>6, <1>7, <1>8, <1>9 DEF Step

LEMMA OthersCalls ==
    ASSUME LoopInv, [Next]_vars, NEW c \in Clients,
           ~(Call(c) \/ Step(c) \/ CallbackError(c) \/ Error(c) \/ Tick(c))
    PROVE  call'[c] = call[c]
<1>1. DOMAIN call = Clients
    BY DEF LoopInv
<1>2. ASSUME NEW d \in Clients, Call(d) \/ Step(d) \/ CallbackError(d) \/ Error(d) \/ Tick(d)
      PROVE  d # c
    BY <1>2
<1>3. ASSUME NEW d \in Clients, d # c, Call(d) \/ Step(d) \/ CallbackError(d) \/ Error(d) \/ Tick(d)
      PROVE  call'[c] = call[c]
    <2>1. ASSUME NEW how, End(d, how) PROVE call'[c] = call[c]
        BY <1>1, <1>3, <2>1 DEF End
    <2>2. ASSUME NEW l, Retry(d, l) PROVE call'[c] = call[c]
        <3>1. Fail(d) \/ Again(d, l)
            BY <2>2, RetryCases
        <3> QED
            BY <1>1, <1>3, <2>1, <3>1 DEF Fail, Again
    <2> QED
        BY <1>1, <1>3, <2>1, <2>2
           DEF Call, Step, CallbackError, Error, Tick, Exec, Refused, Commit, CommitRefused, Return, Fail
<1> QED
    BY <1>2, <1>3 DEF Next, vars, OtherProcess

LEMMA HandedGrows ==
    ASSUME LoopInv, [Next]_vars, NEW c \in Clients, InCall(c), InCall(c)', ~CallbackError(c)
    PROVE  Handed(c) \subseteq Handed(c)'
<1> DEFINE b == Body[call[c].op]
           n == call[c].pos
<1>1. call[c] # NoCall /\ call'[c] # NoCall
    BY DEF InCall
<1>2. Handed(c) = HandedOf(b, n) /\ Handed(c)' = HandedOf(Body[call'[c].op], call'[c].pos)
    BY DEF Handed, HandedOf, Statements
<1>3. call[c].op \in Ops /\ n \in Nat /\ n <= Len(b) /\ Len(b) \in Nat
    BY <1>1, CallFacts, BodyFacts
<1>4. LoopInv'
    BY NextInv
<1>5. call'[c].pos \in Nat
    BY <1>1, <1>4 DEF LoopInv, CallOK, CallType
<1>6. CASE call'[c] = call[c]
    BY <1>2, <1>6
<1>7. CASE Step(c) \/ Error(c) \/ Tick(c)
    <2>1. /\ call'[c].op = call[c].op
          /\ \/ call'[c].pos >= n
             \/ call[c].op \notin Nested \/ n = 0
             \/ InInner(c) /\ call'[c].pos = Restart(c, "inner")
        BY <1>1, <1>7, OwnStep
    <2>2. CASE call'[c].pos >= n
        BY <1>2, <1>3, <1>5, <2>1, <2>2 DEF HandedOf
    <2>3. CASE call[c].op \notin Nested
        <3>1. HandedOf(b, n) = {}
            BY <1>3, <2>3, PlainFacts DEF HandedOf
        <3> QED
            BY <1>2, <3>1
    <2>4. CASE n = 0
        BY <1>2, <2>4 DEF HandedOf
    <2>5. CASE InInner(c) /\ call'[c].pos = Restart(c, "inner")
        <3>1. /\ call'[c].pos \in 1..n /\ n < Len(b)
              /\ \A j \in (call'[c].pos + 1)..n : ~b[j + 1].top
            BY <1>1, <2>5, RestartFacts DEF InInner
        <3>2. ASSUME NEW i \in HandedOf(b, n) PROVE i \in 1..call'[c].pos
            <4>1. i \in 1..n /\ b[i + 1].top
                BY <1>3, <3>1 DEF HandedOf
            <4> QED
                BY <1>3, <1>5, <3>1, <4>1
        <3> QED
            BY <1>2, <2>1, <3>2 DEF HandedOf
    <2> QED
        BY <2>1, <2>2, <2>3, <2>4, <2>5
<1>8. ~Call(c)
    BY <1>1 DEF Call
<1> QED
    BY <1>6, <1>7, <1>8, OthersCalls

\* Nothing but the callback's own BUSY or LOCKED makes the loop around a listing start over once
\* a discussion was handed to the callback (discussionIterateQuery), whatever is busy or locked
\* and however long it takes.
THEOREM CallbackOnceHolds == Spec => CallbackOnce
<1>1. LoopInv /\ [Next]_vars =>
         [\A c \in Clients : InCall(c) /\ InCall(c)' =>
             Handed(c) \subseteq Handed(c)' \/ CallbackError(c)]_vars
    BY HandedGrows
<1> QED
    BY <1>1, AlwaysInv, PTL DEF Spec, CallbackOnce

-----------------------------------------------------------------------------
\* The refinement. What a caller sees of a call depends on the call alone.

StatusOf(cl) ==
    IF cl.end = "no" /\ cl.pos = Len(Body[cl.op]) /\ TxWrites[cl.op] = {} THEN "done"
    ELSE IF cl.end = "no" THEN "called" ELSE cl.end

PendOf(cl) ==
    IF cl = NoCall THEN NoCall
    ELSE IF cl.op \in Nested THEN NoCall
    ELSE [op |-> cl.op, status |-> StatusOf(cl),
          saw |-> IF StatusOf(cl) = "done" THEN cl.saw ELSE NothingSeen]

LEMMA PendingIs ==
    /\ Pending = [c \in Clients |-> PendOf(call[c])]
    /\ Pending' = [c \in Clients |-> PendOf(call'[c])]
<1>1. \A c \in Clients : call[c] # NoCall => Status(c) = StatusOf(call[c])
    BY DEF Status, StatusOf, Committing, InCall, Statements
<1>2. \A c \in Clients : call'[c] # NoCall => Status(c)' = StatusOf(call'[c])
    BY DEF Status, StatusOf, Committing, InCall, Statements
<1>3. ASSUME NEW c \in Clients
      PROVE  (IF ~InCall(c) THEN NoCall
              ELSE IF call[c].op \in Nested THEN NoCall
              ELSE [op |-> call[c].op, status |-> Status(c),
                    saw |-> IF Status(c) = "done" THEN call[c].saw ELSE NothingSeen]) = PendOf(call[c])
    <2>1. CASE call[c] = NoCall
        BY <2>1 DEF PendOf, InCall
    <2>2. CASE call[c] # NoCall
        BY <1>1, <2>2 DEF PendOf, InCall
    <2> QED
        BY <2>1, <2>2
<1>4. ASSUME NEW c \in Clients
      PROVE  (IF ~InCall(c)' THEN NoCall
              ELSE IF call'[c].op \in Nested THEN NoCall
              ELSE [op |-> call'[c].op, status |-> Status(c)',
                    saw |-> IF Status(c)' = "done" THEN call'[c].saw ELSE NothingSeen]) = PendOf(call'[c])
    <2>1. CASE call'[c] = NoCall
        BY <2>1 DEF PendOf, InCall
    <2>2. CASE call'[c] # NoCall
        BY <1>2, <2>2 DEF PendOf, InCall
    <2> QED
        BY <2>1, <2>2
<1> QED
    BY <1>3, <1>4 DEF Pending, NothingSeen

LEMMA PendStep ==
    ASSUME NEW c \in Clients, DOMAIN call = Clients, call' = [call EXCEPT ![c] = call'[c]]
    PROVE  /\ Pending' = [Pending EXCEPT ![c] = PendOf(call'[c])]
           /\ Pending[c] = PendOf(call[c])
<1>1. \A d \in Clients : d # c => call'[d] = call[d]
    OBVIOUS
<1> QED
    BY <1>1, PendingIs

LEMMA PendSame ==
    ASSUME NEW c \in Clients, DOMAIN call = Clients, call' = [call EXCEPT ![c] = call'[c]],
           PendOf(call'[c]) = PendOf(call[c])
    PROVE  Pending' = Pending
<1>1. \A d \in Clients : PendOf(call'[d]) = PendOf(call[d])
    <2>1. \A d \in Clients : d # c => call'[d] = call[d]
        OBVIOUS
    <2> QED
        BY <2>1
<1> QED
    BY <1>1, PendingIs

\* A call of an operation that is not nested, seen by its caller.
LEMMA PendRecord ==
    ASSUME NEW cl \in CallType, cl.op \notin Nested
    PROVE  /\ PendOf(cl) # NoCall /\ PendOf(cl).op = cl.op /\ PendOf(cl).status = StatusOf(cl)
           /\ PendOf(cl) = [op |-> cl.op, status |-> StatusOf(cl),
                            saw |-> IF StatusOf(cl) = "done" THEN cl.saw ELSE NothingSeen]
<1>1. cl # NoCall
    BY NoCallAssumption
<1> DEFINE saw == IF StatusOf(cl) = "done" THEN cl.saw ELSE NothingSeen
<1>2. PendOf(cl) = [op |-> cl.op, status |-> StatusOf(cl), saw |-> saw]
    BY <1>1 DEF PendOf
<1>3. StatusOf(cl) \in {"called", "done", "failed"} /\ cl.op \in Ops
    BY DEF StatusOf, CallType
<1>4. saw \in [Tables -> Values \cup {NoValue}]
    BY DEF NothingSeen, CallType
<1>5. PendOf(cl) \in PendingType
    <2> HIDE DEF saw
    <2> QED
        BY <1>2, <1>3, <1>4 DEF PendingType
<1> QED
    BY <1>2, <1>5, NoCallAssumption

\* A transaction with all of its statements done has seen the tables of its operation as they are.
LEMMA SawView ==
    ASSUME LoopInv, NEW op \in Ops \ Nested, NEW saw \in [Tables -> Values \cup {NoValue}],
           \A t \in Tables : saw[t] = IF t \in Covered(Body[op], Len(Body[op])) THEN db[t] ELSE NoValue
    PROVE  saw = Atomic!View(op, db)
BY PlainFacts DEF Atomic!View

AtomicStep == [Atomic!Next]_(Atomic!vars)

LEMMA SameStep ==
    ASSUME Pending' = Pending, UNCHANGED db
    PROVE  AtomicStep
BY DEF AtomicStep, Atomic!vars

LEMMA CallRefines ==
    ASSUME LoopInv, NEW c \in Clients, Call(c)
    PROVE  AtomicStep
<1>1. PICK op \in MayCall[c] : call' = [call EXCEPT ![c] = Begin(op)]
    BY DEF Call
<1>2. op \in Ops /\ UNCHANGED db /\ call[c] = NoCall /\ DOMAIN call = Clients
    BY LoopAssumption DEF Call, LoopInv
<1>3. call'[c] = Begin(op) /\ call' = [call EXCEPT ![c] = call'[c]]
    BY <1>1, <1>2
<1>4. /\ Begin(op) \in CallType /\ Begin(op).op = op /\ Begin(op).pos = 0 /\ Begin(op).end = "no"
    BY <1>2, LoopAssumption DEF Begin, CallType, NothingSeen
<1>5. Pending[c] = NoCall /\ Pending' = [Pending EXCEPT ![c] = PendOf(Begin(op))]
    BY <1>2, <1>3, PendStep DEF PendOf
<1>6. CASE op \in Nested
    <2>1. PendOf(Begin(op)) = NoCall /\ PendOf(call[c]) = NoCall
        BY <1>2, <1>4, <1>6 DEF PendOf
    <2> QED
        BY <1>2, <1>3, <2>1, PendSame, SameStep
<1>7. CASE op \notin Nested
    <2>1. StatusOf(Begin(op)) = "called"
        BY <1>2, <1>4, BodyFacts DEF StatusOf
    <2>2. PendOf(Begin(op)) = [op |-> op, status |-> "called", saw |-> Atomic!NothingSeen]
        BY <1>4, <1>7, <2>1, PendRecord DEF NothingSeen, Atomic!NothingSeen
    <2>3. Atomic!Call(c)
        BY <1>2, <1>5, <2>2 DEF Atomic!Call
    <2> QED
        BY <2>3 DEF AtomicStep, Atomic!Next
<1> QED
    BY <1>6, <1>7

LEMMA FailRefines ==
    ASSUME LoopInv, NEW c \in Clients, call[c] # NoCall, Open(call[c]), Fail(c)
    PROVE  AtomicStep
<1>1. /\ call' = [call EXCEPT ![c] = call'[c]] /\ call'[c] \in CallType
      /\ call'[c].op = call[c].op /\ call'[c].end = "failed" /\ UNCHANGED db
    BY EndFacts DEF Fail
<1>2. call[c] \in CallType /\ DOMAIN call = Clients /\ call[c].op \in Ops /\ call[c].pos \in Nat
    BY CallFacts
<1>3. Pending' = [Pending EXCEPT ![c] = PendOf(call'[c])] /\ Pending[c] = PendOf(call[c])
    BY <1>1, <1>2, PendStep
<1>4. CASE call[c].op \in Nested
    <2>1. PendOf(call'[c]) = PendOf(call[c])
        BY <1>1, <1>4 DEF PendOf
    <2> QED
        BY <1>1, <1>2, <2>1, PendSame, SameStep
<1>5. CASE call[c].op \notin Nested
    <2>1. StatusOf(call[c]) = "called" /\ StatusOf(call'[c]) = "failed"
        BY <1>1, <1>2, BodyFacts DEF StatusOf, Open
    <2>2. PendOf(call'[c]) = [op |-> call[c].op, status |-> "failed", saw |-> Atomic!NothingSeen]
        BY <1>1, <1>5, <2>1, PendRecord DEF NothingSeen, Atomic!NothingSeen
    <2>3. Pending[c] # NoCall /\ Pending[c].op = call[c].op /\ Pending[c].status = "called"
        BY <1>2, <1>3, <1>5, <2>1, PendRecord
    <2>4. Atomic!Fail(c)
        BY <1>1, <1>3, <2>2, <2>3 DEF Atomic!Fail, Atomic!Is, Atomic!Becomes
    <2> QED
        BY <2>4 DEF AtomicStep, Atomic!Next
<1> QED
    BY <1>4, <1>5

LEMMA AgainRefines ==
    ASSUME LoopInv, NEW c \in Clients, call[c] # NoCall, Open(call[c]), NEW l \in Conns,
           Again(c, l), l = "inner" => InInner(c)
    PROVE  AtomicStep
<1>1. /\ call' = [call EXCEPT ![c] = call'[c]] /\ call'[c] \in CallType /\ UNCHANGED db
      /\ call'[c].op = call[c].op /\ call'[c].end = call[c].end /\ call'[c].pos = Restart(c, l)
    BY AgainFacts DEF Again
<1>2. call[c] \in CallType /\ DOMAIN call = Clients /\ call[c].op \in Ops /\ call[c].pos \in Nat
    BY CallFacts
<1>3. CASE call[c].op \in Nested
    <2>1. PendOf(call'[c]) = PendOf(call[c])
        BY <1>1, <1>3 DEF PendOf
    <2> QED
        BY <1>1, <1>2, <2>1, PendSame, SameStep
<1>4. CASE call[c].op \notin Nested
    <2>1. call'[c].pos = 0
        BY <1>1, <1>4 DEF InInner, Restart, Conns
    <2>2. StatusOf(call[c]) = "called" /\ StatusOf(call'[c]) = "called"
        BY <1>1, <1>2, <2>1, BodyFacts DEF StatusOf, Open
    <2>3. PendOf(call'[c]) = PendOf(call[c])
        BY <1>1, <1>2, <1>4, <2>2, PendRecord
    <2> QED
        BY <1>1, <1>2, <2>3, PendSame, SameStep
<1> QED
    BY <1>3, <1>4

LEMMA ExecRefines ==
    ASSUME LoopInv, NEW c \in Clients, Exec(c)
    PROVE  AtomicStep
<1> DEFINE op == call[c].op
           n == call[c].pos
           s == Stmt(c)
<1>1. /\ call' = [call EXCEPT ![c] = call'[c]] /\ call'[c] \in CallType
      /\ call'[c].op = op /\ call'[c].end = "no" /\ call'[c].pos = n + 1 /\ call'[c].saw = Sees(c)
      /\ Sees(c) \in [Tables -> Values \cup {NoValue}]
    BY ExecCall
<1>2. /\ call[c] # NoCall /\ call[c].end = "no" /\ op \in Ops /\ n \in Nat /\ n + 1 \in 1..Len(Body[op])
      /\ s = Body[op][n + 1] /\ s \in StmtType
    BY RunningFacts DEF Exec
<1>3. /\ call[c] \in CallType /\ DOMAIN call = Clients /\ CallOK(call[c], held[c], db)
      /\ Len(Body[op]) \in Nat /\ db \in [Tables -> Values]
    BY <1>2, CallFacts, BodyFacts DEF LoopInv
<1>4. /\ db' \in [Tables -> Values]
      /\ \A t \in Tables : db'[t] # db[t] => s.conn = "pool" /\ t \in s.writes
    BY ExecTables
<1>5. CASE op \in Nested
    <2>1. db' = db
        BY <1>2, <1>3, <1>4, <1>5, NestedFacts
    <2>2. PendOf(call'[c]) = PendOf(call[c])
        BY <1>1, <1>2, <1>5, NoCallAssumption DEF PendOf
    <2> QED
        BY <1>1, <1>3, <2>1, <2>2, PendSame, SameStep
<1>6. ASSUME op \notin Nested PROVE AtomicStep
    <2>1. Open(call[c]) /\ StatusOf(call[c]) = "called"
        BY <1>2, <1>3 DEF Open, StatusOf
    <2>2. Pending' = [Pending EXCEPT ![c] = PendOf(call'[c])] /\ Pending[c] = PendOf(call[c])
        BY <1>1, <1>3, PendStep
    <2>3. CASE n + 1 < Len(Body[op]) \/ TxWrites[op] # {}
        <3>1. s.conn # "pool"
            BY <1>2, <1>3, <1>6, <2>3, PlainFacts
        <3>2. db' = db
            BY <1>3, <1>4, <3>1
        <3>3. StatusOf(call'[c]) = "called"
            BY <1>1, <1>2, <1>3, <2>3 DEF StatusOf
        <3>4. PendOf(call'[c]) = PendOf(call[c])
            BY <1>1, <1>3, <1>6, <2>1, <3>3, PendRecord
        <3> QED
            BY <1>1, <1>3, <3>2, <3>4, PendSame, SameStep
    <2>4. CASE n + 1 = Len(Body[op]) /\ TxWrites[op] = {}
        <3>1. StatusOf(call'[c]) = "done"
            BY <1>1, <2>4 DEF StatusOf
        <3>2. /\ \A t \in Tables : call[c].saw[t] = IF t \in Covered(Body[op], n) THEN db[t] ELSE NoValue
            BY <1>3, <1>6, <2>1 DEF CallOK, PlainOK
        <3>3. Covered(Body[op], Len(Body[op])) = Covered(Body[op], n) \cup Touched(s)
            <4>1. Covered(Body[op], n + 1) = Covered(Body[op], n) \cup Touched(Body[op][n + 1])
                BY <1>2, CoveredNext
            <4> QED
                BY <1>2, <2>4, <4>1
        <3>4. \A t \in Tables : Sees(c)[t] =
                 IF t \in Covered(Body[op], Len(Body[op])) THEN db[t] ELSE NoValue
            BY <3>2, <3>3 DEF Sees
        <3>5. Sees(c) = Atomic!View(op, db)
            BY <1>1, <1>2, <1>6, <3>4, SawView
        <3>6. db' = Atomic!After(op, db)
            <4>1. ASSUME NEW t \in Tables
                  PROVE  db'[t] = IF t \in Writes[op] THEN Outcome(op, t, Sees(c)) ELSE db[t]
                <5>1. Body[op][n + 1].writes \subseteq Writes[op]
                    BY <1>2, StmtFacts
                <5>2. CASE s.conn = "pool"
                    <6>1. t \in Writes[op] => t \in s.writes
                        <7>1. ASSUME NEW i \in 1..Len(Body[op]), i # n + 1
                              PROVE  Body[op][i].writes = {}
                            <8>1. Body[op][i].conn # "pool"
                                BY <1>2, <1>6, <2>4, <7>1, PlainFacts
                            <8> QED
                                BY <1>2, <2>4, <8>1, StmtFacts
                        <7> QED
                            BY <1>2, <1>6, <7>1, PlainFacts DEF Written
                    <6>2. db'[t] = IF t \in s.writes THEN Outcome(op, t, Sees(c)) ELSE db[t]
                        BY <5>2 DEF Exec
                    <6> QED
                        BY <1>2, <5>1, <6>1, <6>2
                <5>3. CASE s.conn # "pool"
                    <6>1. \A i \in 1..Len(Body[op]) : Body[op][i].conn # "pool"
                        BY <1>2, <1>6, <2>4, <5>3, PlainFacts
                    <6>2. \A i \in 1..Len(Body[op]) : Body[op][i].writes = {}
                        BY <1>2, <2>4, <6>1, StmtFacts
                    <6>3. Writes[op] = {}
                        BY <1>2, <1>6, <6>2, PlainFacts DEF Written
                    <6> QED
                        BY <1>4, <5>3, <6>3
                <5> QED
                    BY <5>2, <5>3
            <4>2. db' = [t \in Tables |-> IF t \in Writes[op] THEN Outcome(op, t, Sees(c)) ELSE db[t]]
                BY <1>4, <4>1
            <4> QED
                BY <3>5, <4>2 DEF Atomic!After
        <3>7. PendOf(call'[c]) = [op |-> op, status |-> "done", saw |-> Atomic!View(op, db)]
            BY <1>1, <1>6, <3>1, <3>5, PendRecord
        <3>8. Pending[c] # NoCall /\ Pending[c].op = op /\ Pending[c].status = "called"
            BY <1>3, <1>6, <2>1, <2>2, PendRecord
        <3>9. Atomic!Do(c)
            BY <2>2, <3>6, <3>7, <3>8 DEF Atomic!Do, Atomic!Is, Atomic!Becomes
        <3> QED
            BY <3>9 DEF AtomicStep, Atomic!Next
    <2> QED
        BY <1>2, <1>3, <2>3, <2>4
<1> QED
    BY <1>5, <1>6

\* What a transaction with something to commit has seen.
LEMMA CommitView ==
    ASSUME LoopInv, NEW c \in Clients, Committing(c), TxWrites[call[c].op] # {}
    PROVE  /\ call[c] # NoCall /\ call[c] \in CallType /\ call[c].op \in Ops \ Nested
           /\ Open(call[c]) /\ StatusOf(call[c]) = "called"
           /\ call[c].saw = Atomic!View(call[c].op, db)
<1>1. /\ call[c] # NoCall /\ call[c].end = "no" /\ call[c].pos = Len(Body[call[c].op])
    BY DEF Committing, InCall, Statements
<1>2. /\ call[c] \in CallType /\ call[c].op \in Ops /\ CallOK(call[c], held[c], db)
      /\ call[c].saw \in [Tables -> Values \cup {NoValue}]
    BY <1>1, CallFacts
<1>3. call[c].op \notin Nested
    BY NestedFacts
<1>4. Open(call[c]) /\ StatusOf(call[c]) = "called"
    BY <1>1 DEF Open, StatusOf
<1>5. \A t \in Tables : call[c].saw[t] =
         IF t \in Covered(Body[call[c].op], Len(Body[call[c].op])) THEN db[t] ELSE NoValue
    BY <1>1, <1>2, <1>3, <1>4 DEF CallOK, PlainOK
<1>6. call[c].saw = Atomic!View(call[c].op, db)
    BY <1>2, <1>3, <1>5, SawView
<1> QED
    BY <1>1, <1>2, <1>3, <1>4, <1>6

LEMMA CommitRefines ==
    ASSUME LoopInv, NEW c \in Clients, Commit(c)
    PROVE  AtomicStep
<1> DEFINE op == call[c].op
<1>1. /\ Committing(c) /\ call[c] # NoCall /\ call[c].end = "no" /\ call[c].pos = Len(Body[op])
      /\ End(c, "done")
      /\ db' = [t \in Tables |-> IF t \in TxWrites[op] THEN Outcome(op, t, call[c].saw) ELSE db[t]]
    BY DEF Commit, Committing, InCall, Statements
<1>2. /\ call' = [call EXCEPT ![c] = call'[c]] /\ call'[c] \in CallType
      /\ call'[c].op = op /\ call'[c].end = "done" /\ call'[c].saw = call[c].saw
    BY <1>1, EndFacts
<1>3. call[c] \in CallType /\ DOMAIN call = Clients /\ db \in [Tables -> Values] /\ op \in Ops
    BY <1>1, CallFacts DEF LoopInv
<1>4. Pending' = [Pending EXCEPT ![c] = PendOf(call'[c])] /\ Pending[c] = PendOf(call[c])
    BY <1>2, <1>3, PendStep
<1>5. StatusOf(call'[c]) = "done"
    BY <1>2 DEF StatusOf
<1>6. CASE TxWrites[op] = {}
    <2>1. db' = db
        BY <1>1, <1>3, <1>6
    <2>2. PendOf(call'[c]) = PendOf(call[c])
        <3>1. CASE op \in Nested
            BY <1>1, <1>2, <3>1, NoCallAssumption DEF PendOf
        <3>2. CASE op \notin Nested
            <4>1. StatusOf(call[c]) = "done"
                BY <1>1, <1>6 DEF StatusOf
            <4> QED
                BY <1>2, <1>3, <1>5, <3>2, <4>1, PendRecord
        <3> QED
            BY <3>1, <3>2
    <2> QED
        BY <1>2, <1>3, <2>1, <2>2, PendSame, SameStep
<1>7. CASE TxWrites[op] # {}
    <2>1. /\ op \in Ops \ Nested /\ StatusOf(call[c]) = "called"
          /\ call[c].saw = Atomic!View(op, db)
        BY <1>1, <1>7, CommitView
    <2>2. TxWrites[op] = Writes[op]
        BY <1>7, <2>1, PlainFacts
    <2>3. db' = Atomic!After(op, db)
        BY <1>1, <2>1, <2>2 DEF Atomic!After
    <2>4. PendOf(call'[c]) = [op |-> op, status |-> "done", saw |-> Atomic!View(op, db)]
        BY <1>2, <1>5, <2>1, PendRecord
    <2>5. Pending[c] # NoCall /\ Pending[c].op = op /\ Pending[c].status = "called"
        BY <1>3, <1>4, <2>1, PendRecord
    <2>6. Atomic!Do(c)
        BY <1>4, <2>3, <2>4, <2>5 DEF Atomic!Do, Atomic!Is, Atomic!Becomes
    <2> QED
        BY <2>6 DEF AtomicStep, Atomic!Next
<1> QED
    BY <1>6, <1>7

LEMMA CommitRefusedRefines ==
    ASSUME LoopInv, NEW c \in Clients, CommitRefused(c)
    PROVE  AtomicStep
<1> DEFINE op == call[c].op
<1>1. Committing(c) /\ TxWrites[op] # {}
    BY DEF CommitRefused
<1>2. /\ call[c] # NoCall /\ call[c] \in CallType /\ op \in Ops \ Nested
      /\ Open(call[c]) /\ StatusOf(call[c]) = "called" /\ call[c].saw = Atomic!View(op, db)
    BY <1>1, CommitView
<1>3. CASE op \in Unchecked
    <2>1. End(c, "done") /\ UNCHANGED db
        BY <1>3 DEF CommitRefused
    <2>2. /\ call' = [call EXCEPT ![c] = call'[c]] /\ call'[c] \in CallType
          /\ call'[c].op = op /\ call'[c].end = "done" /\ call'[c].saw = call[c].saw
        BY <1>2, <2>1, EndFacts
    <2>3. Pending' = [Pending EXCEPT ![c] = PendOf(call'[c])] /\ Pending[c] = PendOf(call[c])
        BY <2>2, PendStep DEF LoopInv
    <2>4. StatusOf(call'[c]) = "done"
        BY <2>2 DEF StatusOf
    <2>5. PendOf(call'[c]) = [op |-> op, status |-> "done", saw |-> Atomic!View(op, db)]
        BY <1>2, <2>2, <2>4, PendRecord
    <2>6. Pending[c] # NoCall /\ Pending[c].op = op /\ Pending[c].status = "called"
        BY <1>2, <2>3, PendRecord
    <2>7. Atomic!Unnoticed(c)
        BY <1>3, <2>1, <2>3, <2>5, <2>6 DEF Atomic!Unnoticed, Atomic!Is, Atomic!Becomes
    <2> QED
        BY <2>7 DEF AtomicStep, Atomic!Next
<1>4. CASE op \notin Unchecked
    <2>1. Fail(c) \/ Again(c, "tx")
        BY <1>4, RetryCases DEF CommitRefused
    <2> QED
        BY <1>2, <2>1, FailRefines, AgainRefines DEF Conns
<1> QED
    BY <1>3, <1>4

LEMMA RunningOpen ==
    ASSUME NEW c \in Clients, Running(c)
    PROVE  call[c] # NoCall /\ Open(call[c])
BY DEF Running, InCall, Statements, Open

LEMMA RefusedRefines ==
    ASSUME LoopInv, NEW c \in Clients, Refused(c)
    PROVE  AtomicStep
<1>1. Running(c) /\ (Fail(c) \/ Again(c, Stmt(c).loop))
    BY RetryCases DEF Refused
<1> QED
    BY <1>1, RunningFacts, RunningOpen, FailRefines, AgainRefines

LEMMA ErrorRefines ==
    ASSUME LoopInv, NEW c \in Clients, Error(c)
    PROVE  AtomicStep
<1>1. call[c] # NoCall /\ Open(call[c])
    BY RunningOpen, CommitView DEF Error
<1> QED
    BY <1>1, FailRefines DEF Error

\* What callers see of a listing does not change with its callback's error.
LEMMA CallbackRefines ==
    ASSUME LoopInv, NEW c \in Clients, CallbackError(c)
    PROVE  AtomicStep
<1>1. call[c] # NoCall /\ call[c].op \in Nested /\ (Fail(c) \/ Again(c, "tx"))
    BY CallbackCases
<1>2. /\ call' = [call EXCEPT ![c] = call'[c]] /\ call'[c] \in CallType
      /\ call'[c].op = call[c].op /\ UNCHANGED db
    <2>1. CASE Fail(c)
        BY <1>1, <2>1, EndFacts DEF Fail
    <2>2. CASE Again(c, "tx")
        BY <1>1, <2>2, AgainFacts DEF Again, Conns
    <2> QED
        BY <1>1, <2>1, <2>2
<1>3. PendOf(call'[c]) = PendOf(call[c])
    BY <1>1, <1>2 DEF PendOf
<1>4. DOMAIN call = Clients
    BY <1>1, CallFacts
<1> QED
    BY <1>2, <1>3, <1>4, PendSame, SameStep

LEMMA ReturnRefines ==
    ASSUME LoopInv, NEW c \in Clients, Return(c)
    PROVE  AtomicStep
<1>1. /\ call'[c] = NoCall /\ call' = [call EXCEPT ![c] = call'[c]] /\ UNCHANGED db
      /\ call[c] # NoCall /\ call[c].end # "no"
    BY DEF Return, InCall, LoopInv
<1>2. call[c] \in CallType /\ DOMAIN call = Clients
    BY <1>1, CallFacts
<1>3. Pending' = [Pending EXCEPT ![c] = NoCall] /\ Pending[c] = PendOf(call[c])
    BY <1>1, <1>2, PendStep DEF PendOf
<1>4. CASE call[c].op \in Nested
    <2>1. PendOf(call'[c]) = PendOf(call[c])
        BY <1>1, <1>4 DEF PendOf
    <2> QED
        BY <1>1, <1>2, <2>1, PendSame, SameStep
<1>5. CASE call[c].op \notin Nested
    <2>1. StatusOf(call[c]) \in {"done", "failed"}
        BY <1>1, <1>2 DEF StatusOf, CallType
    <2>2. Pending[c] # NoCall /\ Pending[c].status \in {"done", "failed"}
        BY <1>2, <1>3, <1>5, <2>1, PendRecord
    <2>3. Atomic!Return(c)
        BY <1>1, <1>3, <2>2 DEF Atomic!Return, Atomic!Is
    <2> QED
        BY <2>3 DEF AtomicStep, Atomic!Next
<1> QED
    BY <1>4, <1>5

LEMMA TickRefines ==
    ASSUME LoopInv, NEW c \in Clients, Tick(c)
    PROVE  AtomicStep
<1>1. PICK l \in Conns : call' = [call EXCEPT ![c].late[l] = TRUE]
    BY DEF Tick, Conns
<1>2. call[c] # NoCall /\ UNCHANGED db
    BY DEF Tick, Running, Committing, InCall
<1>3. call[c] \in CallType /\ DOMAIN call = Clients
    BY <1>2, CallFacts
<1>4. /\ call' = [call EXCEPT ![c] = call'[c]]
      /\ call'[c] = [call[c] EXCEPT !.late = [call[c].late EXCEPT ![l] = TRUE]]
    BY <1>1, <1>3
<1>5. [call[c].late EXCEPT ![l] = TRUE] \in [Conns -> BOOLEAN]
    BY <1>3 DEF CallType
<1>6. /\ call'[c] \in CallType /\ call'[c].op = call[c].op /\ call'[c].end = call[c].end
      /\ call'[c].pos = call[c].pos /\ call'[c].saw = call[c].saw
    BY <1>3, <1>4, <1>5 DEF CallType
<1>7. StatusOf(call'[c]) = StatusOf(call[c])
    BY <1>6 DEF StatusOf
<1>8. PendOf(call'[c]) = PendOf(call[c])
    BY <1>2, <1>6, <1>7, NoCallAssumption DEF PendOf
<1> QED
    BY <1>2, <1>3, <1>4, <1>8, PendSame, SameStep

LEMMA InitRefines == Init => Atomic!Init
<1> SUFFICES ASSUME Init PROVE Atomic!Init
    OBVIOUS
<1>1. Pending = [c \in Clients |-> NoCall]
    BY PendingIs DEF Init, PendOf
<1> QED
    BY <1>1 DEF Init, Atomic!Init

LEMMA NextRefines == LoopInv /\ [Next]_vars => [Atomic!Next]_(Atomic!vars)
<1> SUFFICES ASSUME LoopInv, [Next]_vars PROVE AtomicStep
    BY DEF AtomicStep
<1>1. CASE UNCHANGED vars \/ OtherProcess
    <2>1. UNCHANGED call /\ UNCHANGED db
        BY <1>1 DEF vars, OtherProcess
    <2> QED
        BY <2>1, PendingIs, SameStep
<1>2. ASSUME NEW c \in Clients, Call(c) \/ Exec(c) \/ Refused(c) \/ Commit(c) PROVE AtomicStep
    BY <1>2, CallRefines, ExecRefines, RefusedRefines, CommitRefines
<1>3. ASSUME NEW c \in Clients, CommitRefused(c) \/ Return(c) \/ Error(c) \/ Tick(c) PROVE AtomicStep
    BY <1>3, CommitRefusedRefines, ReturnRefines, ErrorRefines, TickRefines
<1>4. ASSUME NEW c \in Clients, CallbackError(c) PROVE AtomicStep
    BY <1>4, CallbackRefines
<1> QED
    BY <1>1, <1>2, <1>3, <1>4 DEF Next, Step

\* Every operation without nested transactions, as its callers see it, happens in one step on all
\* of its tables or fails and changes nothing, for any number of callers and any operations
\* whose statements fit (all those of module Statements do). An operation that does not look at
\* the error of its commit (Exchange) may also report success and change nothing.
THEOREM ImplementsAtomicHolds == Spec => ImplementsAtomic
BY InitRefines, NextRefines, AlwaysInv, PTL DEF Spec, ImplementsAtomic, Atomic!Spec
====

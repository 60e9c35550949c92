---- MODULE TxLoop ----
(***************************************************************************)
(* txLoop, the loops around single statements and the callers that do not  *)
(* repeat anything, over one SQLite database with a shared cache: every    *)
(* statement locks the tables it uses for its transaction, and a statement *)
(* that meets a lock of another connection fails at once with LOCKED (or   *)
(* BUSY, when another process has the file). Statements, connections and   *)
(* loops of an operation are those of module Statements.                   *)
(***************************************************************************)
EXTENDS Naturals, Sequences

CONSTANTS Clients,          \* goroutines that call the packages
          MayCall,          \* the operations that each of them calls
          Ops, Tables, Files, Values,
          Body,             \* the statements of each operation
          Loop,             \* "txLoop", "for" or "once"
          Unchecked,        \* operations that ignore the error of their commit
          Outcome(_, _, _), \* what op leaves in table t after it has seen v
          minTxRetries,
          NoCall, NoValue

Conns == {"tx", "inner"}
StmtType == [conn : Conns \cup {"pool"}, loop : Conns, reads : SUBSET Tables,
             writes : SUBSET Tables, top : BOOLEAN]

Touched(s) == s.reads \cup s.writes

\* The statements b open a transaction inside of a transaction.
OpensInner(b) == \E i \in DOMAIN b : b[i].loop = "inner"
FootOf(b) == UNION {Touched(b[i]) : i \in DOMAIN b}
WritesOf(b) == UNION {b[i].writes : i \in DOMAIN b}
TxWritesOf(b) == UNION {b[i].writes : i \in {j \in DOMAIN b : b[j].conn # "pool"}}

\* The bodies that the operations have. With transactions in transactions: only reads, a first
\* statement of the outer transaction, then those of the inner ones, each begun by a top statement.
\* Else: a statement on a connection of the pool is the last one, and there is nothing to commit.
Fits(b) ==
    /\ b # <<>>
    /\ OpensInner(b) =>
          /\ WritesOf(b) = {}
          /\ b[1].conn = "tx" /\ b[1].loop = "tx"
          /\ \A i \in 2..Len(b) :
                /\ b[i].loop = "inner"
                /\ \E j \in 2..i : b[j].top /\ \A k \in (j + 1)..i : ~b[k].top
          /\ ~b[1].top
    /\ ~OpensInner(b) => \A i \in DOMAIN b :
          /\ b[i].conn \in {"tx", "pool"}
          /\ b[i].conn = "pool" => i = Len(b) /\ TxWritesOf(b) = {}

\* The operations with transactions in transactions; what an operation looks at, what it
\* changes, and what of that waits for its commit.
Nested == {op \in Ops : OpensInner(Body[op])}
Foot == [op \in Ops |-> FootOf(Body[op])]
Writes == [op \in Ops |-> WritesOf(Body[op])]
TxWrites == [op \in Ops |-> TxWritesOf(Body[op])]

ASSUME BodyAssumption ==
    /\ Body \in [Ops -> Seq(StmtType)]
    /\ \A op \in Ops : Fits(Body[op])
ASSUME OutcomeAssumption ==
    \A op \in Ops, t \in Tables : \A v \in [Tables -> Values \cup {NoValue}] :
        Outcome(op, t, v) \in Values
ASSUME LoopAssumption ==
    /\ Loop \in [Ops -> {"txLoop", "for", "once"}]
    /\ MayCall \in [Clients -> SUBSET Ops]
    /\ minTxRetries \in Nat
    /\ NoValue \notin Values
    /\ UNION Files = Tables

VARIABLES db,      \* the committed content of every table
          call,    \* the call that each client is in
          held,    \* the locks of each client's connections
          busy     \* another process has the database file locked

vars == <<db, call, held, busy>>

NothingSeen == [t \in Tables |-> NoValue]
NoLocks == [rd |-> {}, wr |-> {}]
Free == [k \in Conns |-> NoLocks]

\* pos: statements done; end: whether and how the call is over; tries and late: the count of
\* each loop and whether it has lasted longer than maxTxTime; saw: what the statements read;
\* torn: tables that two statements of the call saw different.
CallType == [op : Ops, pos : Nat, end : {"no", "done", "failed"},
             tries : [Conns -> 1..(minTxRetries + 1)], late : [Conns -> BOOLEAN],
             saw : [Tables -> Values \cup {NoValue}], torn : SUBSET Tables]

PendingType == [op : Ops, status : {"called", "done", "failed"},
                saw : [Tables -> Values \cup {NoValue}]]

ASSUME NoCallAssumption == NoCall \notin CallType /\ NoCall \notin PendingType

\* The type invariant.
TypeOK ==
    /\ db \in [Tables -> Values]
    /\ \A c \in Clients : call[c] # NoCall =>
          /\ call[c] \in CallType
          /\ call[c].pos <= Len(Body[call[c].op])
    /\ DOMAIN call = Clients
    /\ held \in [Clients -> [Conns -> [rd : SUBSET Tables, wr : SUBSET Tables]]]
    /\ busy \in BOOLEAN

Init ==
    /\ db \in [Tables -> Values]
    /\ call = [c \in Clients |-> NoCall]
    /\ held = [c \in Clients |-> Free]
    /\ busy = FALSE

\* Mutant: the count starts after the check.
BeginUncounted(op) == [op |-> op, pos |-> 0, end |-> "no", tries |-> [k \in Conns |-> 0],
              late |-> [k \in Conns |-> FALSE], saw |-> NothingSeen, torn |-> {}]

Begin(op) == [op |-> op, pos |-> 0, end |-> "no", tries |-> [k \in Conns |-> 1],
              late |-> [k \in Conns |-> FALSE], saw |-> NothingSeen, torn |-> {}]

Call(c) == \E op \in MayCall[c] :
    /\ call[c] = NoCall
    /\ call' = [call EXCEPT ![c] = Begin(op)]
    /\ UNCHANGED <<db, held, busy>>

InCall(c) == call[c] # NoCall
Statements(c) == Body[call[c].op]
Running(c) == InCall(c) /\ call[c].end = "no" /\ call[c].pos < Len(Statements(c))
Committing(c) == InCall(c) /\ call[c].end = "no" /\ call[c].pos = Len(Statements(c))
Stmt(c) == Statements(c)[call[c].pos + 1]

\* A read meets a write lock of another connection on its table, a write any lock on its table
\* or another write transaction on its file.
Conflict(c, s) == \E d \in Clients, k \in Conns :
    /\ <<d, k>> # <<c, s.conn>>
    /\ \/ held[d][k].wr \cap Touched(s) # {}
       \/ held[d][k].rd \cap s.writes # {}
       \/ \E f \in Files : held[d][k].wr \cap f # {} /\ s.writes \cap f # {}

\* The statement at pos + 1 is the last one of a transaction in a transaction.
EndsInner(c) ==
    /\ Stmt(c).loop = "inner"
    /\ \/ call[c].pos + 1 = Len(Statements(c))
       \/ Statements(c)[call[c].pos + 2].top

Locked(c, s) == [held[c] EXCEPT ![s.conn] = [rd |-> @.rd \cup s.reads, wr |-> @.wr \cup s.writes]]

\* What c has seen once its next statement is executed, and which of that it saw different before.
Sees(c) == [t \in Tables |-> IF t \in Touched(Stmt(c)) /\ call[c].saw[t] = NoValue
                             THEN db[t] ELSE call[c].saw[t]]
Tears(c) == {t \in Touched(Stmt(c)) : call[c].saw[t] \notin {NoValue, db[t]}}

\* The inner loop begins anew for the next discussion.
Anew(c, f, v) == IF EndsInner(c) THEN [f EXCEPT !["inner"] = v] ELSE f

\* A statement is executed. On a connection of the pool it commits at once.
Exec(c) ==
    /\ Running(c)
    /\ ~Conflict(c, Stmt(c))
    /\ LET cl == call[c] IN
       call' = [call EXCEPT ![c] =
          [cl EXCEPT !.pos = cl.pos + 1, !.saw = Sees(c), !.torn = cl.torn \cup Tears(c),
                     !.tries = Anew(c, cl.tries, 1), !.late = Anew(c, cl.late, FALSE)]]
    /\ IF Stmt(c).conn = "pool"
       THEN /\ db' = [t \in Tables |-> IF t \in Stmt(c).writes
                                       THEN Outcome(call[c].op, t, Sees(c)) ELSE db[t]]
            /\ UNCHANGED held
       ELSE /\ held' = [held EXCEPT ![c] = Anew(c, Locked(c, Stmt(c)), NoLocks)]
            /\ UNCHANGED db
    /\ UNCHANGED busy

\* Mutant: no deferred Rollback.
EndLocked(c, how) ==
    /\ call' = [call EXCEPT ![c] = [Begin(@.op) EXCEPT !.pos = Len(Statements(c)), !.end = how,
          !.saw = IF how = "done" THEN call[c].saw ELSE NothingSeen, !.torn = call[c].torn]]
    /\ UNCHANGED held

\* The call is over: the deferred Rollback lets go of the locks of what was not committed.
End(c, how) ==
    /\ call' = [call EXCEPT ![c] = [Begin(@.op) EXCEPT !.pos = Len(Statements(c)), !.end = how,
          !.saw = IF how = "done" THEN call[c].saw ELSE NothingSeen, !.torn = call[c].torn]]
    /\ held' = [held EXCEPT ![c] = Free]

Fail(c) == End(c, "failed") /\ UNCHANGED <<db, busy>>

\* Mutant: no limit.
TooLongNever(cl, l) == FALSE

\* count > minTxRetries && time.Now().Sub(start) > maxTxTime, with count saturated.
TooLong(cl, l) == cl.tries[l] = minTxRetries + 1 /\ cl.late[l]

\* The first statement of the transaction that loop l repeats.
Restart(c, l) ==
    IF l = "tx" THEN 0
    ELSE CHOOSE i \in 0..call[c].pos :
            /\ Statements(c)[i + 1].top
            /\ \A j \in (i + 1)..call[c].pos : ~Statements(c)[j + 1].top

\* What is left of what c has seen when loop l rolls its transaction back, and the count of l.
\* The next try reads into the same variables of the caller: sqlx's Get and Select are taken to
\* replace what is there, so nothing of the abandoned try is left.
SawBefore(c, l) ==
    [t \in Tables |-> IF l = "inner" /\ t \in held[c]["tx"].rd THEN call[c].saw[t] ELSE NoValue]
OneMore(c, l) == [call[c].tries EXCEPT ![l] = IF @ > minTxRetries THEN @ ELSE @ + 1]

\* Mutant: the inner transaction's Rollback is the outer one's too.
AgainUnlocked(c, l) ==
    /\ call' = [call EXCEPT ![c] =
          [@ EXCEPT !.pos = Restart(c, l), !.tries = OneMore(c, l), !.saw = SawBefore(c, l)]]
    /\ held' = [held EXCEPT ![c] = Free]
    /\ UNCHANGED <<db, busy>>

\* Loop l rolls its transaction back and starts over; what it had read is read again.
Again(c, l) ==
    /\ call' = [call EXCEPT ![c] =
          [@ EXCEPT !.pos = Restart(c, l), !.tries = OneMore(c, l), !.saw = SawBefore(c, l)]]
    /\ held' = [held EXCEPT ![c] = IF l = "tx" THEN Free ELSE [@ EXCEPT !["inner"] = NoLocks]]
    /\ UNCHANGED <<db, busy>>

\* Mutant: when the inner loop gives up, the outer one tries again.
RetryOuter(c, l) ==
    CASE Loop[call[c].op] = "once" -> Fail(c)
      [] Loop[call[c].op] = "for" -> Again(c, l)
      [] OTHER -> IF call[c].tries[l] > minTxRetries /\ call[c].late[l]
                  THEN IF l = "inner" THEN Again(c, "tx") ELSE Fail(c)
                  ELSE Again(c, l)

\* BUSY or LOCKED in loop l. An error of the inner loop is not one to repeat the outer one for.
Retry(c, l) ==
    CASE Loop[call[c].op] = "once" -> Fail(c)
      [] Loop[call[c].op] = "for" -> Again(c, l)
      [] OTHER -> IF TooLong([call[c] EXCEPT !.tries = OneMore(c, l)], l)
                  THEN Fail(c) ELSE Again(c, l)

Refused(c) ==
    /\ Running(c)
    /\ Conflict(c, Stmt(c)) \/ busy
    /\ Retry(c, Stmt(c).loop)

\* The transactions in c's transaction that are complete, each a discussion handed to the callback.
Handed(c) == {i \in 1..call[c].pos : /\ Statements(c)[i].loop = "inner"
                                      /\ \/ i = Len(Statements(c))
                                         \/ Statements(c)[i + 1].top}

\* The callback of discussionIterateQuery, which has just got a discussion, returns an error of
\* its own: if that is BUSY or LOCKED, txLoop starts the whole listing over.
CallbackError(c) ==
    /\ InCall(c)
    /\ call[c].end = "no"
    /\ call[c].pos \in Handed(c)
    /\ call[c].tries["inner"] = 1
    /\ Fail(c) \/ Retry(c, "tx")

\* The function returns another error, as for a row that is missing or a constraint, or the
\* commit does.
Error(c) ==
    /\ \/ Running(c)
       \/ Committing(c) /\ TxWrites[call[c].op] # {} /\ call[c].op \notin Unchecked
    /\ Fail(c)

Commit(c) ==
    /\ Committing(c)
    /\ db' = [t \in Tables |-> IF t \in TxWrites[call[c].op]
                               THEN Outcome(call[c].op, t, call[c].saw) ELSE db[t]]
    /\ End(c, "done")
    /\ UNCHANGED busy

\* Mutant: no operation looks at what its commit returns.
CommitIgnored(c) ==
    /\ Committing(c)
    /\ TxWrites[call[c].op] # {}
    /\ busy
    /\ End(c, "done")
    /\ UNCHANGED <<db, busy>>

\* The commit of a transaction that has written meets another process.
CommitRefused(c) ==
    /\ Committing(c)
    /\ TxWrites[call[c].op] # {}
    /\ busy
    /\ IF call[c].op \in Unchecked THEN End(c, "done") /\ UNCHANGED <<db, busy>>
       ELSE Retry(c, "tx")

Return(c) ==
    /\ InCall(c)
    /\ call[c].end # "no"
    /\ call' = [call EXCEPT ![c] = NoCall]
    /\ UNCHANGED <<db, held, busy>>

\* Loop l has lasted longer than maxTxTime; the inner one was started after the outer one.
Tick(c) ==
    /\ Running(c) \/ Committing(c)
    /\ Loop[call[c].op] = "txLoop"
    /\ LET l == IF call[c].late["tx"] THEN "inner" ELSE "tx" IN
       /\ l = "inner" => Running(c) /\ Stmt(c).loop = "inner"
       /\ ~call[c].late[l]
       /\ call' = [call EXCEPT ![c].late[l] = TRUE]
    /\ UNCHANGED <<db, held, busy>>

OtherProcess == busy' = ~busy /\ UNCHANGED <<db, call, held>>

Step(c) == Exec(c) \/ Refused(c) \/ Commit(c) \/ CommitRefused(c) \/ Return(c)

Next ==
    \/ \E c \in Clients : Call(c) \/ Step(c) \/ CallbackError(c) \/ Error(c) \/ Tick(c)
    \/ OtherProcess

\* The program goes on executing what was called, and time passes. Nobody has to call anything,
\* nothing has to fail, and another process may keep the file.
Fairness == \A c \in Clients : WF_vars(Step(c)) /\ WF_vars(Tick(c))

Spec == Init /\ [][Next]_vars /\ Fairness
-----------------------------------------------------------------------------
\* An operation without writes, or whose write commits by itself, has happened with its last
\* statement, another one with its commit. Nested calls are not promised to be atomic.
Status(c) ==
    IF Committing(c) /\ TxWrites[call[c].op] = {} THEN "done"
    ELSE IF call[c].end = "no" THEN "called" ELSE call[c].end

Pending == [c \in Clients |->
    IF ~InCall(c) THEN NoCall
    ELSE IF call[c].op \in Nested THEN NoCall
    ELSE [op |-> call[c].op, status |-> Status(c),
          saw |-> IF Status(c) = "done" THEN call[c].saw ELSE NothingSeen]]

Atomic == INSTANCE AtomicOps WITH pending <- Pending

\* Every operation that is not nested, as its callers see it, happens in one step or fails and
\* changes nothing (txLoop and the statement loops; DiscussionFindByIdFull although its last
\* read is outside of its transaction). An operation of Unchecked, Exchange, is promised less: it
\* may also report success and change nothing, against its own doc ('Sets "key" to "value"').
ImplementsAtomic == Atomic!Spec

\* The transactions in discussionIterateQuery's transaction see the list of discussions as it
\* saw it: the list's table stays the same until the call ends, so discussionFindByIdFullTx finds
\* every discussion of the list and never hands nil to the callback. Other operations never
\* see two states of any table.
NoTornRead == \A c \in Clients : InCall(c) =>
    call[c].torn \cap (IF call[c].op \in Nested THEN Statements(c)[1].reads ELSE Tables) = {}

\* discussionIterateQuery hands a discussion to its callback twice only when the callback itself
\* returned BUSY or LOCKED (the FIXME in it): no lock, no retry of an inner transaction and none
\* that gives up makes the outer loop start over. The callbacks of display.go, which append to
\* a list, return nil, so their lists have no duplicates.
CallbackOnce ==
    [][\A c \in Clients : InCall(c) /\ InCall(c)' =>
          Handed(c) \subseteq Handed(c)' \/ CallbackError(c)]_vars

\* A call under txLoop, or one without a loop, always returns, whatever the others and other
\* processes do: the loop ends when it has tried minTxRetries times and maxTxTime has passed.
CallReturns == \A c \in Clients :
    (InCall(c) /\ Loop[call[c].op] # "for") ~> ~InCall(c)

Alone(c) == ~busy /\ \A d \in Clients \ {c} : ~InCall(d)

\* The loops without a limit return once the others are done: no call that is over, with success
\* or an error, leaves a lock behind.
StatementReturns == \A c \in Clients : <>[]Alone(c) => []<>(~InCall(c))
====

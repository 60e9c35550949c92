---- MODULE AtomicOps ----
(***************************************************************************)
(* What the packages on top of SQLite promise their callers: an operation  *)
(* that is called either takes effect in one step, in which it sees and    *)
(* changes all of its tables, or fails and changes nothing; nobody else    *)
(* sees anything in between. An operation that ignores the error of its    *)
(* commit (Exchange of package keyvalue) promises less: it may also        *)
(* return as if it had taken effect and change nothing. This is how the    *)
(* other modules of the project use the operations.                        *)
(***************************************************************************)
EXTENDS Naturals

CONSTANTS Clients, Ops, Tables, Values,
          Foot,             \* the tables that an operation looks at
          Writes,           \* the tables that an operation changes
          Unchecked,        \* operations that return success when their commit failed
          Outcome(_, _, _), \* what op leaves in table t after it has seen v
          NoCall, NoValue

VARIABLES db,       \* the committed content of every table
          pending   \* the call that each client is in

vars == <<db, pending>>

View(op, d) == [t \in Tables |-> IF t \in Foot[op] THEN d[t] ELSE NoValue]

After(op, d) == [t \in Tables |-> IF t \in Writes[op] THEN Outcome(op, t, View(op, d)) ELSE d[t]]

NothingSeen == [t \in Tables |-> NoValue]

Is(c, st) == pending[c] # NoCall /\ pending[c].status = st

Becomes(c, st, v) ==
    pending' = [pending EXCEPT ![c] = [op |-> pending[c].op, status |-> st, saw |-> v]]

Init ==
    /\ db \in [Tables -> Values]
    /\ pending = [c \in Clients |-> NoCall]

Call(c) == \E op \in Ops :
    /\ pending[c] = NoCall
    /\ pending' = [pending EXCEPT ![c] = [op |-> op, status |-> "called", saw |-> NothingSeen]]
    /\ UNCHANGED db

\* The operation takes effect.
Do(c) ==
    /\ Is(c, "called")
    /\ db' = After(pending[c].op, db)
    /\ Becomes(c, "done", View(pending[c].op, db))

\* The operation is lost, and its caller is not told.
Unnoticed(c) ==
    /\ Is(c, "called")
    /\ pending[c].op \in Unchecked
    /\ Becomes(c, "done", View(pending[c].op, db))
    /\ UNCHANGED db

\* The operation fails; its caller gets the error.
Fail(c) ==
    /\ Is(c, "called")
    /\ Becomes(c, "failed", NothingSeen)
    /\ UNCHANGED db

Return(c) ==
    /\ Is(c, "done") \/ Is(c, "failed")
    /\ pending' = [pending EXCEPT ![c] = NoCall]
    /\ UNCHANGED db

Next == \E c \in Clients : Call(c) \/ Do(c) \/ Unnoticed(c) \/ Fail(c) \/ Return(c)

Spec == Init /\ [][Next]_vars
====

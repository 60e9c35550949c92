---- MODULE MCTxLoop ----
(***************************************************************************)
(* An instance of TxLoop: two goroutines and the operations below, with    *)
(* the statements that module Statements gives them.                       *)
(***************************************************************************)
EXTENDS TxLoop, Statements, TLC

CONSTANTS Reader, Writer

MCClients == {Reader, Writer}
MCMayCall ==
    (Reader :> {"DiscussionIterate", "DiscussionFindByIdFull", "Exchange"}) @@
    (Writer :> {"DeleteDiscussion", "DiscussionSetPublic"})
MCOps == UNION {MCMayCall[c] : c \in MCClients}

\* Every operation, not only the ones of this instance, has statements that TxLoop covers.
ASSUME EventBodyFits == \A op \in EventOps : Fits(EventBody[op])

MCBody == [op \in Ops |-> EventBody[op]]
MCLoop == [op \in Ops |-> EventLoop[op]]

\* The tables that these operations use.
MCTables == UNION {UNION {EventBody[op][i].reads \cup EventBody[op][i].writes :
                             i \in DOMAIN EventBody[op]} : op \in Ops}
MCFiles == {f \cap MCTables : f \in AllFiles}

\* A writer changes what it has seen.
MCOutcome(op, t, v) == IF v[t] = 0 THEN 1 ELSE 0

\* MCOutcome treats the two values alike, so one initial content stands for all.
MCInit == Init /\ db = [t \in Tables |-> 0]
MCSpec == MCInit /\ [][Next]_vars /\ Fairness
====

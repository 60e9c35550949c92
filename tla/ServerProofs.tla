---- MODULE ServerProofs ----
(***************************************************************************)
(* Proofs about Server, for any number of processes, requests and          *)
(* addresses: types, no request on closed databases, and the serve lock.   *)
(***************************************************************************)
EXTENDS Server, TLAPS

\* A process that waited for the lock or would have quit without it has it, until its lock file
\* is collected.
LockInv == \A p \in Procs : PastLock(p) /\ p \notin collected => servelock = p

ServerInv == ServerTypeOK /\ NoRequestOnClosed /\ LockInv

LEMMA OffIsStarting == Off \in Starting
BY DEF Off, Starting

LEMMA DieKeepsTypes ==
    ASSUME ServerTypeOK, NEW p \in Procs, Die(p), UNCHANGED admin,
           config' \in [method : Methods \cup {"unset"}, addr : Addresses \cup {NoAddress}]
    PROVE  ServerTypeOK'
BY OffIsStarting DEF ServerTypeOK, Die

LEMMA DieKeepsLocks ==
    ASSUME ServerInv, NEW p \in Procs, Die(p)
    PROVE  NoRequestOnClosed' /\ LockInv'
<1>1. /\ proc' = [proc EXCEPT ![p] = Off]
      /\ servelock' = IF servelock = p THEN NoProc ELSE servelock
      /\ collected' = collected \ {p}
      /\ req' = [r \in Requests |-> IF req[r].at = p THEN NoRequest ELSE req[r]]
    BY DEF Die
<1>2. proc \in [Procs -> Starting \cup Started]
    BY DEF ServerInv, ServerTypeOK
<1>3. NoRequestOnClosed'
    <2> SUFFICES ASSUME NEW q \in Procs, proc'[q].sig \in {"locked", "closed"},
                        NEW r \in Requests, req'[r] = [at |-> q, stage |-> "inside"]
                 PROVE  FALSE
        BY DEF NoRequestOnClosed, Inside
    <2>1. q # p
        BY <1>1, <1>2 DEF Off
    <2>2. proc'[q] = proc[q]
        BY <1>1, <1>2, <2>1
    <2>3. req[r] = [at |-> q, stage |-> "inside"]
        BY <1>1, ServerAssumption DEF NoRequest
    <2> QED
        BY <2>2, <2>3 DEF ServerInv, NoRequestOnClosed, Inside
<1>4. LockInv'
    <2> SUFFICES ASSUME NEW q \in Procs, PastLock(q)', q \notin collected'
                 PROVE  servelock' = q
        BY DEF LockInv
    <2>1. q # p
        BY <1>1, <1>2 DEF Off, PastLock
    <2>2. proc'[q] = proc[q]
        BY <1>1, <1>2, <2>1
    <2> QED
        BY <1>1, <2>1, <2>2 DEF ServerInv, LockInv, PastLock
<1> QED
    BY <1>3, <1>4

\* A step that changes, of the processes, one record, and no lock and no request.
LEMMA OneProc ==
    ASSUME ServerInv, NEW p \in Procs, NEW x \in Starting \cup Started,
           proc' = [proc EXCEPT ![p] = x],
           UNCHANGED <<admin, servelock, collected, req>>,
           config' \in [method : Methods \cup {"unset"}, addr : Addresses \cup {NoAddress}],
           x.sig \in {"locked", "closed"} => proc[p].sig \in {"locked", "closed"} \/ Inside(p) = {},
           x.stage \in {"ready", "serving"} /\ x.method \in {"quit", "wait"} => PastLock(p)
    PROVE  ServerInv'
<1>1. ServerTypeOK'
    BY DEF ServerInv, ServerTypeOK
<1>2. NoRequestOnClosed'
    BY DEF ServerInv, ServerTypeOK, NoRequestOnClosed, Inside
<1>3. LockInv'
    BY DEF ServerInv, ServerTypeOK, LockInv, PastLock
<1> QED
    BY <1>1, <1>2, <1>3 DEF ServerInv

\* A step that changes one request, into one that is not inside, or is where none of the
\* databases is closed.
LEMMA OneRequest ==
    ASSUME ServerInv, NEW r \in Requests,
           NEW x \in [at : Procs, stage : {"arrived", "inside"}] \cup {NoRequest},
           req' = [req EXCEPT ![r] = x],
           UNCHANGED <<proc, config, admin, servelock, collected>>,
           x.stage = "inside" => proc[x.at].sig = "no"
    PROVE  ServerInv'
<1>1. ServerTypeOK'
    BY DEF ServerInv, ServerTypeOK
<1>2. NoRequestOnClosed'
    <2> SUFFICES ASSUME NEW p \in Procs, proc[p].sig \in {"locked", "closed"},
                        NEW q \in Requests, req'[q] = [at |-> p, stage |-> "inside"]
                 PROVE  FALSE
        BY DEF NoRequestOnClosed, Inside
    <2>1. CASE q = r
        <3>1. x = [at |-> p, stage |-> "inside"]
            BY <2>1 DEF ServerInv, ServerTypeOK
        <3> QED
            BY <3>1
    <2>2. CASE q # r
        BY <2>2 DEF ServerInv, ServerTypeOK, NoRequestOnClosed, Inside
    <2> QED
        BY <2>1, <2>2
<1>3. LockInv'
    BY DEF ServerInv, LockInv, PastLock
<1> QED
    BY <1>1, <1>2, <1>3 DEF ServerInv

LEMMA ProcNext ==
    ASSUME ServerInv, NEW p \in Procs,
           Start(p) \/ Kill(p) \/ ProcStep(p) \/ Collect(p) \/ Signal(p) \/ SigStep(p)
    PROVE  ServerInv'
<1> USE DEF Goes
<1>0. /\ ServerTypeOK
      /\ proc \in [Procs -> Starting \cup Started]
      /\ proc[p] \in Starting \cup Started
      /\ config \in [method : Methods \cup {"unset"}, addr : Addresses \cup {NoAddress}]
    BY DEF ServerInv, ServerTypeOK
<1>die. ASSUME Die(p), UNCHANGED admin,
               config' \in [method : Methods \cup {"unset"}, addr : Addresses \cup {NoAddress}]
        PROVE  ServerInv'
    BY <1>0, <1>die, DieKeepsTypes, DieKeepsLocks DEF ServerInv
<1>1. CASE Start(p)
    <2>1. config' \in [method : Methods \cup {"unset"}, addr : Addresses \cup {NoAddress}]
        BY <1>0, <1>1 DEF Start
    <2>2. [proc[p] EXCEPT !.stage = "loading"] \in Starting
        BY <1>0, <1>1 DEF Start, Starting, Started
    <2>3. proc' = [proc EXCEPT ![p] = [proc[p] EXCEPT !.stage = "loading"]]
        BY <1>0, <1>1 DEF Start
    <2> QED
        BY <1>1, <2>1, <2>2, <2>3, OneProc DEF Start, Starting
<1>2. CASE Kill(p)
    BY <1>0, <1>2, <1>die DEF Kill
<1>3. CASE FindAdmin(p)
    <2> DEFINE x == [proc[p] EXCEPT !.stage = IF admin THEN "loaded" ELSE "creating"]
    <2>1. x \in Starting
        BY <1>0, <1>3 DEF FindAdmin, Starting, Started
    <2>2. proc' = [proc EXCEPT ![p] = x]
        BY <1>0, <1>3 DEF FindAdmin
    <2> QED
        BY <1>0, <1>3, <2>1, <2>2, OneProc DEF FindAdmin, Starting
<1>4. CASE CreateAdmin(p)
    <2>1. CASE admin
        BY <1>0, <1>4, <1>die, <2>1 DEF CreateAdmin
    <2>2. CASE ~admin
        <3> DEFINE x == [proc[p] EXCEPT !.stage = "loaded"]
        <3>1. x \in Starting
            BY <1>0, <1>4 DEF CreateAdmin, Starting, Started
        <3>2. /\ proc' = [proc EXCEPT ![p] = x]
              /\ admin' = TRUE
              /\ UNCHANGED <<config, servelock, collected, req>>
            BY <1>0, <1>4, <2>2 DEF CreateAdmin
        <3>3. ServerTypeOK'
            BY <1>0, <3>1, <3>2 DEF ServerTypeOK
        <3>4. NoRequestOnClosed'
            BY <1>0, <3>1, <3>2 DEF ServerInv, NoRequestOnClosed, Inside, Starting
        <3>5. LockInv'
            BY <1>0, <3>1, <3>2 DEF ServerInv, LockInv, PastLock, Starting
        <3> QED
            BY <3>3, <3>4, <3>5 DEF ServerInv
    <2> QED
        BY <2>1, <2>2
<1>5. CASE GetMethod(p)
    <2> DEFINE mm == IF config.method = "unset" THEN "quit" ELSE config.method
               x == [proc[p] EXCEPT !.method = mm,
                                    !.stage = IF mm = "none" THEN "ready" ELSE "locking"]
    <2>1. mm \in Methods
        BY <1>0 DEF Methods
    <2>2. proc[p] \in Starting
        BY <1>0, <1>5 DEF GetMethod, Started
    <2>3. x \in Started /\ x.sig = "no" /\ x.method = mm
          /\ x.stage = (IF mm = "none" THEN "ready" ELSE "locking")
        BY <2>1, <2>2 DEF Starting, Started
    <2>4. proc' = [proc EXCEPT ![p] = x]
        BY <1>0, <1>5 DEF GetMethod
    <2> HIDE DEF x
    <2> QED
        BY <1>0, <1>5, <2>3, <2>4, OneProc DEF GetMethod
<1>6. CASE TakeLock(p)
    <2> DEFINE x == [proc[p] EXCEPT !.stage = "ready"]
    <2>1. x \in Started /\ x.sig = proc[p].sig /\ x.method = proc[p].method /\ x.stage = "ready"
        BY <1>0, <1>6 DEF TakeLock, Starting, Started
    <2>2. CASE /\ servelock = NoProc
               /\ servelock' = p
               /\ Goes(p, "ready")
               /\ UNCHANGED <<config, admin, collected, req>>
        <3>1. proc' = [proc EXCEPT ![p] = x]
            BY <1>0, <2>2
        <3>2. ServerTypeOK'
            BY <1>0, <2>1, <2>2, <3>1 DEF ServerTypeOK
        <3>3. NoRequestOnClosed'
            BY <1>0, <2>1, <2>2, <3>1 DEF ServerInv, NoRequestOnClosed, Inside
        <3>4. \A q \in Procs : PastLock(q) => q \in collected
            BY <2>2, ServerAssumption DEF ServerInv, LockInv
        <3>5. LockInv'
            BY <1>0, <2>1, <2>2, <3>1, <3>4 DEF LockInv, PastLock
        <3> QED
            BY <3>2, <3>3, <3>5 DEF ServerInv
    <2>3. CASE /\ proc[p].method = "error"
               /\ Goes(p, "ready")
               /\ UNCHANGED <<config, admin, servelock, collected, req>>
        <3>1. proc' = [proc EXCEPT ![p] = x]
            BY <1>0, <2>3
        <3> QED
            BY <1>0, <2>1, <2>3, <3>1, OneProc
    <2>4. CASE Die(p) /\ UNCHANGED <<config, admin>>
        BY <1>0, <1>die, <2>4
    <2> QED
        BY <1>6, <2>2, <2>3, <2>4 DEF TakeLock
<1>7. CASE Listen(p)
    <2>1. PICK a \in Addresses :
          /\ config' = IF proc[p].sig = "closed" THEN config ELSE [config EXCEPT !.addr = a]
          /\ IF proc[p].sig = "closed" \/ \E q \in Procs : proc[q].addr = a
             THEN Die(p)
             ELSE /\ proc' = [proc EXCEPT ![p] = [@ EXCEPT !.stage = "serving", !.addr = a]]
                  /\ UNCHANGED <<servelock, collected, req>>
        BY <1>7 DEF Listen
    <2>2. config' \in [method : Methods \cup {"unset"}, addr : Addresses \cup {NoAddress}]
        BY <1>0, <2>1
    <2>3. proc[p].stage = "ready" /\ UNCHANGED admin
        BY <1>7 DEF Listen
    <2>4. CASE Die(p)
        BY <1>die, <2>2, <2>3, <2>4
    <2>5. CASE /\ proc' = [proc EXCEPT ![p] = [@ EXCEPT !.stage = "serving", !.addr = a]]
               /\ UNCHANGED <<servelock, collected, req>>
        <3> DEFINE x == [proc[p] EXCEPT !.stage = "serving", !.addr = a]
        <3>1. x \in Started /\ x.sig = proc[p].sig /\ x.method = proc[p].method
            BY <1>0, <2>3 DEF Starting, Started
        <3>2. proc' = [proc EXCEPT ![p] = x]
            BY <1>0, <2>5
        <3> HIDE DEF x
        <3> QED
            BY <2>2, <2>3, <2>5, <3>1, <3>2, OneProc DEF PastLock
    <2> QED
        BY <2>1, <2>4, <2>5
<1>8. CASE Collect(p)
    BY <1>8 DEF Collect, ServerInv, ServerTypeOK, NoRequestOnClosed, Inside, LockInv, PastLock
<1>9. CASE Signal(p)
    <2> DEFINE x == [proc[p] EXCEPT !.sig = "got"]
    <2>1. x \in Started /\ x.stage = proc[p].stage /\ x.method = proc[p].method /\ x.sig = "got"
        BY <1>0, <1>9 DEF Signal, Starting, Started
    <2>2. proc' = [proc EXCEPT ![p] = x]
        BY <1>0, <1>9 DEF Signal
    <2> HIDE DEF x
    <2> QED
        BY <1>0, <1>9, <2>1, <2>2, OneProc DEF Signal, PastLock
<1>10. CASE Lock(p)
    <2> DEFINE x == [proc[p] EXCEPT !.sig = "locked"]
    <2>1. x \in Started /\ x.stage = proc[p].stage /\ x.method = proc[p].method /\ x.sig = "locked"
        BY <1>0, <1>10 DEF Lock, Starting, Started
    <2>2. proc' = [proc EXCEPT ![p] = x]
        BY <1>0, <1>10 DEF Lock
    <2> HIDE DEF x
    <2> QED
        BY <1>0, <1>10, <2>1, <2>2, OneProc DEF Lock, PastLock
<1>11. CASE Close(p)
    <2> DEFINE x == [proc[p] EXCEPT !.sig = "closed"]
    <2>1. x \in Started /\ x.stage = proc[p].stage /\ x.method = proc[p].method
        BY <1>0, <1>11 DEF Close, Starting, Started
    <2>2. proc' = [proc EXCEPT ![p] = x]
        BY <1>0, <1>11 DEF Close
    <2> HIDE DEF x
    <2> QED
        BY <1>0, <1>11, <2>1, <2>2, OneProc DEF Close, PastLock
<1>12. CASE Exit(p)
    BY <1>0, <1>12, <1>die DEF Exit
<1> QED
    BY <1>1, <1>2, <1>3, <1>4, <1>5, <1>6, <1>7, <1>8, <1>9, <1>10, <1>11, <1>12
       DEF ProcStep, SigStep

LEMMA RequestNext ==
    ASSUME ServerInv, NEW r \in Requests,
           Arrive(r) \/ RLock(r) \/ Finish(r) \/ HandlerFatal(r)
    PROVE  ServerInv'
<1>0. /\ ServerTypeOK
      /\ req \in [Requests -> [at : Procs, stage : {"arrived", "inside"}] \cup {NoRequest}]
      /\ req[r] \in [at : Procs, stage : {"arrived", "inside"}] \cup {NoRequest}
    BY DEF ServerInv, ServerTypeOK
<1>1. CASE Arrive(r)
    BY <1>0, <1>1, OneRequest DEF Arrive
<1>2. CASE RLock(r)
    <2> DEFINE x == [req[r] EXCEPT !.stage = "inside"]
    <2>1. /\ x \in [at : Procs, stage : {"arrived", "inside"}]
          /\ x.at = req[r].at
        BY <1>0, <1>2 DEF RLock, NoRequest
    <2>2. req' = [req EXCEPT ![r] = x]
        BY <1>0, <1>2 DEF RLock
    <2> HIDE DEF x
    <2> QED
        BY <1>2, <2>1, <2>2, OneRequest DEF RLock
<1>3. CASE Finish(r)
    BY <1>0, <1>3, OneRequest DEF Finish, NoRequest
<1>4. CASE HandlerFatal(r)
    <2>1. req[r].at \in Procs
        BY <1>0, <1>4 DEF HandlerFatal, NoRequest
    <2>2. Die(req[r].at) /\ UNCHANGED <<config, admin>>
        BY <1>4 DEF HandlerFatal
    <2> QED
        BY <1>0, <2>1, <2>2, DieKeepsTypes, DieKeepsLocks DEF ServerInv, ServerTypeOK
<1> QED
    BY <1>1, <1>2, <1>3, <1>4

LEMMA ServerInvariant == ServerSpec => []ServerInv
<1>1. ServerInit => ServerInv
    <2> SUFFICES ASSUME ServerInit PROVE ServerInv
        OBVIOUS
    <2>1. ServerTypeOK
        BY OffIsStarting DEF ServerInit, ServerTypeOK
    <2>2. NoRequestOnClosed
        BY DEF ServerInit, NoRequestOnClosed, Off
    <2>3. LockInv
        BY DEF ServerInit, LockInv, PastLock, Off
    <2> QED
        BY <2>1, <2>2, <2>3 DEF ServerInv
<1>2. ServerInv /\ [ServerNext]_serverVars => ServerInv'
    <2> SUFFICES ASSUME ServerInv, [ServerNext]_serverVars PROVE ServerInv'
        OBVIOUS
    <2>1. CASE UNCHANGED serverVars
        BY <2>1 DEF serverVars, ServerInv, ServerTypeOK, NoRequestOnClosed, Inside, LockInv, PastLock
    <2>2. CASE ServerNext
        BY <2>2, ProcNext, RequestNext DEF ServerNext
    <2> QED
        BY <2>1, <2>2
<1> QED
    BY <1>1, <1>2, PTL DEF ServerSpec

\* Every step of a server process, of its signal handler and of its requests keeps the types.
THEOREM ServerTypesHold == ServerSpec => []ServerTypeOK
<1>1. ServerInv => ServerTypeOK
    BY DEF ServerInv
<1> QED
    BY <1>1, ServerInvariant, PTL

\* However many requests there are, none is being handled once the shutdown has lock.Lock().
THEOREM NoRequestOnClosedHolds == ServerSpec => []NoRequestOnClosed
<1>1. ServerInv => NoRequestOnClosed
    BY DEF ServerInv
<1> QED
    BY <1>1, ServerInvariant, PTL

\* However many processes are started, with whatever methods: of those that lock with quit or
\* wait only one runs, unless the garbage collector closed a lock file.
THEOREM LockExcludesHolds == ServerSpec => []LockExcludes
<1>1. ServerInv => LockExcludes
    BY DEF ServerInv, LockInv, LockExcludes
<1> QED
    BY <1>1, ServerInvariant, PTL
====

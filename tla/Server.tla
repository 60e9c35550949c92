---- MODULE Server ----
(***************************************************************************)
(* Processes of the program on one data directory: how a server starts     *)
(* (flags, event.Load, handleServeLock, ListenAndServe), the read lock     *)
(* around every request, and how it stops: by a signal, by log.Fatal, or   *)
(* killed at any moment. What the requests do is in WebHandlers and        *)
(* Sessions.                                                               *)
(***************************************************************************)
EXTENDS Naturals

CONSTANTS Procs, Requests, Addresses, NoProc

Methods == {"none", "quit", "error", "wait"}
NoAddress == "no address"

ASSUME ServerAssumption == NoProc \notin Procs /\ NoAddress \notin Addresses

VARIABLES
    proc,      \* per process: how far it has come, what its signal handler does, the locking
               \* method that it read, the address that it listens on
    config,    \* the key-value store: ServeLockMethod and ServeAddress
    admin,     \* whether the admin account exists
    servelock, \* the process that has data/serve.lock locked
    collected, \* processes whose lock file the garbage collector has closed
    req        \* requests: the process they were sent to, and where they are

serverVars == <<proc, config, admin, servelock, collected, req>>

Off == [stage |-> "off", sig |-> "no", method |-> "unset", addr |-> NoAddress]
NoRequest == [at |-> NoProc, stage |-> "none"]

Starting == [stage : {"off", "loading", "creating", "loaded"}, sig : {"no"},
             method : {"unset"}, addr : {NoAddress}]
Started == [stage : {"locking", "ready", "serving"}, sig : {"no", "got", "locked", "closed"},
            method : Methods, addr : Addresses \cup {NoAddress}]

\* The type invariant; a process knows its locking method before it tries to lock.
ServerTypeOK ==
    /\ proc \in [Procs -> Starting \cup Started]
    /\ config \in [method : Methods \cup {"unset"}, addr : Addresses \cup {NoAddress}]
    /\ admin \in BOOLEAN
    /\ servelock \in Procs \cup {NoProc}
    /\ collected \subseteq Procs
    /\ req \in [Requests -> [at : Procs, stage : {"arrived", "inside"}] \cup {NoRequest}]

ServerInit ==
    /\ proc = [p \in Procs |-> Off]
    /\ config = [method |-> "unset", addr |-> NoAddress]
    /\ admin = FALSE
    /\ servelock = NoProc
    /\ collected = {}
    /\ req = [r \in Requests |-> NoRequest]

Goes(p, stage) == proc' = [proc EXCEPT ![p].stage = stage]

\* main: the flags that are given are stored before anything else happens.
Start(p) == \E m \in Methods \cup {"unset"}, a \in Addresses \cup {NoAddress} :
    /\ proc[p].stage = "off"
    /\ Goes(p, "loading")
    /\ config' = [method |-> IF m = "unset" THEN config.method ELSE m,
                  addr |-> IF a = NoAddress THEN config.addr ELSE a]
    /\ UNCHANGED <<admin, servelock, collected, req>>

\* Mutant: the lock is a file that has to be removed.
DieLocked(p) ==
    /\ proc' = [proc EXCEPT ![p] = Off]
    /\ collected' = collected \ {p}
    /\ req' = [r \in Requests |-> IF req[r].at = p THEN NoRequest ELSE req[r]]
    /\ UNCHANGED servelock

\* The process is gone: the kernel closes its files, and its requests get no answer.
Die(p) ==
    /\ proc' = [proc EXCEPT ![p] = Off]
    /\ servelock' = IF servelock = p THEN NoProc ELSE servelock
    /\ collected' = collected \ {p}
    /\ req' = [r \in Requests |-> IF req[r].at = p THEN NoRequest ELSE req[r]]

Kill(p) ==
    /\ proc[p].stage # "off"
    /\ Die(p)
    /\ UNCHANGED <<config, admin>>

\* handleAdminPwd looks for the admin account, and creates it when there is none.
FindAdmin(p) ==
    /\ proc[p].stage = "loading"
    /\ Goes(p, IF admin THEN "loaded" ELSE "creating")
    /\ UNCHANGED <<config, admin, servelock, collected, req>>

\* The name is unique: a process that another one was faster than ends with log.Fatalf.
CreateAdmin(p) ==
    /\ proc[p].stage = "creating"
    /\ IF admin THEN Die(p) /\ UNCHANGED <<config, admin>>
       ELSE /\ admin' = TRUE
            /\ Goes(p, "loaded")
            /\ UNCHANGED <<config, servelock, collected, req>>

\* Mutant: there is no default.
GetMethodStored(p) ==
    /\ proc[p].stage = "loaded"
    /\ proc' = [proc EXCEPT ![p] = [@ EXCEPT !.method = config.method, !.stage = "locking"]]
    /\ UNCHANGED <<config, admin, servelock, collected, req>>

\* handleServeLock reads the locking method, which is "quit" when none was ever given.
GetMethod(p) ==
    /\ proc[p].stage = "loaded"
    /\ LET m == IF config.method = "unset" THEN "quit" ELSE config.method IN
       proc' = [proc EXCEPT ![p] = [@ EXCEPT !.method = m,
                                             !.stage = IF m = "none" THEN "ready" ELSE "locking"]]
    /\ UNCHANGED <<config, admin, servelock, collected, req>>

\* Mutant: quit goes on like error.
TakeLockAnyway(p) ==
    /\ proc[p].stage = "locking"
    /\ servelock = NoProc \/ proc[p].method \in {"quit", "error"}
    /\ servelock' = IF servelock = NoProc THEN p ELSE servelock
    /\ Goes(p, "ready")
    /\ UNCHANGED <<config, admin, collected, req>>

\* With the file locked by another process, quit exits, error logs it and goes on, wait waits.
TakeLock(p) ==
    /\ proc[p].stage = "locking"
    /\ \/ /\ servelock = NoProc
          /\ servelock' = p
          /\ Goes(p, "ready")
          /\ UNCHANGED <<config, admin, collected, req>>
       \/ /\ servelock # NoProc
          /\ proc[p].method = "error"
          /\ Goes(p, "ready")
          /\ UNCHANGED <<config, admin, servelock, collected, req>>
       \/ /\ servelock # NoProc
          /\ proc[p].method = "quit"
          /\ Die(p)
          /\ UNCHANGED <<config, admin>>

\* servelock is a local variable: once handleServeLock has returned, the garbage collector may
\* finalize its file, which closes it and so unlocks it.
Collect(p) ==
    /\ servelock = p
    /\ proc[p].stage \in {"ready", "serving"}
    /\ servelock' = NoProc
    /\ collected' = collected \cup {p}
    /\ UNCHANGED <<proc, config, admin, req>>

\* serve reads the address, makes one up when there is none, and listens; an address that is in
\* use is fatal, and so is a key-value store that the signal handler has closed.
Listen(p) ==
    /\ proc[p].stage = "ready"
    /\ \E a \in Addresses :
          /\ config.addr \in {a, NoAddress}
          /\ config' = IF proc[p].sig = "closed" THEN config ELSE [config EXCEPT !.addr = a]
          /\ IF proc[p].sig = "closed" \/ \E q \in Procs : proc[q].addr = a
             THEN Die(p)
             ELSE /\ proc' = [proc EXCEPT ![p] = [@ EXCEPT !.stage = "serving", !.addr = a]]
                  /\ UNCHANGED <<servelock, collected, req>>
    /\ UNCHANGED admin

\* A signal, once handleSigs is waiting for one.
Signal(p) ==
    /\ proc[p].stage \in {"ready", "serving"}
    /\ proc[p].sig = "no"
    /\ proc' = [proc EXCEPT ![p].sig = "got"]
    /\ UNCHANGED <<config, admin, servelock, collected, req>>

Inside(p) == {r \in Requests : req[r] = [at |-> p, stage |-> "inside"]}

\* Mutant: the shutdown does not wait.
LockAtOnce(p) ==
    /\ proc[p].sig = "got"
    /\ proc' = [proc EXCEPT ![p].sig = "locked"]
    /\ UNCHANGED <<config, admin, servelock, collected, req>>

\* lock.Lock() returns when no request has the read lock.
Lock(p) ==
    /\ proc[p].sig = "got"
    /\ Inside(p) = {}
    /\ proc' = [proc EXCEPT ![p].sig = "locked"]
    /\ UNCHANGED <<config, admin, servelock, collected, req>>

\* event.Close, kvs.Close, sessions.CloseSessionStore.
Close(p) ==
    /\ proc[p].sig = "locked"
    /\ proc' = [proc EXCEPT ![p].sig = "closed"]
    /\ UNCHANGED <<config, admin, servelock, collected, req>>

Exit(p) ==
    /\ proc[p].sig = "closed"
    /\ Die(p)
    /\ UNCHANGED <<config, admin>>

\* A request is accepted.
Arrive(r) == \E p \in Procs :
    /\ req[r] = NoRequest
    /\ proc[p].stage = "serving"
    /\ req' = [req EXCEPT ![r] = [at |-> p, stage |-> "arrived"]]
    /\ UNCHANGED <<proc, config, admin, servelock, collected>>

\* Mutant: readers do not wait for a writer that waits.
RLockFirst(r) ==
    /\ req[r].stage = "arrived"
    /\ proc[req[r].at].sig \in {"no", "got"}
    /\ req' = [req EXCEPT ![r].stage = "inside"]
    /\ UNCHANGED <<proc, config, admin, servelock, collected>>

\* ServeHTTP takes the read lock, for which it waits once the shutdown has asked for the lock.
RLock(r) ==
    /\ req[r].stage = "arrived"
    /\ proc[req[r].at].sig = "no"
    /\ req' = [req EXCEPT ![r].stage = "inside"]
    /\ UNCHANGED <<proc, config, admin, servelock, collected>>

\* The handler returns; the deferred RUnlock is executed.
Finish(r) ==
    /\ req[r].stage = "inside"
    /\ req' = [req EXCEPT ![r] = NoRequest]
    /\ UNCHANGED <<proc, config, admin, servelock, collected>>

\* MakeSchedule, called by runschedule, ends the program with log.Fatalf when it cannot read the
\* search algorithm, as when another request is changing a flag.
HandlerFatal(r) ==
    /\ req[r].stage = "inside"
    /\ Die(req[r].at)
    /\ UNCHANGED <<config, admin>>

ProcStep(p) == FindAdmin(p) \/ CreateAdmin(p) \/ GetMethod(p) \/ TakeLock(p) \/ Listen(p)
SigStep(p) == Lock(p) \/ Close(p) \/ Exit(p)

ServerNext ==
    \/ \E p \in Procs : \/ Start(p) \/ Kill(p) \/ ProcStep(p) \/ Collect(p)
                        \/ Signal(p) \/ SigStep(p)
    \/ \E r \in Requests : Arrive(r) \/ RLock(r) \/ Finish(r) \/ HandlerFatal(r)

\* Processes go on with what they have begun. Nobody has to start, signal or ask anything, and a
\* handler need not come to its end: the HTTP server has no timeouts, and the loops around single
\* statements no limit.
ServerFairness ==
    \A p \in Procs : WF_serverVars(ProcStep(p)) /\ WF_serverVars(SigStep(p))

ServerSpec == ServerInit /\ [][ServerNext]_serverVars /\ ServerFairness
-----------------------------------------------------------------------------
\* No request is being handled when the shutdown closes the databases under it, or after.
NoRequestOnClosed == \A p \in Procs : proc[p].sig \in {"locked", "closed"} => Inside(p) = {}

PastLock(p) == proc[p].stage \in {"ready", "serving"} /\ proc[p].method \in {"quit", "wait"}

\* Two servers with locking methods quit or wait do not run at the same time, unless the lock
\* of one of them has been garbage collected: handleServeLock lets nobody else past.
LockExcludes == \A p, q \in Procs :
    PastLock(p) /\ PastLock(q) /\ p # q => p \in collected \/ q \in collected

HandlersEnd == \A r \in Requests : []<>(req[r].stage # "inside")

\* If no handler stays inside for ever, a server that got a signal ends: requests that go on
\* arriving, one always inside before the last one leaves, cannot delay lock.Lock() for ever, and
\* every handler that ends, also one that panics, has given its read lock back.
ShutdownCompletes == HandlersEnd => \A p \in Procs : proc[p].sig = "got" ~> proc[p].stage = "off"

\* A server that waits for the lock gets it once the others have ended, however they ended:
\* nothing that a process leaves behind keeps the next one from starting.
WaitTakesOver == \A p \in Procs :
    <>[](\A q \in Procs \ {p} : proc[q].stage = "off") => []<>(proc[p].stage # "locking")
====

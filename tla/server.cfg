CONSTANTS
  Procs = {p1, p2}
  Requests = {r1, r2}
  Addresses = {a1, a2}
  NoProc = NoProc
SPECIFICATION ServerSpec
INVARIANTS ServerTypeOK NoRequestOnClosed LockExcludes
PROPERTIES ShutdownCompletes WaitTakesOver

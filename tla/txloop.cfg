CONSTANTS
  Reader = Reader
  Writer = Writer
  Clients <- MCClients
  MayCall <- MCMayCall
  Ops <- MCOps
  Tables <- MCTables
  Files <- MCFiles
  Values = {0, 1}
  Body <- MCBody
  Loop <- MCLoop
  Unchecked <- EventUnchecked
  Outcome <- MCOutcome
  minTxRetries = 1
  NoCall = NoCall
  NoValue = NoValue
SPECIFICATION MCSpec
INVARIANTS TypeOK NoTornRead
PROPERTIES ImplementsAtomic CallbackOnce CallReturns StatementReturns

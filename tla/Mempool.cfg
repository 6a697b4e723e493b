SPECIFICATION Spec
CONSTANTS
  Txs <- MCTxs
  AccountSlots = 1
  GlobalSlots = 2
  AccountQueue = 1
  GlobalQueue = 1
  PriceBump = 10
  NilState = NilState
  Balances = {1, 3}
  Loads <- MCLoads
INVARIANTS
  TypeOK
  ListsMatchLookup
  PendingExecutable
  ReservedExactly
  QueuesHaveHeartbeat
  PricedCoversAll
  PoolWithinLimit
  PendingAnnounced
  NextNotLeftQueued
PROPERTIES
  CatchesUp
CHECK_DEADLOCK FALSE

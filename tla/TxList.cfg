SPECIFICATION Spec
CONSTANTS
  Txs <- MCTxs
  MaxNonce = 4
  PriceBump = 10
  Limits = {0, 1, 2, 3}
  NoTx = NoTx
  NoCache = NoCache
INVARIANTS
  ListConsistent
  CacheSorted
PROPERTIES
  ImplementsAccountList

SPECIFICATION Spec
CONSTANTS
  tokenKey <- MCtokenKey
  Transactions <- MCTransactions
  Anchors <- MCAnchors
  Headers <- MCHeaders
  Objects <- MCObjects
  Keys <- MCKeys
  Operator <- MCOperator
  ChainKey = "alice"
  Owners <- MCOwners
  Chunks <- MCChunks
  Loads <- MCLoads
  MaxHops = 2
  MaxBlock = 1
  NamedChunk <- MCNamedChunk
  Requests <- MCRequests
  MaxCalls = 3
CHECK_DEADLOCK FALSE
INVARIANTS SameObject DraftConsistent   CloudConsistent

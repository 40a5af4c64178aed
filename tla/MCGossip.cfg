SPECIFICATION FairSpec
CONSTANTS
    Peers = {"p", "q"}
    Txs <- MCTxs
    Anchors <- MCAnchors
    Blocks <- MCBlocks
    Covers <- MCCovers
    Messages <- MCMessages
    maxKnown <- MCKnown
    maxPeers = 1
    txChanSize = 1
    MaxSessions <- MCSessions
    MaxMessages = 2
CHECK_DEADLOCK FALSE
INVARIANTS SentOnce
PROPERTIES StopReturns Relayed

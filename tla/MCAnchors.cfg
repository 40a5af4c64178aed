SPECIFICATION Spec
CONSTANTS
    bitsPerPiece = 2
    keyPieces = 3
    Chains = {4, 8}
    AnchorTxs <- MCAnchorTxs
    Other = "other"
    MaxSends = 4
    MaxBlk = 3
    MaxFails = 1
CHECK_DEADLOCK FALSE
INVARIANTS  RootsMatch TrieReads

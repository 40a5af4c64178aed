\* Two mints at a time, a failing write, a change of leader.
SPECIFICATION FairSpec
CONSTANTS
    Txs = {"t1", "t2"}
    Bad = {"t2"}
    MaxMints = 2
    localOnly = TRUE
    MaxLag = 1
    MaxTerms = 1
    MaxFails = 1
CHECK_DEADLOCK FALSE
INVARIANTS FlagOwned 
PROPERTIES PoolMinted RoleSettles

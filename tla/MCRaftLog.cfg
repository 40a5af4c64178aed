SPECIFICATION Spec
CONSTANTS
    Nodes <- MCNodes
    Bootstrap <- MCBootstrap
    Home <- MCHome
    Hosts = {"h2"}
    snapshotPeriod = 2
    MaxLog = 4
    MaxCalls = 2
    MaxCrash = 1
CHECK_DEADLOCK FALSE
INVARIANTS MembershipFollowsLog SnapshotsIdentical AppliedBlocksStored

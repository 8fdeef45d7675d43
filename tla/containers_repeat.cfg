CONSTANTS
    o1 = o1
    o2 = o2
    o3 = o3
    x = x
    y = y
    oa = oa
    ob = ob
    oc = oc
    s1 = s1
    s2 = s2
    b1 = b1
    b2 = b2
    Packs <- MCPacks
    Raw <- MCRaw
    InRepository = {x}
    MaxPackBytes = 5
    MaxDeltaDepth = 2
    MaxIncomingDepth = 3
    BodyMemLimit = 3
    BodyMemBudget = 4
    CompressionFloor = 2
    MinGainBytes = 1
    Storer = {s1, s2}
    Obj = {oa, ob, oc}
    Whole = Whole
    Empty = {}
    Stored <- MCStored
    Plans <- MCPlans
    Builder = {b1, b2}
    MaxTables = 2
    MaxLinks = 3
    LockCall <- MCLockCall
    Fold <- MCFold
    MaxLocksPerRepo = 1
    LockCASRetries = 2
    Parents <- MCParents
    TreeHash <- MCTreeHash
    Entries <- MCEntries
    OtherTarget = {"tag"}
    PushCall <- MCPushCall
    SetCall <- MCSetCall
    AllowHooks = TRUE
    Snapshots = TRUE
    MaxAttempts = 2
    Request <- MCRequest
    Authorizers <- MCAuthorizers
    FsKey <- MCFsKey
    FsCall <- MCFsCall
    FsRoots <- MCFsRoots
    MaxSubtreeKeys = 1
SPECIFICATION Services
CHECK_DEADLOCK FALSE
INVARIANT EveryContainerReadable

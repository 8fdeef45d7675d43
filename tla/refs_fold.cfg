CONSTANTS
    Storer = {s1, s2, s3}
    main = main
    tag = tag
    v0 = v0
    v1 = v1
    v2 = v2
    Name = {main, tag}
    Value = {v0, v1, v2}
    Absent = Absent
    Keep = Keep
    Any = Any
    NoObject = NoObject
    MaxRetries = 2
    MaxCalls = 1
    KeyErrors = TRUE
    PackedWriters = {s1, s2}
    Packers = {s2}
    Batches <- FoldBatches
    InitPacked <- StaleTag
    InitLoose <- LooseTag
SPECIFICATION Spec
CHECK_DEADLOCK FALSE
INVARIANT BystanderKept

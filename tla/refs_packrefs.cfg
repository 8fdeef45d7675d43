CONSTANTS
    Storer = {s1, s2}
    main = main
    tag = tag
    v0 = v0
    v1 = v1
    v2 = v2
    Name = {main, tag}
    Value = {v0, v1, v2}
    Absent = Absent
    Keep = Keep
    Any = Any
    NoObject = NoObject
    MaxRetries = 2
    MaxCalls = 2
    KeyErrors = FALSE
    PackedWriters = {s1, s2}
    Packers = {s2}
    Batches <- UpdateMain
    InitPacked = NoObject
    InitLoose <- FoldLoose
SPECIFICATION Spec
CHECK_DEADLOCK FALSE
PROPERTY PackRefsOnlyFolds

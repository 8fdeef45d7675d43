CONSTANTS
    main = main
    tag = tag
    v0 = v0
    v1 = v1
    v2 = v2
    Push = {p1}
    Daemon = {d1}
    Name = {main, tag}
    Value = {v0, v1, v2}
    Absent = Absent
    Keep = Keep
    Any = Any
    NoView = NoView
    InitRefs <- Start
    Requests <- TwoTips
    MaxContainers = 1
    MaxPushes = 1
    PackedFlags = {FALSE}
SPECIFICATION Spec
CHECK_DEADLOCK FALSE
INVARIANT RefsDurable

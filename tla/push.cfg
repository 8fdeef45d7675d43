CONSTANTS
    main = main
    tag = tag
    v0 = v0
    v1 = v1
    v2 = v2
    Push = {p1, p2}
    Daemon = {d1, d2}
    Name = {main, tag}
    Value = {v0, v1, v2}
    Absent = Absent
    Keep = Keep
    Any = Any
    NoView = NoView
    InitRefs <- Start
    Requests <- Clients
    MaxContainers = 1
    MaxPushes = 1
    PackedFlags = {TRUE, FALSE}
SPECIFICATION Spec
CHECK_DEADLOCK FALSE
INVARIANTS TypeOK PackedRefsDurable CueHasBin ToldWhatLanded SlotsAccounted
PROPERTY PushesEnd

SPECIFICATION Spec
CONSTANTS
    c1 = c1
    w1 = w1  w2 = w2
    g1 = g1
    loop = loop
    none = none
    Conns = {c1}
    Workers = {w1, w2}
    Pushers = {}
    LoopThread = loop
    NoConn = none
    NoThread = none
    MsgLen = 1
    SndBuf = 8
    PollTimeout = FALSE
    Frames = {"reply"}
    MaxFrames = 3
    MaxPushes = 0
INVARIANTS
    NoSleepWhileWork
CHECK_DEADLOCK FALSE

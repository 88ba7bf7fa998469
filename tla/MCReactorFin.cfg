SPECIFICATION Spec
CONSTANTS
    c1 = c1
    w1 = w1  w2 = w2
    g1 = g1
    loop = loop
    none = none
    Conns = {c1}
    Workers = {w1}
    Pushers = {g1}
    LoopThread = loop
    NoConn = none
    NoThread = none
    MsgLen = 2
    SndBuf = 3
    PollTimeout = FALSE
    Frames = {"reply", "close"}
    MaxFrames = 1
    MaxPushes = 1
INVARIANTS
    SentBeforeFin
CHECK_DEADLOCK FALSE

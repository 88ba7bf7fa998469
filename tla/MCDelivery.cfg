SPECIFICATION Spec
CONSTANTS
    m1 = m1
    m2 = m2
    r1 = r1
    r2 = r2
    d1 = d1
    none = none
    Chats = {m1, m2}
    Creates = {}
    DefaultRooms = {}
    Name <- MCName
    Partitions = {1}
    MAX_RETRIES = 2
    NoMsg = none
    MaxFaults = 1
INVARIANTS
    TypeOK
    NothingLostSilently
    InOrderWithinPartition
    RepeatsBounded
CHECK_DEADLOCK FALSE

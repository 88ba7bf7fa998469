SPECIFICATION FairSpec
CONSTANTS
    m1 = m1
    m2 = m2
    r1 = r1
    r2 = r2
    d1 = d1
    none = none
    Chats = {}
    Creates = {r1, r2}
    DefaultRooms = {d1}
    Name <- MCName
    Partitions = {1, 2}
    MAX_RETRIES = 2
    NoMsg = none
    MaxFaults = 1
INVARIANTS
    AnnouncedRoomsAreListed
PROPERTIES
    ConsumerMovesOn
CHECK_DEADLOCK FALSE

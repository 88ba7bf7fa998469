SPECIFICATION FairSpec
CONSTANTS
    Threads = {t1, t2, t3, t4}
    Timed = {t4}
    MinConn = 1
    MaxConn = 2
    NoThread = none
INVARIANTS
    TypeOK
    EachInOnePlace
    NoLostNotification
PROPERTIES
    FreeIsTaken
    ImplementsLease
CHECK_DEADLOCK FALSE

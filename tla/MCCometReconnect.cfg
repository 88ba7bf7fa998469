SPECIFICATION FairSpec
CONSTANTS
    c1 = c1  c2 = c2
    u1 = u1  u2 = u2
    r1 = r1  r2 = r2
    p1 = p1  p2 = p2
    w1 = w1  w2 = w2
    none = none
    NoConn = none
    NoUser = none
    NoRoom = none
    Conns <- MCConns
    Users <- MCUsers
    Rooms = {r1}
    Rpcs = {p1}
    Workers = {w1}
    InitRooms = {r1}
    Unreadable = {r1}
    ClientFrames = {"close"}
    MaxFrames = 1
INVARIANTS
    PushedOnlyToMembers
    HelloFirst
PROPERTIES
    PushReachesMembers
CHECK_DEADLOCK FALSE

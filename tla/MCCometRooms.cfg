SPECIFICATION Spec
CONSTANTS
    c1 = c1  c2 = c2
    u1 = u1  u2 = u2
    r1 = r1  r2 = r2
    p1 = p1  p2 = p2
    w1 = w1  w2 = w2
    none = none
    NoConn = none
    NoUser = none
    NoRoom = none
    Conns <- MCConns
    Users = {u1}
    Rooms = {r1, r2}
    Rpcs <- MCRpcs
    Workers = {w1}
    InitRooms = {r1}
    Unreadable = {r2}
    ClientFrames = {"clientCreateRoom", "requestRoomHistory", "clientMessages"}
    MaxFrames = 1
SYMMETRY RpcSymmetry
INVARIANTS
    TypeOK
    SubscribedToKnownRooms
    ToldOfAnnouncedRooms
    NoCircularWait
CHECK_DEADLOCK FALSE

SPECIFICATION FairSpec
CONSTANTS
    s1 = s1
    r1 = r1
    NoNode = NoNode
    NoSlot = NoSlot
    NoConn = NoConn
    Node = {n1, n2}
    Slot = {s1}
    Req = {r1, r2}
    Conn = {c1}
    SlotOf <- Keyless
    MultiKey = {r1}
    MultiBulk = {r1}
    TryCount = 1
    MaxCount = 2
    MaxMigrations = 1
CHECK_DEADLOCK FALSE
PROPERTY
    Termination

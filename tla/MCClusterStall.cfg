SPECIFICATION Spec
CONSTANTS
    s1 = s1
    r1 = r1
    NoNode = NoNode
    NoSlot = NoSlot
    NoConn = NoConn
    Node = {n1, n2}
    Slot = {s1}
    Req = {r1, r2}
    Conn = {c1, c2}
    SlotOf <- OneSlot
    MultiKey = {r2}
    MultiBulk = {r1}
    TryCount = 0
    MaxCount = 1
    MaxMigrations = 0
SYMMETRY Symmetric
CHECK_DEADLOCK FALSE
INVARIANT
    OwnReply

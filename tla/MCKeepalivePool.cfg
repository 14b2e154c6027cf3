CONSTANTS
    Upstream = {u1, u2, u3}
    Conn = {c1, c2, c3}
    Pool = {p1, p2}
    PoolSizes = {1, 2}
    NoConn = NoConn
    NoPool = NoPool
SPECIFICATION Spec
SYMMETRY Symmetry
INVARIANTS SoleOwner ActiveExact NoDanglingPool NoDubiousIdle
PROPERTY AbstractSpec

SPECIFICATION Spec
CONSTANTS
    w1 = w1
    NoVersion = NoVersion
    Unset = Unset
    Nobody = Nobody
    Worker = {w1}
    Session = {s1, s2}
    WorkerOf <- Accepted
    MaxTime = 3
    MaxLag = 1
    MaxEdits = 2
    MaxMoves = 2
    MaxCrashes = 1
SYMMETRY Symmetric
INVARIANTS
    ReloadTakesEffect
    TableNotOlder

CONSTANTS
    Key = {k1, k2}
    short = short
    long = long
    Text <- MCText
    TextSize <- MCTextSize
    NumberSize = 1
    MaxNumber = 1
    Amount = {1}
    Exptime = {0, 1}
    Capacity = 2
    Rounds = 1
    Attempts = {0, 1}
    None = None
    MaxTime = 4
SPECIFICATION Spec
SYMMETRY Symmetry
INVARIANT TreeMatchesQueue
PROPERTY PromiseSpec LossIsReported

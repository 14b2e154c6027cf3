CONSTANTS
    Worker = {w1, w2, w3}
    Name = {query_count, latency}
    Amount = {0, 1, 2}
    Nothing = Nothing
    MaxApplied = 6
SPECIFICATION Spec
SYMMETRY Symmetry
INVARIANTS NeverOvercounts OneSetEach
PROPERTY ExactOnceSettled
CHECK_DEADLOCK FALSE

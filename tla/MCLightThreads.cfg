SPECIFICATION Spec
CONSTANTS
    entry = entry
    abort = abort
    t1 = t1
    t2 = t2
    t3 = t3
    NULL = NULL
    Co <- Three
    Uses = {"orphans", "coroutines"}
    MaxZombies = 2
INVARIANTS CountExact OwnResume WakesLive NoLostWake WaitsForChild
PROPERTY AllEnded
CHECK_DEADLOCK FALSE

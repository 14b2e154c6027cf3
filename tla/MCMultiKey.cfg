SPECIFICATION FairSpec
CONSTANTS
    d = d
    s1 = s1
    s2 = s2
    Nil = Nil
    Key = {a, b, d}
    Slot = {s1, s2}
    SlotOf <- Tagged
    Arguments <- ShortLists
CHECK_DEADLOCK FALSE
INVARIANTS
    AsOneNode
    NoOrphan
PROPERTIES
    NoLateEffect
    Replied

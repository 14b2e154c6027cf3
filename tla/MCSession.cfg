SPECIFICATION Spec
CONSTANTS
    Kinds = {"known", "illegal", "unparsable", "raises"}
    MaxRequests = 3
    MaxTime = 6
    Second = 4
    Milli = 2
INVARIANTS InOrder AllCounted LatencyTrue LastRequest
PROPERTY Drains
CHECK_DEADLOCK FALSE

CONSTANTS
    Replies <- AllReplies
    Count = 2
    SignificantDigits = 2
SPECIFICATION Spec
INVARIANTS Framed Complete Faithful
CHECK_DEADLOCK FALSE

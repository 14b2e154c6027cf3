CONSTANTS
    First <- AllBytes
    Byte = {97, 123, 125}
    MaxLen = 5
    Nil = Nil
SPECIFICATION Spec
INVARIANTS CrcIsXmodem SlotOfNode
CHECK_DEADLOCK FALSE

\* n = 77, one message.
SPECIFICATION Spec
CONSTANTS
    ByteBits = 2
    p = 7
    q = 11
    B = 3
    BITS = 3
    Samples = {}
    R = 5
    Ks = {2}
    Messages <- OneMessage
INVARIANTS
    FindsOrder
CHECK_DEADLOCK FALSE

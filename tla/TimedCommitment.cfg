\* n = 77, every h, messages up to and beyond half the squarings.
SPECIFICATION Spec
CONSTANTS
    ByteBits = 2
    p = 7
    q = 11
    B = 3
    BITS = 3
    Samples = {8}
    R = 5
    Ks = {2, 3}
    Messages <- MCMessages
INVARIANTS
    TypeOK
    OpensToMessage
    HonestNeverThrows
    OrderReduces
CHECK_DEADLOCK FALSE

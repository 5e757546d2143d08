\* Every share and nonce of a group of order 13; bytes of two bits, so that
\* numbers and indices have one byte or two.
SPECIFICATION Spec
CONSTANTS
    n = 13
    X <- MCX
    ByteBits = 2
    Width = 2
    L = 5
    Hashes = {0, 6, 14}
INVARIANTS
    TypeOK
    SellerCanPublishT2
    KeysFromChain
    LockRedeemsT1
    HonestInstanceIsGood
\* An instance ends.
CHECK_DEADLOCK FALSE

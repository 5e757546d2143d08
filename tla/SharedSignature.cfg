\* Every share and nonce of a group of order 7, hashes below and above n,
\* the extreme blinders and one between.
SPECIFICATION Spec
CONSTANTS
    n = 7
    X <- MCX
    N = 4803
    Hashes = {0, 1, 5, 9}
    Blinders = {0, 20, 48}
INVARIANTS
    TypeOK
    SignsForSharedKey
    OpenedAsVerified
    ThrowsOnlyForRareDraws
CHECK_DEADLOCK FALSE

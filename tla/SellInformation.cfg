\* n = 35, two of four roots revealed. Draws has units, a multiple of each
\* prime and the boundary n \div 2 = 17.
SPECIFICATION Spec
CONSTANTS
    p = 5
    q = 7
    L = 4
    Draws = {1, 5, 7, 16, 17}
INVARIANTS
    TypeOK
    NothingLearnedUnpaid
    PaidBuyerFactors
    ThrowsOnlyAtHalf
CHECK_DEADLOCK FALSE

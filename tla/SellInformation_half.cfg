\* The boundary of the range genSquares draws from, n \div 2 = 7.
SPECIFICATION Spec
CONSTANTS
    p = 3
    q = 5
    L = 2
    Draws = {1, 2, 4, 7}
INVARIANTS
    HonestPartiesAgree
CHECK_DEADLOCK FALSE

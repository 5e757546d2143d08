\* Primes 11 and 13, in each place, equal too.
SPECIFICATION Spec
CONSTANTS
    bits = 3
    Factors = {0, 1, 5}
    Samples = {6}
INVARIANTS
    TypeOK
    Homomorphic
    ThrowsOnlyForBadRandomness
CHECK_DEADLOCK FALSE

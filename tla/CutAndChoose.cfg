\* Five runs, every choice, every cheating prover, both kinds of P::open.
SPECIFICATION FairGame
CONSTANT T = 5
INVARIANTS
    GameTypeOK
    SealedUntilCommitted
    VerdictIsJustified
PROPERTIES
    CheaterLoses
CHECK_DEADLOCK FALSE

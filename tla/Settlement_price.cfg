\* The parties agree on a price that is not the one T1 is built with.
SPECIFICATION Spec
CONSTANTS
    Prices = {30000}
    FaultSets = {{}}
INVARIANTS
    AgreedPriceAccepted
CHECK_DEADLOCK FALSE

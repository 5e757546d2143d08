\* Four instances, every choice; a sale nothing disturbs, one in which calls
\* are lost, and one everything may; T1's price and another one.
SPECIFICATION FairSale
CONSTANTS
    T = 4
    Prices = {20000, 30000}
    FaultSets = {{}, {"rpc"}, {"broadcast", "slow", "lateWatch", "rpc",
                               "search", "factorise"}}
INVARIANTS
    PaidInstanceIsSealed
PROPERTIES
    SaleIsFair
    SaleSettles
\* The process ends.
CHECK_DEADLOCK FALSE

\* T1's price and another one; nothing fails, one thing, or everything.
SPECIFICATION FairSpec
CONSTANTS
    Prices = {20000, 30000}
    FaultSets = {{}, {"broadcast"}, {"slow"}, {"lateWatch"}, {"rpc"},
                 {"search"}, {"factorise"}, {"rpc", "search", "factorise"},
                 {"broadcast", "slow", "lateWatch", "rpc", "search",
                  "factorise"}}
INVARIANTS
    TypeOK
    OneWinner
    SpendsOnlyLockedPrice
    NormalReturnIsSettled
    GivenUpForCause
PROPERTIES
    DetachedThreadsWriteNothing
    FairExchangeSafe
    FairExchangeFair
    RefundedFromCheater
    Ends
\* The process ends, and the jobs it leaves behind end.
CHECK_DEADLOCK FALSE

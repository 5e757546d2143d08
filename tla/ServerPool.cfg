\* Three sales on four workers: after one that loses a worker there are enough
\* for another, after two there are not.
SPECIFICATION FairSpec
CONSTANTS
    Workers = 4
    MaxSales = 3
INVARIANTS
    TypeOK
PROPERTIES
    WorkersComeBack
    SaleIsServed
\* The sales come to an end, or starve.
CHECK_DEADLOCK FALSE

SPECIFICATION Spec
CONSTANTS
    NumCustomers = 1
    NumSales = 2
    OnAccount = {1}
    NumCards = 1
    MaxMoves = 4
    Amounts = {1}
    RowsDeleted = FALSE
    Overlap = TRUE
INVARIANTS
    NeverOverdrawn
    StockMatchesLog
    SimTakenOnce
    SourceIsKnown
    SoldCardHasItsSale
CHECK_DEADLOCK FALSE

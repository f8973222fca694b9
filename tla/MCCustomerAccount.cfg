CONSTANTS
    NumSales = 2
    Prices <- OneToTwo
    MaxPayments = 2
    Amounts <- OnlyOne
    Corrections <- OneUpOrDown
    MaxAdjustments = 1
    Overtaken = FALSE
SPECIFICATION Spec
INVARIANTS
    BalanceMatchesLedger
    ChargeFollowsPrice
    PaidSaleNamesAPayment
PROPERTIES
    SettlesOnlyWithMoney
    SettlesOldestFirst

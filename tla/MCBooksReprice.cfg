\* A cancellation after a change of prices.
SPECIFICATION Spec
CONSTANTS
    NumSales = 1
    Prices = {3, 4}
    Packages = {1, 2}
    Chips = {0, 1}
    Openings = {5}
    Corrections <- Withdrawal
    MaxManual = 1
    NumMonths = 1
    Salaries = {0, 6}
    NumPayments = 1
    Handed = {2}
    Adjustments = {1}
    MaxAdjustments = 1
    Overlaps = {}
INVARIANT CancelRestoresDeduction
CHECK_DEADLOCK FALSE

\* Two orders that compete for the stock, repeated and failing deliveries.
SPECIFICATION FairSpec
CONSTANTS
    o1 = o1 o2 = o2
    Orders = {o1, o2}
    Quantity <- MCQuantity
    OnHand <- MCOnHand
    Price = 1
    Amounts <- MCAmounts
    MaxAttempts = 2
    MaxFaults = 1
INVARIANTS
    StockBooks ConfirmedBacked MoneyMatches
PROPERTIES
    OrderSettles UndoArrives
CHECK_DEADLOCK FALSE

SPECIFICATION Spec
CONSTANTS
    Questions = {q1, q2}
    Orders = {o1}
    Pools = {1, 2}
    Pack = 1
    MaxCost = 1
    WarnPercent = 100
    MaxOpenOrders = 5
    MaxGrants = 2
    LastMonth = 2
SYMMETRY Symmetry
CONSTRAINT OrdersFirst
INVARIANTS LedgerBalances ChargedWithinOverrun OverrunCharged StopIsAnnounced
INVARIANTS GrantPaysNewAnswers PaidInvoiceClosesOrder
CHECK_DEADLOCK FALSE

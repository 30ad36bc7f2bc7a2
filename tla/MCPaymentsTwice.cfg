SPECIFICATION Spec
CONSTANTS
    Invoices = {i1}
    Events = {e1}
    Schedulers = {s1}
    NoInvoice = NoInvoice
    NoSub = NoSub
    Period = 2
    Ahead = 1
    Grace = 1
    MaxAttempts = 2
    PollWithin = 2
    MaxSeats = 1
    LastDay = 1
INVARIANTS SettledOnce
CHECK_DEADLOCK FALSE

SPECIFICATION Spec
CONSTANTS
    Invoices = {i1, i2}
    Events = {}
    Schedulers = {s1, s2}
    NoInvoice = NoInvoice
    NoSub = NoSub
    Period = 2
    Ahead = 1
    Grace = 1
    MaxAttempts = 1
    PollWithin = 2
    MaxSeats = 2
    LastDay = 3
SYMMETRY Symmetry
INVARIANTS RenewalAsksForNextSeats OnePending PaidPeriodGiven PeriodsDisjoint
PROPERTIES PaidIsFinal
CHECK_DEADLOCK FALSE

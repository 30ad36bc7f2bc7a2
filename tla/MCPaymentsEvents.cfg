SPECIFICATION FairSpec
CONSTANTS
    Invoices = {i1}
    Events = {e1, e2}
    Schedulers = {s1}
    NoInvoice = NoInvoice
    NoSub = NoSub
    Period = 2
    Ahead = 1
    Grace = 1
    MaxAttempts = 2
    PollWithin = 1
    MaxSeats = 1
    LastDay = 2
INVARIANTS TypeOK SettledOncePerPath
PROPERTIES PaymentArrives WebhookConcluded
CHECK_DEADLOCK FALSE

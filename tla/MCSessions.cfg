SPECIFICATION Spec
CONSTANTS
    Families = {f1, f2}
    Requests = {r1, r2}
    MaxRows = 3
    Ttl = 1
    Life = 1
    Grace = 0
    MaxVersion = 1
    LastTick = 2
SYMMETRY Symmetry
INVARIANTS TypeOK ClosedStaysClosed OneTokenLives
PROPERTIES EndsForGood
CHECK_DEADLOCK FALSE

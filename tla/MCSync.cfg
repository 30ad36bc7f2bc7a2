SPECIFICATION Spec
CONSTANTS
    Docs = {d1, d2}
    Users = {u1, u2}
    Org = Org
    NoOne = NoOne
    NoDoc = NoDoc
    MaxAttempts = 2
    MaxChanges = 1
    MaxEvents = 2
SYMMETRY Symmetry
INVARIANTS MaterialsSound NoGrantNoAccess
PROPERTIES MirrorsSource RemovedIfAbsent
CHECK_DEADLOCK FALSE

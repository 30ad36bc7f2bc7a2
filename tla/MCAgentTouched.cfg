SPECIFICATION Spec
CONSTANTS
    Docs = {d1}
    Handlers = {h1, h2}
    NoDoc = NoDoc
    NoHandler = NoHandler
    MaxRuns = 2
    MaxChanges = 2
SYMMETRY Symmetry

PROPERTIES TouchedStays
CHECK_DEADLOCK FALSE

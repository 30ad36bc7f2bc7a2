SPECIFICATION Spec
CONSTANTS
    Materials = {m1}
    Jobs = {j1, j2, j3}
    Workers = {w1, w2}
    NoMaterial = NoMaterial
    NoJob = NoJob
    NoWorker = NoWorker
    MaxText = 2
    MaxCrashes = 1
INVARIANTS JobHeldByOneWorker
CHECK_DEADLOCK FALSE

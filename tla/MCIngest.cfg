SPECIFICATION FairSpec
CONSTANTS
    Materials = {m1}
    Jobs = {j1, j2}
    Workers = {w1, w2}
    NoMaterial = NoMaterial
    NoJob = NoJob
    NoWorker = NoWorker
    MaxText = 2
    MaxCrashes = 1
INVARIANTS TypeOK OneActiveJob SearchIsCurrent NothingForgotten
PROPERTIES ChunksNeverRegress JobEnds
CHECK_DEADLOCK FALSE

SPECIFICATION Spec
CONSTANTS
    r1 = r1
    r2 = r2
    r3 = r3
    Runs <- ThreeRuns
    Earlier = Earlier
INVARIANTS
    NeverDoubled
    BranchEndsSeeded
PROPERTIES
    OnlyAResetReplaces
    ActsAsOneDataset
    EveryRunEnds
CHECK_DEADLOCK FALSE

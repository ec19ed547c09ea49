SPECIFICATION Spec
CONSTANTS

    small = small  large = large
    Jobs = {j1, j2, j3}
    Subtitles = {small, large}
    Capacity = 1
    MaxParallelism = 2
    MemoryMb = 2
    Cost <- MCCost
    MaxFaults = 1
    MaxCrashes = 1
SYMMETRY JobSymmetry
INVARIANTS
    QueueInv
    ExclusiveWork
    NoOrphan
    MemoryBudget
PROPERTIES
    ImplementsLifecycle
    OutcomeIsFinal

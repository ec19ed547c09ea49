SPECIFICATION FairSpec
CONSTANTS
    small = small  large = large
    Jobs = {j1, j2}
    Subtitles = {small, large}
    Capacity = 1
    MaxParallelism = 2
    MemoryMb = 2
    Cost <- MCCost
    MaxFaults = 0
    MaxCrashes = 1
PROPERTIES SendersAreServed JobsAreProcessed

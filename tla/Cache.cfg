SPECIFICATION LiveSpec
CONSTANTS
    font = font  draw = draw
    Tasks = {t1, t2}
    Keys = {font, draw}
    Drawings = {draw}
    Size <- MCSize
    MaxBytes = 2
    MaxLookups = 3
    MaxFaults = 1
    MaxCrashes = 1
CHECK_DEADLOCK FALSE
INVARIANTS CacheInv ReadFindsFile GaugeIsExact
PROPERTIES LookupsEnd

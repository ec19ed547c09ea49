SPECIFICATION Spec
CONSTANTS
    p = p  q = q  wanted = wanted  garbled = garbled  name = name
    s1 = s1
    Paths = {p, q}
    Roots <- MCRoots
    Contents = {wanted, garbled}
    Names = {name}
    Provides <- MCProvides
    Unreadable = {garbled}
    Subtitles = {s1}
    Wanted <- MCWanted
    Batch = 1
    MaxRebuilds = 2  MaxJobs = 1  MaxEvents = 2
CHECK_DEADLOCK FALSE
INVARIANTS IndexInv RowsAreTruthful IndexMatchesDisk PartialsAreCurrent
PROPERTIES PrunesOnlyTheGone

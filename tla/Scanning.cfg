SPECIFICATION Spec
CONSTANTS
    Jobs = {j1, j2}
    Files = {f}
    Uploads = {}
    InitialForms = {"orig", "ext_marked", "ext_late", "ext_fonts"}
    RetentionDays = 1
    Modes = {"subset"}
    Configs = {c1, c2}
    Errors = 0
    Crashes = 0
    Restores = 1
    Changes = 1
    ScanRuns = 2
    Analyses = 0
    Budget <- MCBudget
SYMMETRY Symmetry
CHECK_DEADLOCK FALSE
INVARIANTS MetadataIsTruthful
PROPERTIES MarkersAreSkipped

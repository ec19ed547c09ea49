SPECIFICATION Spec
CONSTANTS
    Jobs = {j1}
    Files = {f}
    Uploads = {f}
    InitialForms = {"orig"}
    RetentionDays = 0
    Modes = {"subset"}
    Configs = {c1}
    Errors = 0
    Crashes = 0
    Restores = 1
    Changes = 0
    ScanRuns = 0
    Analyses = 0
    Budget <- MCBudget
SYMMETRY Symmetry
CHECK_DEADLOCK FALSE
PROPERTIES
    RestoreSticks

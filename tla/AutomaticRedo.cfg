SPECIFICATION Spec
CONSTANTS
    Jobs = {j1, j2}
    Files = {f}
    Uploads = {}
    InitialForms = {"orig"}
    RetentionDays = 0
    Modes = {}
    Configs = {c1, c2}
    Errors = 0
    Crashes = 0
    Restores = 0
    Changes = 1
    ScanRuns = 2
    Analyses = 0
    Budget <- MCBudget
SYMMETRY Symmetry
CHECK_DEADLOCK FALSE
PROPERTIES
    NoAutomaticRedo

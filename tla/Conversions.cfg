SPECIFICATION Spec
CONSTANTS
    Jobs = {j1, j2}
    Files = {f}
    Uploads = {f}
    InitialForms = {"orig"}
    RetentionDays = 0
    Modes = {"subset", "strip"}
    Configs = {c1}
    Errors = 1
    Crashes = 1
    Restores = 1
    Changes = 0
    ScanRuns = 0
    Analyses = 1
    Budget <- MCBudget
SYMMETRY Symmetry
CHECK_DEADLOCK FALSE
INVARIANTS FilesInv OriginalRecoverable AnalysisIsTruthful
PROPERTIES ReplacesWhatItRead

SPECIFICATION SettingsLiveSpec
CONSTANTS
    ascii = ascii  draw = draw
    Handlers = {h1, h2}
    Options = {ascii}
    Intervals = {0, 1, 3}
    MaxInterval = 2
    Limits = {0, 3}
    MaxLimit = 2
    Defaults <- MCDefaults
    MaxChanges = 3  MaxFaults = 1  MaxScheduled = 2  MaxCrashes = 1
CHECK_DEADLOCK FALSE
INVARIANTS SettingsInv AcknowledgedSurvives
PROPERTIES ScheduleFollows

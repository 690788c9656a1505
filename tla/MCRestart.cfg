SPECIFICATION Spec
CONSTANTS
    None = none
    Users = {}
    StartTime = 10
    MaxTime = 11
    Matches = {1}
    Markets = {1, 2}
    Templates = {t}
    Attestors = {key}
    Workflows = {}
    Opened <- MCOpened
    Wagers <- MCWagers
    Answers = {"Void"}
    TxsPerBlock = 10
    MaxAttempts = 5
    IndexLag = 3
    DiskSurvives = TRUE
    MaxFaults = 0
    MaxCrashes = 1
PROPERTIES
    EveryBetSettles
CHECK_DEADLOCK FALSE

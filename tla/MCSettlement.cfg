SPECIFICATION Spec
CONSTANTS
    None = none
    Users = {}
    StartTime = 10
    MaxTime = 11
    Matches = {1}
    Markets = {1, 2}
    Templates = {t}
    Attestors = {key}
    Workflows = {}
    Opened <- MCOpened
    Wagers <- MCWagers
    Answers = {"Yes", "Void", "Failed"}
    TxsPerBlock = 10
    MaxAttempts = 5
    IndexLag = 3
    DiskSurvives = FALSE
    MaxFaults = 1
    MaxCrashes = 1
INVARIANTS
    PendingNeverStale
    NothingForgotten
PROPERTIES
    EveryBetSettles
CHECK_DEADLOCK FALSE

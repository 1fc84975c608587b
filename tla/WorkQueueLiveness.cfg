\* One job, two workers; the clock never reaches MaxTime, so time is not cut short.
SPECIFICATION FairSpec
CONSTANTS
    MAX_WORK_ATTEMPTS = 3
    BASE_RETRY_DELAY = 1
    MAX_RETRY_DELAY = 2
    LeaseMs = 2
    i1 = i1
    i2 = i2
    w1 = w1
    w2 = w2
    Items = {i1}
    Workers = {w1, w2}
    Nothing = Nothing
    DueAt <- OneDueAt
    HandlerReasons = {"NETWORK", "VALIDATION"}
    MaxTime = 40
    Slack = 1
    MaxFaults = 1
PROPERTIES
    EveryJobEnds
CHECK_DEADLOCK FALSE

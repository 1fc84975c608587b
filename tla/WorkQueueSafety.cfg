\* Two jobs, two workers: claims in due order, retries, crashes.
SPECIFICATION Spec
CONSTANTS
    MAX_WORK_ATTEMPTS = 3
    BASE_RETRY_DELAY = 1
    MAX_RETRY_DELAY = 2
    LeaseMs = 2
    i1 = i1
    i2 = i2
    w1 = w1
    w2 = w2
    Items = {i1, i2}
    Workers = {w1, w2}
    Nothing = Nothing
    DueAt <- TwoDueAt
    HandlerReasons = {"NETWORK", "VALIDATION"}
    MaxTime = 4
    Slack = 1
    MaxFaults = 1
SYMMETRY WorkerSymmetry
INVARIANTS
    TypeOK
    RowsCoherent
    ExclusiveLease
PROPERTIES
    EndedJobsStayEnded
    OnlyLateWorkersUsurp
    RowsImplementWorkItem
CHECK_DEADLOCK FALSE

\* One checkpoint, two workers, a crash: every kind of goal and of answer.
SPECIFICATION CheckpointSpec
CONSTANTS
    MAX_WORK_ATTEMPTS = 2
    BASE_RETRY_DELAY = 1
    MAX_RETRY_DELAY = 2
    LeaseMs = 2
    CHECKPOINT_LEAD = 2
    MAX_QUOTE_AGE = 1
    TicksPerSecond = 3
    g1 = g1
    w1 = w1
    w2 = w2
    Items = {g1}
    Workers = {w1, w2}
    Nothing = Nothing
    DueAt <- CheckpointDueAt
    HandlerReasons = {"VALIDATION", "UNKNOWN"}
    Contexts <- AllContexts
    BuyAmounts = {1, 2}
    QuoteLives = {0, 2}
    MaxTime = 5
    Slack = 1
    MaxFaults = 1
SYMMETRY WorkerSymmetry
INVARIANTS
    CompleteMeansRecorded
    ReplaceIsWarranted
    FilledIsNeverMissed
    NeverDecidedEarly
    OneDecisionPerDelivery
PROPERTIES
    QueueUnderHandler
CHECK_DEADLOCK FALSE

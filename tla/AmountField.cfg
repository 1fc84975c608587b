\* Every text of up to seven of these keys, for a token of two decimals.
SPECIFICATION FieldSpec
CONSTANTS
    Decimals = 2
    CHECKPOINT_LEAD_TIME_MS = 1
    MINIMUM_GOAL_DURATION_MS = 2
    Keyboard = {"0", "1", "9", ".", " ", "-"}
    MaxLength = 7
INVARIANTS
    ParsesExactly
    FormatsExactly

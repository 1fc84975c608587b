\* Two saves at once, two goals, two markets, a browser in the server's zone or
\* ahead of it.
SPECIFICATION Spec
CONSTANTS
    CHECKPOINT_LEAD_TIME_MS = 1
    MINIMUM_GOAL_DURATION_MS = 2
    s1 = s1
    s2 = s2
    Inputs <- MCInputs
    Blank <- MCBlank
    Saves = {s1, s2}
    MaxGoals = 2
    MaxTime = 1
    BrowserZones = {0, 1}
    ServerZone = 0
    Markets <- MCMarkets
SYMMETRY ComposerSymmetry
INVARIANTS
    SavedGoalsCanRun
    LinkOpensThisGoal
    SavedAsPreviewed
    SavingIsAwaited

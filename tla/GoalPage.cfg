\* One order; loads of a panel, and refreshes, overlap in pairs.
SPECIFICATION Spec
CONSTANTS
    u1 = u1
    u2 = u2
    s1 = s1
    s2 = s2
    t1 = t1
    t2 = t2
    Uids = {u1}
    None = None
    Slots = {s1, s2}
    RefreshSlots = {t1, t2}
    Panels = {"timeline"}
SYMMETRY GoalPageSymmetry
INVARIANTS
    VerifiedIsRecorded
    EvidenceReachesPanels
    WaitsAreAnswered
PROPERTIES
    OrdersAreAuthorizations
    ReceiptGoesBackOnlyByOverlap

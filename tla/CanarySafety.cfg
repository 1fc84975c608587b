\* Two pages, two possible executions.
SPECIFICATION Spec
CONSTANTS
    p1 = p1
    p2 = p2
    e1 = e1
    e2 = e2
    Pages = {p1, p2}
    Executions = {e1, e2}
    None = None
SYMMETRY CanarySymmetry
INVARIANTS
    OneExecution
    ReceiptIsReal
    LoadingIsAwaited
PROPERTIES
    ReceiptsAdvance

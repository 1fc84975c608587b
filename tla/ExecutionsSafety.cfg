\* Two goals that share terms, one per network; two requests race.
SPECIFICATION Spec
CONSTANTS
    g1 = g1
    g2 = g2
    t1 = t1
    r1 = r1
    r2 = r2
    Goals = {g1, g2}
    Requests = {r1, r2}
    Nothing = Nothing
    Terms = {t1}
    TermsOf <- SharedTerms
    NetworkOf <- MixedGoals
SYMMETRY RequestSymmetry
INVARIANTS
    LedgerAgreesWithRemote
    OnlySimulatedIsSubmitted
    RecordedIsTracked
PROPERTIES
    OrdersAreAuthorizations
    OutcomesAreFinal
CHECK_DEADLOCK FALSE

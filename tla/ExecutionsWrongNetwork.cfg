\* A goal drafted for each network: what is submitted for the testnet one?
SPECIFICATION Spec
CONSTANTS
    g1 = g1
    g2 = g2
    t1 = t1
    r1 = r1
    r2 = r2
    Goals = {g1, g2}
    Requests = {r1, r2}
    Nothing = Nothing
    Terms = {t1}
    TermsOf <- SharedTerms
    NetworkOf <- MixedGoals
SYMMETRY RequestSymmetry
INVARIANT
    SubmitsOnTheGoalsNetwork
CHECK_DEADLOCK FALSE

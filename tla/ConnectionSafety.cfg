\* Two attempts, a code each, two racing requests; a record expires at the next tick.
SPECIFICATION Spec
CONSTANTS
    a1 = a1
    a2 = a2
    r1 = r1
    r2 = r2
    c1 = c1
    Attempts = {a1, a2}
    Requests = {r1, r2}
    Codes = {c1}
    None = None
    MaxAge = 0
    MaxTime = 1
SYMMETRY ConnectionSymmetry
INVARIANTS
    WalletNeedsTokens
    TokensMatchConsent
PROPERTIES
    ConnectionSurvives

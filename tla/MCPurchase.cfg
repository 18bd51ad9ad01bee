SPECIFICATION Spec
CONSTANTS
    Requests = {r1, r2, r3}
    None = None
    Prepared = FALSE
    Switching = TRUE
    Faults = {"in_lock", "after_commit", "activation", "save", "mail", "execution"}
    MaxFaults = 3
    MaxSessions = 2
SYMMETRY RequestSymmetry
INVARIANTS TypeOK OnePurchase FulfilmentNeedsCapture ResearchOnceUnlessLost ResearchHasItsCase OneConfirmation

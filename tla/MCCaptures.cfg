SPECIFICATION Spec
CONSTANTS
    Ops = {"cap1", "cap2"}
    Kind <- TwoCaptures
    Amount <- PartAndRest
    Workers = {w1, w2}
    Keys = {k1}
    Authorized = 3
    LeaseCovers = TRUE
    Failures = "definite"
    ExactProvider = TRUE
    OutsideCapture = FALSE
    MaxAttempts = 4
SYMMETRY WorkerSymmetry
INVARIANTS NoOverCapture SliceHeld LedgerIsSlices LedgerWithinAuthorization SingleAttempt

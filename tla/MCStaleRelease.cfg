SPECIFICATION Spec
CONSTANTS
    Ops = {"cap1", "cap2"}
    Kind <- TwoCaptures
    Amount <- Parts
    Workers = {w1, w2}
    Keys = {}
    Authorized = 2
    LeaseCovers = FALSE
    Failures = "definite"
    ExactProvider = TRUE
    OutsideCapture = FALSE
    MaxAttempts = 3
SYMMETRY WorkerSymmetry
INVARIANT NoOverCapture
